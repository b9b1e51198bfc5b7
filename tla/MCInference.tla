----------------------------- MODULE MCInference -----------------------------
(***************************************************************************)
(* Inference for TLC: the traffic of MCDetect; names of one to four labels *)
(* that are too short to be looked at, short, or of full length, longer    *)
(* ones of six, some with more labels than are looked at, and texts        *)
(* without a dot.                                                          *)
(***************************************************************************)
EXTENDS Inference

Traffic == 1 .. 3
KindOf == [e \in Traffic |-> IF e = 3 THEN "conn" ELSE "dns"]

Labels3 == {3, 16, 63}
ManyLabels == {[k \in 1 .. 10 |-> 5], [k \in 1 .. 12 |-> IF k < 6 THEN 3 ELSE 30],
               <<254>>, <<520>>}
SomeNames ==
  [labels : ManyLabels \cup UNION {[1 .. n -> Labels3] : n \in 1 .. 4}
     \cup {<<3>> \o labels : labels \in [1 .. 5 -> {3, 63}]},
   clean : {0, 200}, late : {FALSE}]
  \cup [labels : {<<16, 3>>}, clean : {0}, late : {TRUE}]
=============================================================================
