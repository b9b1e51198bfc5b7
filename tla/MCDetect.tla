------------------------------ MODULE MCDetect ------------------------------
(***************************************************************************)
(* Instances of Detect for TLC: two DNS queries and a connection; more     *)
(* coroutines than admissions, more admissions than slots, one thread.     *)
(***************************************************************************)
EXTENDS Detect

Traffic == 1 .. 3
KindOf == [e \in Traffic |-> IF e = 3 THEN "conn" ELSE "dns"]
=============================================================================
