------------------------------ MODULE Windows -------------------------------
(***************************************************************************)
(* Which parts of a name the CNN gets to see: _predict_impl of             *)
(* inference/models.py cuts a name, and parts of it, into windows of 35    *)
(* characters.  A name is the lengths of its labels, which are distinct;   *)
(* what normalization made of an internationalized one is a second text.   *)
(***************************************************************************)
EXTENDS Integers, FiniteSets, Sequences

CONSTANT Names     \* queried names

\* An assumption, of the module that instantiates this one: a text that is
\* empty does not get here (models.py:246), and no part of it is.
WindowsAssumption ==
  \A q \in Names : /\ q.labels \in Seq(Nat \ {0}) /\ q.labels # <<>>
                   /\ q.clean \in Nat /\ q.late \in BOOLEAN

VARIABLE query     \* the name that is looked at

Width == 35
Stride == 15
Budget == 32
MaxVariants == 8
Longest == 512

\* 80: what the windows of the least share, four, reach
Reach == 3 * Stride + Width

None == [labels |-> <<>>, clean |-> 0, late |-> FALSE]

Init == query = None

\* Characters before label k of the name, dots included
Offset(q, k) ==
  LET before[n \in 0 .. Len(q.labels)] ==
        IF n = 0 THEN 0 ELSE before[n - 1] + q.labels[n] + 1
  IN before[k - 1]
Length(q) == Offset(q, Len(q.labels) + 1) - 1

\* Labels j to k of the name
Part(q, j, k) ==
  [text |-> "ascii", from |-> Offset(q, j), len |-> Offset(q, k + 1) - 1 - Offset(q, j)]

\* Labels of four characters or more, in order
LongLabels(q) ==
  LET among[k \in 0 .. Len(q.labels)] ==
        IF k = 0 THEN <<>>
        ELSE IF q.labels[k] < 4 THEN among[k - 1]
        ELSE Append(among[k - 1], Part(q, k, k))
  IN among[Len(q.labels)]

\* The texts to look at: the name, as it was written if that differs, its last
\* two labels, and every label of four characters or more; the first eight.
Variants(q) ==
  LET n == Len(q.labels)
      unicode == IF q.clean = 0 THEN <<>>
                 ELSE <<[text |-> "clean", from |-> 0, len |-> q.clean]>>
      last == IF n > 2 THEN <<Part(q, n - 1, n)>> ELSE <<>>
      labels == IF n < 2 THEN <<>> ELSE LongLabels(q)
      all == <<Part(q, 1, n)>> \o unicode \o last \o labels
  IN SubSeq(all, 1, IF Len(all) < MaxVariants THEN Len(all) ELSE MaxVariants)

\* Fault: every text may use up what is there for all.
WholeBudget(q) == Budget

Share(q) == Budget \div Len(Variants(q))

\* Fault: the end of a text that the stride does not hit is left out.
StartsNoTail(len, share) ==
  IF len <= Width THEN {0}
  ELSE {s \in {Stride * k : k \in 0 .. share - 1} : s <= len - Width}

\* Where windows begin in a text
Starts(len, share) ==
  LET steps == {s \in {Stride * k : k \in 0 .. share - 1} : s <= len - Width}
  IN IF len <= Width THEN {0}
     ELSE IF Cardinality(steps) < share THEN steps \cup {len - Width} ELSE steps

\* A name that is too long, or comes after its deadline, is not looked at.
Refused(q) == q.late \/ (IF q.clean = 0 THEN Length(q) ELSE q.clean) > Longest

Slices(q) ==
  IF Refused(q) THEN {}
  ELSE LET texts == Variants(q)
           share == Share(q)
       IN UNION {{[variant |-> v, start |-> s] : s \in Starts(texts[v].len, share)} :
                   v \in DOMAIN texts}

\* A query, and its answer
Predict ==
  \/ query = None /\ query' \in Names
  \/ query # None /\ query' = None

-----------------------------------------------------------------------------
\* Characters of the name that are in some window
Seen(q) ==
  LET texts == Variants(q)
      End(w) == IF texts[w.variant].len < w.start + Width
                THEN texts[w.variant].len ELSE w.start + Width
  IN UNION {texts[w.variant].from + w.start .. texts[w.variant].from + End(w) - 1 :
              w \in {x \in Slices(q) : texts[x.variant].text = "ascii"}}

Looked == query # None /\ ~Refused(query)

\* No text starves another: each of the first eight has a window and together
\* they stay within the batch, from which nothing is cut off (models.py:321).
SlicesFit ==
  Looked =>
    /\ Cardinality(Slices(query)) <= Budget
    /\ \A v \in DOMAIN Variants(query) : \E w \in Slices(query) : w.variant = v

\* "zero blind spots for long domains" (models.py:303), as far as it goes: a
\* name of two texts is seen as a whole, every name in its first 80 characters,
\* and every label that is one of the texts from its first to its last, unless
\* it is longer than those, which no label of the DNS is.
NoBlindSpots ==
  (Looked /\ Length(query) <= 253) =>
    LET texts == Variants(query)
        seen == Seen(query)
    IN
    /\ Len(texts) <= 2 => 0 .. Length(query) - 1 \subseteq seen
    /\ \A c \in 0 .. Reach - 1 : c < Length(query) => c \in seen
    /\ \A k \in DOMAIN query.labels :
         LET label == Part(query, k, k) IN
         label.len <= Reach /\ (\E v \in DOMAIN texts : texts[v] = label) =>
            label.from .. label.from + label.len - 1 \subseteq seen
=============================================================================
