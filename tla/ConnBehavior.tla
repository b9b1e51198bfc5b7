---------------------------- MODULE ConnBehavior ----------------------------
(***************************************************************************)
(* ConnBehaviorTracker (inference/conn_behavior.py) for one pair of hosts, *)
(* and the in-memory stand-in the evaluations use instead of it            *)
(* (scripts/_fast_conn_behavior.py), fed with the same connections.        *)
(*                                                                         *)
(* A connection is stamped by the clock of its process and recorded a      *)
(* little later, by one transaction on a sorted set that three windows     *)
(* share.  The fast tracker keeps a queue and running sums per window.     *)
(***************************************************************************)
EXTENDS Integers, Sequences, FiniteSets

CONSTANTS
  DdosWindow, BeaconWindow, ExfilWindow,   \* seconds
  DdosCount, ExfilBytes,                   \* thresholds
  BeaconObservations, BeaconInterval,
  Cap,           \* MAX_TRACKED_TIMESTAMPS_PER_PAIR
  Bytes,         \* byte counts of a connection
  Lag,           \* bound: seconds a record comes after its stamp
  MaxClock,      \* bound: seconds that pass
  MaxConns       \* bound: connections

Windows == {DdosWindow, BeaconWindow, ExfilWindow}
Retention == CHOOSE w \in Windows : \A x \in Windows : w >= x

\* An assumption; the module that instantiates this one makes it.
ConnAssumption ==
  /\ Windows \subseteq Nat \ {0} /\ Bytes \subseteq Nat
  /\ {Cap, MaxConns} \subseteq Nat \ {0} /\ {Lag, MaxClock} \subseteq Nat
  /\ BeaconObservations \in Nat
  /\ {DdosWindow + Lag, ExfilWindow + Lag} \subseteq 0..BeaconWindow - 1   \* 6 h, 10 min

VARIABLES
  conns,   \* history: stamp and bytes of each connection recorded
  stored,  \* those in the sorted set
  expiry,  \* when the key expires
  fast,    \* the fast tracker's state of the pair
  clock

vars == <<conns, stored, expiry, fast, clock>>

Ts(k) == conns[k].ts

\* Of the first n members of f
Sum(f, n) ==
  LET upTo[m \in 0..n] == IF m = 0 THEN 0 ELSE upTo[m - 1] + f[m]
  IN upTo[n]

Init ==
  /\ conns = <<>> /\ stored = {}
  /\ expiry = 0
  /\ fast = [ddos |-> <<>>, beacon |-> <<>>, intervals |-> <<>>, last |-> 0,
             exfil |-> <<>>, sum |-> 0, sumsq |-> 0, bytes |-> 0]
  /\ clock = 1

-----------------------------------------------------------------------------
(* Recording                                                               *)

\* Fault: the key lives for the window of a flood only.
ExpiresShort == clock + DdosWindow

\* EXPIRE: relative to the clock
Expires == clock + Retention

\* ZREMRANGEBYSCORE: relative to the connection that is recorded
Pruned(S, all, ts) == {k \in S : all[k].ts > ts - Retention}

\* ZREMRANGEBYRANK: the newest stay, ties in any order
Capped(S, all) ==
  {T \in SUBSET S :
     /\ Cardinality(T) = IF Cardinality(S) > Cap THEN Cap ELSE Cardinality(S)
     /\ \A k \in T, j \in S \ T : all[j].ts <= all[k].ts}

\* How many entries at the head of queue q are older than the window
Stale(q, ts, w) ==
  Cardinality({n \in 1..Len(q) : \A m \in 1..n : q[m][1] < ts - w})
Lost(q, ts, w) == SubSeq(q, 1, Stale(q, ts, w))
Fresh(q, ts, w) == SubSeq(q, Stale(q, ts, w) + 1, Len(q))

Total(q) == Sum([n \in 1..Len(q) |-> q[n][2]], Len(q))
Squares(q) == Sum([n \in 1..Len(q) |-> q[n][2] * q[n][2]], Len(q))

\* Fault: bytes that leave the window stay in the sum.
LessNone(lost) == 0

\* What a running sum loses with the entries that leave the window
Less(lost) == Total(lost)

\* FastConnBehaviorTracker.record_connection
Recorded(f, ts, bytes) ==
  LET gap == IF f.last # 0 THEN ts - f.last ELSE 0
      timed == IF gap > 0 THEN Append(f.intervals, <<ts, gap>>) ELSE f.intervals
      more == IF gap > 0 THEN gap ELSE 0
      late == Lost(timed, ts, BeaconWindow)
      sent == Append(f.exfil, <<ts, bytes>>) IN
  [ddos |-> Fresh(Append(f.ddos, <<ts, 0>>), ts, DdosWindow),
   beacon |-> Fresh(Append(f.beacon, <<ts, 0>>), ts, BeaconWindow),
   intervals |-> Fresh(timed, ts, BeaconWindow), last |-> ts,
   exfil |-> Fresh(sent, ts, ExfilWindow),
   sum |-> f.sum + more - Less(late), sumsq |-> f.sumsq + more * more - Squares(late),
   bytes |-> f.bytes + bytes - Less(Lost(sent, ts, ExfilWindow))]

Record(ts, bytes) ==
  LET all == Append(conns, [ts |-> ts, bytes |-> bytes]) IN
  /\ Len(conns) < MaxConns
  /\ conns' = all
  /\ stored' \in Capped(Pruned(stored \cup {Len(all)}, all, ts), all)
  /\ expiry' = Expires
  /\ fast' = Recorded(fast, ts, bytes)
  /\ UNCHANGED clock

\* A second passes; the key may expire
Tick ==
  /\ clock < MaxClock /\ clock' = clock + 1
  /\ stored' = IF clock' >= expiry THEN {} ELSE stored
  /\ UNCHANGED <<conns, expiry, fast>>

Next ==
  \/ \E lag \in 0..Lag, bytes \in Bytes :
       clock > lag /\ Record(clock - lag, bytes)
  \/ Tick

Spec == Init /\ [][Next]_vars

-----------------------------------------------------------------------------
(* The three checks, on the stamp of a connection                          *)

In(S, ts, w) == {k \in S : Ts(k) \in ts - w .. ts}

Flood(ts) == Cardinality(In(stored, ts, DdosWindow)) >= DdosCount

Exfil(ts) ==
  LET window == In(stored, ts, ExfilWindow)
      counted == [k \in DOMAIN conns |-> IF k \in window THEN conns[k].bytes ELSE 0]
  IN Sum(counted, Len(conns)) >= ExfilBytes

\* Is the mean of n intervals long enough, and their standard deviation at
\* most half of it?  s is their sum, q the sum of their squares.
Regular(n, s, q) ==
  /\ n >= 2
  /\ s >= n * BeaconInterval
  /\ 4 * n * (n * q - s * s) <= (n - 1) * s * s

\* Intervals between the connections of the window, in the order of stamps
Beacon(ts) ==
  LET S == In(stored, ts, BeaconWindow)
      size == Cardinality(S)
      order == CHOOSE o \in [1..size -> S] : \A m, n \in 1..size :
                 m < n => \/ Ts(o[m]) < Ts(o[n])
                          \/ Ts(o[m]) = Ts(o[n]) /\ o[m] < o[n]
      ivs == [n \in 1..size - 1 |-> <<0, Ts(order[n + 1]) - Ts(order[n])>>] IN
  /\ size >= BeaconObservations
  /\ Regular(Len(ivs), Total(ivs), Squares(ivs))

FastFlood == Len(fast.ddos) >= DdosCount
FastExfil == fast.bytes >= ExfilBytes
FastBeacon ==
  /\ Len(fast.beacon) >= BeaconObservations
  /\ Regular(Len(fast.intervals), fast.sum, fast.sumsq)

-----------------------------------------------------------------------------
(* Properties                                                              *)

All == DOMAIN conns
Newest == CHOOSE t \in 0..clock : /\ \A k \in All : Ts(k) <= t
                                  /\ t = 0 \/ \E k \in All : Ts(k) = t

TypeOK ==
  /\ stored \subseteq All /\ Cardinality(stored) <= Cap
  /\ fast.sum >= 0 /\ fast.bytes >= 0
  /\ Len(fast.ddos) <= Len(conns) /\ Len(fast.intervals) < MaxConns

\* A check sees every connection of its window, however late the records of
\* the pair came: unless more than the cap came since the window began, or
\* a record was so far ahead of the check that it pruned into the window, or
\* the check comes so late that the key has expired.
WindowsComplete ==
  \A k \in All, w \in Windows :
    /\ Newest - Retention < Ts(k) - w
    /\ Cardinality({j \in All : Ts(j) >= Ts(k) - w}) <= Cap
    /\ clock - Ts(k) < Retention
    => In(stored, Ts(k), w) = In(All, Ts(k), w)

\* The connections came in the order of their stamps, as in an evaluation,
\* the cap was not reached and the key did not expire: then both trackers
\* answer the same.
Ordered ==
  /\ conns # <<>> /\ expiry > clock
  /\ \A k \in 1..Len(conns) - 1 : Ts(k) <= Ts(k + 1)
  /\ Len(conns) <= Cap

\* No two connections at the same time, and none so old that it is outside the
\* window or at its very start, which the pruning takes from the longest window,
\* or that the key can have expired since and been made anew
Steady ==
  /\ \A k \in 1..Len(conns) - 1 : Ts(k) < Ts(k + 1)
  /\ Ts(1) + BeaconWindow > fast.last + Lag

\* The fast tracker finds the floods and transfers the Redis one finds, with
\* sums that it never recomputes; and the beacons, while it has no interval
\* to leave out (it drops zeros, which count for the Redis one, and keeps the
\* interval that reaches back over the start of the window).
FastAgrees ==
  Ordered => /\ FastFlood = Flood(fast.last)
             /\ FastExfil = Exfil(fast.last)
             /\ Steady => (FastBeacon = Beacon(fast.last))
=============================================================================
