----------------------------- MODULE PcapFlows ------------------------------
(***************************************************************************)
(* The sensor of captures, ingest/pcap_ingester.py: it folds packets into  *)
(* flows, gives every open flow to Kafka each so many packets with the     *)
(* counts it has by then, gives up the oldest when there are too many, and *)
(* the rest at the end.                                                    *)
(*                                                                         *)
(* A packet counts for one, in packets as in bytes; durations, ports and   *)
(* protocols are left out: a conversation is a pair of ends.               *)
(***************************************************************************)
EXTENDS Integers, Sequences, FiniteSets, FiniteSetsExt

CONSTANTS
  Ends,            \* address and port
  EmitEvery,       \* packets between two rounds (500)
  MaxFlows,        \* MAX_FLOWS
  MaxTime,         \* bound: timestamps; they need not be in order
  MaxPackets,      \* bound: packets of a capture
  MaxSendErrors    \* bound: sends that raise

\* An assumption; the module that instantiates this one makes it.
PcapAssumption ==
  /\ IsFiniteSet(Ends) /\ EmitEvery \in Nat \ {0} /\ MaxFlows \in Nat \ {0}
  /\ MaxTime \in Nat /\ MaxPackets \in Nat /\ MaxSendErrors \in Nat

Keys == [from : Ends, to : Ends]
Reverse(k) == [from |-> k.to, to |-> k.from]

\* "flow": TCP or UDP without DNS; "query" and "response": DNS that names
\* something; "other": what the ingester skips (too large, no IP, no TCP and
\* no UDP)
Packets == {"flow", "query", "response", "other"}

VARIABLES
  state,       \* "reading", "done" or "failed"
  count,       \* packet_count
  flows,       \* the open flows: a function of their keys
  sent,        \* sent[k]: what was sent of k, in order
  dns,         \* DNS events sent, as <<type, client, server>>
  errors,      \* bound: sends that raised
  seen,        \* history: seen[k], packets with that direction
  gone,        \* history: the flows that were given up
  said         \* history: said[k], packets the last words about k tell of

vars == <<state, count, flows, sent, dns, errors, seen, gone, said>>

Empty == [k \in {} |-> {}]

Init ==
  /\ state = "reading" /\ count = 0
  /\ flows = Empty
  /\ sent = [k \in Keys |-> <<>>]
  /\ dns = {} /\ errors = 0
  /\ seen = [k \in Keys |-> 0] /\ gone = {} /\ said = [k \in Keys |-> 0]

-----------------------------------------------------------------------------
(* One packet                                                              *)

\* Fault: the direction of a packet is that of its flow.
KeyOneWay(k) == k

\* The flow a packet with direction k belongs to
KeyOf(k) == IF Reverse(k) \in DOMAIN flows THEN Reverse(k) ELSE k

New(time) == [start |-> time, orig |-> 0, resp |-> 0]

Folded(k, time) ==
  LET key == KeyOf(k)
      flow == IF key \in DOMAIN flows THEN flows[key] ELSE New(time)
  IN [q \in DOMAIN flows \cup {key} |->
        IF q # key THEN flows[q] ELSE
        IF Reverse(k) \in DOMAIN flows THEN [flow EXCEPT !.resp = @ + 1]
        ELSE [flow EXCEPT !.orig = @ + 1]]

Payload(f, k, last) ==
  [orig |-> f[k].orig, resp |-> f[k].resp, last |-> last]

\* _emit_flow for the flows in ks; those in `raising' are logged, no more
Emitted(to, f, ks, raising, last) ==
  [k \in Keys |-> IF k \in ks \ raising
                  THEN Append(to[k], Payload(f, k, last)) ELSE to[k]]

\* A set of flows that holds the oldest n; the order among equals is that of
\* the dictionary.
Oldest(f, ks) == \A k \in ks, o \in DOMAIN f \ ks : f[k].start <= f[o].start

\* Fault: the cap is compared before the flow is added.
ExcessLate(f) == IF Cardinality(DOMAIN f) > MaxFlows + 1
                 THEN Cardinality(DOMAIN f) - MaxFlows ELSE 0

Excess(f) == IF Cardinality(DOMAIN f) > MaxFlows
             THEN Cardinality(DOMAIN f) - MaxFlows ELSE 0

Victims(f) == {ks \in kSubset(Excess(f), DOMAIN f) : Oldest(f, ks)}

\* Fault: an evicted flow goes without a word.
LastWordsNone(to, f, ks, raising) == to

LastWords(to, f, ks, raising) == Emitted(to, f, ks, raising, TRUE)

\* What the last word of s tells of, if it is one and new since t
Total(payload) == payload.orig + payload.resp
Told(t, s) ==
  IF Len(s) > Len(t) /\ s[Len(s)].last THEN Total(s[Len(s)]) ELSE 0

Listen == said' = [k \in Keys |-> said[k] + Told(sent[k], sent'[k])]

\* Fault: a round begins the counts anew.
AfterRoundNone(f, round) ==
  [k \in DOMAIN f |-> IF k \in round THEN New(f[k].start) ELSE f[k]]

\* "without destroying state"
AfterRound(f, round) == f

Raising(ks) == {r \in SUBSET ks : Cardinality(r) + errors <= MaxSendErrors}

\* A round over all open flows, if it is time, and the eviction after it
FoldIn(k, time) ==
  LET f == Folded(k, time)
      round == IF (count + 1) % EmitEvery = 0 THEN DOMAIN f ELSE {}
  IN \E victims \in Victims(f) :
       \E r1 \in Raising(round) : \E r2 \in Raising(victims) :
         /\ Cardinality(r1) + Cardinality(r2) + errors <= MaxSendErrors
         /\ sent' = LastWords(Emitted(sent, f, round, r1, FALSE), f, victims,
                              r2)
         /\ flows' = [key \in DOMAIN f \ victims |-> AfterRound(f, round)[key]]
         /\ errors' = errors + Cardinality(r1) + Cardinality(r2)
         /\ gone' = gone \cup victims
  /\ seen' = [seen EXCEPT ![k] = @ + 1]
  /\ Listen

\* The packet of a response goes to the client.
DnsEvent(kind, k) ==
  IF kind = "query" THEN <<"dns", k.from, k.to>>
  ELSE <<"dns_response", k.to, k.from>>

\* A DNS packet is sent as an event, unless that raises, and goes into a flow
\* as well.
Packet(kind, k, time) ==
  /\ state = "reading" /\ count < MaxPackets
  /\ count' = count + 1
  /\ dns' \in {dns} \cup {dns \cup {DnsEvent(t, k)} : t \in {kind} \ {"flow", "other"}}
  /\ IF kind = "other" THEN UNCHANGED <<flows, sent, errors, seen, gone, said>>
     ELSE FoldIn(k, time)
  /\ UNCHANGED state

\* Fault: the last round leaves the flows of one packet out.
RestLong == {k \in DOMAIN flows : flows[k].orig + flows[k].resp > 1}

Rest == DOMAIN flows

\* The final round, and the flush of the producer
Finish ==
  /\ state = "reading"
  /\ \E r \in Raising(Rest) :
       /\ sent' = Emitted(sent, flows, Rest, r, TRUE)
       /\ errors' = errors + Cardinality(r)
  /\ state' = "done"
  /\ Listen
  /\ UNCHANGED <<count, flows, dns, seen, gone>>

\* "Streaming failure": the capture is damaged, the open flows are not sent.
Abort ==
  /\ state = "reading"
  /\ state' = "failed"
  /\ UNCHANGED <<count, flows, sent, dns, errors, seen, gone, said>>

Next ==
  \/ \E kind \in Packets, k \in Keys, time \in 0..MaxTime : Packet(kind, k, time)
  \/ Finish
  \/ Abort

-----------------------------------------------------------------------------
Flow == [start : 0..MaxTime, orig : 0..MaxPackets, resp : 0..MaxPackets]
Payloads == [orig : 0..MaxPackets, resp : 0..MaxPackets, last : BOOLEAN]

TypeOK ==
  /\ state \in {"reading", "done", "failed"}
  /\ count \in 0..MaxPackets /\ errors \in 0..MaxSendErrors
  /\ DOMAIN flows \subseteq Keys /\ \A k \in DOMAIN flows : flows[k] \in Flow
  /\ sent \in [Keys -> Seq(Payloads)]
  /\ dns \subseteq {"dns", "dns_response"} \X Ends \X Ends
  /\ seen \in [Keys -> 0..MaxPackets] /\ gone \subseteq Keys
  /\ said \in [Keys -> Nat]

\* The table of flows keeps to its limit, and a conversation has one entry.
OneEntryEach ==
  /\ Cardinality(DOMAIN flows) <= MaxFlows
  /\ \A k \in DOMAIN flows : k.from # k.to => Reverse(k) \notin DOMAIN flows

\* What the last words about the flows of a conversation add up to is what
\* was captured of it, once the ingester is done and when no send raised;
\* what rounds have said on the way must not be added.
CaptureAccounted ==
  (state = "done" /\ errors = 0) =>
    \A k \in Keys :
      IF k = Reverse(k) THEN said[k] = seen[k]
      ELSE said[k] + said[Reverse(k)] = seen[k] + seen[Reverse(k)]

\* Counts of one flow never go back from one of its payloads to the next, as
\* long as no last word is lost.
CountsGrow ==
  \A k \in Keys : \A n \in DOMAIN sent[k] :
    (n > 1 /\ ~sent[k][n - 1].last /\ errors = 0) =>
      /\ sent[k][n].orig >= sent[k][n - 1].orig
      /\ sent[k][n].resp >= sent[k][n - 1].resp

\* Who began a conversation stays its originator, unless its flow was given
\* up in between: then an answer begins a flow of its own, the wrong way.
DirectionKept ==
  \A k \in Keys :
    (k.from # k.to /\ {k, Reverse(k)} \cap gone = {}) =>
      ~(sent[k] # <<>> /\ sent[Reverse(k)] # <<>>)
=============================================================================
