--------------------------- MODULE InferenceProofs ----------------------------
(***************************************************************************)
(* Proofs about Detect: the semaphores keep their count, the queue holds   *)
(* no work item that nobody waits for, and so the inference in progress    *)
(* stays bounded whatever times out.  And about ModelStore: whatever the   *)
(* trainers do to the files and wherever they stop, an engine uses only    *)
(* what was published, and what they leave undisturbed fits.  And about    *)
(* Windows: for names of any number of labels, of any length, the texts of *)
(* a name share the batch and leave unseen no more than they may.          *)
(***************************************************************************)
EXTENDS Inference, FunctionTheorems, FiniteSetTheorems, SequenceTheorems,
        WellFoundedInduction, TLAPS

-----------------------------------------------------------------------------
(* Counting *)

\* A count stays within n if a set gains at most x, and that with room left.
LEMMA SlotStep ==
  ASSUME NEW F, IsFiniteSet(F), NEW G, NEW x, NEW n \in Nat,
         G \ {x} \subseteq F, Cardinality(F) <= n,
         x \in G => x \in F \/ Cardinality(F) < n
  PROVE  Cardinality(G) <= n
<1>1. Cardinality(F) \in Nat
  BY FS_CardinalityType
<1>2. CASE G \subseteq F
  BY <1>1, <1>2, FS_Subset, FS_CardinalityType
<1>3. CASE ~(G \subseteq F)
  <2>1. x \in G /\ x \notin F /\ Cardinality(F) < n
    BY <1>3
  <2>2. /\ IsFiniteSet(F \cup {x})
        /\ Cardinality(F \cup {x}) = Cardinality(F) + 1
    BY <2>1, FS_AddElement
  <2>3. G \in SUBSET (F \cup {x})
    OBVIOUS
  <2>4. IsFiniteSet(G) /\ Cardinality(G) <= Cardinality(F \cup {x})
    BY <2>2, <2>3, FS_Subset
  <2>5. Cardinality(G) \in Nat
    BY <2>4, FS_CardinalityType
  <2> QED BY <2>1, <2>2, <2>4, <2>5, <1>1
<1> QED BY <1>2, <1>3

\* A set that a function covers from a finite set is no larger than that set.
LEMMA CoveredCardinality ==
  ASSUME NEW S, IsFiniteSet(S), NEW T, NEW f,
         \A t \in T : \E s \in S : f[s] = t
  PROVE  IsFiniteSet(T) /\ Cardinality(T) <= Cardinality(S)
<1> DEFINE U == {s \in S : f[s] \in T}
           g == [s \in U |-> f[s]]
<1>1. IsFiniteSet(U) /\ Cardinality(U) <= Cardinality(S)
  BY FS_Subset
<1>2. g \in Surjection(U, T)
  BY DEF Surjection
<1>3. IsFiniteSet(T) /\ Cardinality(T) <= Cardinality(U)
  <2> HIDE DEF U, g
  <2> QED BY <1>1, <1>2, FS_Surjection
<1>4. /\ Cardinality(T) \in Nat /\ Cardinality(U) \in Nat
      /\ Cardinality(S) \in Nat
  BY <1>1, <1>3, FS_CardinalityType
<1> QED BY <1>1, <1>3, <1>4

-----------------------------------------------------------------------------
(* Types *)

\* Every variable of the agent has its type.
LEMMA TypeStep == TypeOK /\ [Next]_vars => TypeOK'
<1> SUFFICES ASSUME TypeOK, [Next]_vars PROVE TypeOK'
  OBVIOUS
<1> USE DEF TypeOK, Labels, Jobs, Outcomes, Detectors
<1>1. ASSUME NEW c \in Coroutines, Proceed(c) PROVE TypeOK'
  <2>1. CASE Skip(c)
    BY <2>1 DEF Skip, MayEnter, Goto
  <2>2. CASE Enter(c)
    <3>1. FirstSteps(event[c]) \subseteq Labels
      BY DEF FirstSteps
    <3> QED BY <2>2, <3>1 DEF Enter, MayEnter, Goto
  <2>3. CASE AwaitTurn(c)
    BY <2>3 DEF AwaitTurn, Goto
  <2>4. CASE Submit(c)
    BY <2>4 DEF Submit, Goto
  <2>5. CASE CnnVerdict(c)
    BY <2>5 DEF CnnVerdict, Goto
  <2>6. CASE FlowVerdict(c)
    BY <2>6 DEF FlowVerdict, Goto
  <2>7. CASE TimedOut(c)
    BY <2>7 DEF TimedOut, AfterInference, Goto
  <2>8. CASE DomainAge(c)
    BY <2>8 DEF DomainAge, Goto
  <2>9. CASE DomainAgeUnbound(c)
    BY <2>9 DEF DomainAgeUnbound, Goto
  <2>10. CASE Rest(c)
    BY <2>10 DEF Rest, Goto
  <2> QED BY <1>1, <2>1, <2>2, <2>3, <2>4, <2>5, <2>6, <2>7, <2>8, <2>9, <2>10
          DEF Proceed
<1>2. ASSUME NEW c \in Coroutines, NEW e \in Events, Take(c, e) PROVE TypeOK'
  BY <1>2 DEF Take, Goto
<1>3. CASE PickUp
  <2>1. Head(queue) \in Events /\ Tail(queue) \in Seq(Events)
    BY <1>3 DEF PickUp
  <2> QED BY <1>3, <2>1 DEF PickUp
<1>4. ASSUME NEW e \in Events, End(e) PROVE TypeOK'
  BY <1>4 DEF End
<1>5. CASE UNCHANGED vars
  BY <1>5 DEF vars
<1> QED BY <1>1, <1>2, <1>3, <1>4, <1>5 DEF Next, Finished

-----------------------------------------------------------------------------
(* The queue *)

\* A step that moves nobody away from "inferring" and queues nothing leaves
\* every queued work item awaited.
LEMMA QueueKept ==
  ASSUME TypeOK, QueuedIsAwaited, NEW c \in Coroutines,
         \A d \in Coroutines \ {c} : pc'[d] = pc[d] /\ event'[d] = event[d],
         \A e \in Events : job'[e] = "queued" =>
           job[e] = "queued" /\ (pc[c] = "inferring" => e # event[c])
  PROVE  QueuedIsAwaited'
<1> SUFFICES ASSUME NEW e \in Events, job'[e] = "queued"
             PROVE  \E d \in Coroutines : pc'[d] = "inferring" /\ event'[d] = e
  BY DEF QueuedIsAwaited, In, At
<1>1. job[e] = "queued"
  OBVIOUS
<1>2. PICK d \in Coroutines : pc[d] = "inferring" /\ event[d] = e
  BY <1>1 DEF QueuedIsAwaited, In, At
<1>3. d # c
  BY <1>2
<1> QED BY <1>2, <1>3

\* No step leaves a work item in the queue whose coroutine has gone on.
LEMMA QueueStep ==
  TypeOK /\ QueuedIsAwaited /\ [Next]_vars => QueuedIsAwaited'
<1> SUFFICES ASSUME TypeOK, QueuedIsAwaited, [Next]_vars PROVE QueuedIsAwaited'
  OBVIOUS
<1>1. ASSUME NEW c \in Coroutines, Proceed(c) PROVE QueuedIsAwaited'
  <2>1. CASE Submit(c)
    <3> SUFFICES ASSUME NEW e \in Events, job'[e] = "queued"
                 PROVE  \E d \in Coroutines : pc'[d] = "inferring" /\ event'[d] = e
      BY DEF QueuedIsAwaited, In, At
    <3>1. CASE e = event[c]
      BY <2>1, <3>1 DEF Submit, Goto, TypeOK
    <3>2. CASE e # event[c]
      <4>1. job[e] = "queued"
        BY <2>1, <3>2 DEF Submit, TypeOK
      <4>2. PICK d \in Coroutines : pc[d] = "inferring" /\ event[d] = e
        BY <4>1 DEF QueuedIsAwaited, In, At
      <4> QED BY <2>1, <4>2 DEF Submit, Goto, TypeOK
    <3> QED BY <3>1, <3>2
  <2>2. CASE CnnVerdict(c) \/ FlowVerdict(c)
    <3>1. /\ \A d \in Coroutines \ {c} : pc'[d] = pc[d] /\ event'[d] = event[d]
          /\ job' = job /\ job[event[c]] = "ended"
      BY <2>2 DEF CnnVerdict, FlowVerdict, Goto, TypeOK
    <3> QED BY <3>1, QueueKept
  <2>3. CASE TimedOut(c)
    <3>1. /\ \A d \in Coroutines \ {c} : pc'[d] = pc[d] /\ event'[d] = event[d]
          /\ \A e \in Events \ {event[c]} : job'[e] = job[e]
          /\ job'[event[c]] # "queued"
      BY <2>3 DEF TimedOut, Goto, TypeOK
    <3> QED BY <3>1, QueueKept
  <2>4. CASE \/ Skip(c) \/ Enter(c) \/ AwaitTurn(c)
             \/ DomainAge(c) \/ DomainAgeUnbound(c) \/ Rest(c)
    <3>1. /\ \A d \in Coroutines \ {c} : pc'[d] = pc[d] /\ event'[d] = event[d]
          /\ job' = job /\ pc[c] # "inferring"
      BY <2>4 DEF Skip, Enter, MayEnter, AwaitTurn, DomainAge,
                  DomainAgeUnbound, Rest, Goto, TypeOK
    <3> QED BY <3>1, QueueKept
  <2> QED BY <1>1, <2>1, <2>2, <2>3, <2>4 DEF Proceed
<1>2. ASSUME NEW c \in Coroutines, NEW e \in Events, Take(c, e)
      PROVE QueuedIsAwaited'
  <2>1. /\ \A d \in Coroutines \ {c} : pc'[d] = pc[d] /\ event'[d] = event[d]
        /\ job' = job /\ pc[c] # "inferring"
    BY <1>2 DEF Take, Goto, TypeOK
  <2> QED BY <2>1, QueueKept
<1>3. CASE PickUp \/ \E e \in Events : End(e)
  <2>1. /\ pc' = pc /\ event' = event
        /\ \A e \in Events : job'[e] = "queued" => job[e] = "queued"
    BY <1>3 DEF PickUp, End, TypeOK
  <2> QED BY <2>1 DEF QueuedIsAwaited, In, At
<1>4. CASE UNCHANGED vars
  BY <1>4 DEF vars, QueuedIsAwaited, In, At
<1> QED BY <1>1, <1>2, <1>3, <1>4 DEF Next, Finished


-----------------------------------------------------------------------------
(* The semaphores *)

\* A semaphore keeps its count if the one coroutine that moves was inside, or
\* does not enter, or found room.
LEMMA AtStep ==
  ASSUME NEW c \in Coroutines, NEW labels, NEW n \in Nat,
         \A d \in Coroutines \ {c} : pc'[d] = pc[d],
         Cardinality(At(labels)) <= n,
         pc'[c] \in labels => pc[c] \in labels \/ Room(labels, n)
  PROVE  Cardinality(At(labels)') <= n
<1> DEFINE F == At(labels)
           G == At(labels)'
<1>1. IsFiniteSet(F)
  BY EventAssumption, FS_Subset DEF At
<1>2. G \ {c} \subseteq F /\ (c \in G => c \in F \/ Cardinality(F) < n)
  BY DEF At, Room
<1> HIDE DEF F, G
<1>3. Cardinality(F) <= n
  BY DEF F
<1>4. Cardinality(G) <= n
  BY <1>1, <1>2, <1>3, SlotStep
<1> QED BY <1>4 DEF G

\* The same of the thread pool.
LEMMA InStep ==
  ASSUME NEW e \in Events, SlotsRespected,
         \A d \in Events \ {e} : job'[d] = "running" => job[d] = "running",
         job'[e] = "running" =>
           job[e] = "running" \/ Cardinality(In({"running"})) < CpuThreads
  PROVE  Cardinality(In({"running"})') <= CpuThreads
<1> DEFINE F == In({"running"})
           G == In({"running"})'
<1>1. IsFiniteSet(F)
  BY EventAssumption, FS_Subset DEF In
<1>2. G \ {e} \subseteq F /\ (e \in G => e \in F \/ Cardinality(F) < CpuThreads)
  BY DEF In
<1>3. Cardinality(F) <= CpuThreads
  BY DEF SlotsRespected
<1> HIDE DEF F, G
<1>4. Cardinality(G) <= CpuThreads
  BY <1>1, <1>2, <1>3, SlotStep, PoolAssumption
<1> QED BY <1>4 DEF G

\* A step of one coroutine that does not pass a full semaphore, and starts no
\* thread, keeps the slots.
LEMMA CoroutineSlots ==
  ASSUME SlotsRespected, NEW c \in Coroutines,
         \A d \in Coroutines \ {c} : pc'[d] = pc[d],
         \A e \in Events : job'[e] = "running" => job[e] = "running",
         pc'[c] \in Admitted => pc[c] \in Admitted \/ Room(Admitted, Backpressure),
         pc'[c] \in Gated => pc[c] \in Gated \/ Room(Gated, PendingSlots),
         pc'[c] = "inferring" =>
           pc[c] = "inferring" \/ Room({"inferring"}, InferSlots)
  PROVE  SlotsRespected'
<1>1. Cardinality(At(Admitted)') <= Backpressure
  BY AtStep, PoolAssumption DEF SlotsRespected
<1>2. Cardinality(At(Gated)') <= PendingSlots
  BY AtStep, PoolAssumption DEF SlotsRespected
<1>3. Cardinality(At({"inferring"})') <= InferSlots
  BY AtStep, PoolAssumption DEF SlotsRespected
<1>4. Cardinality(In({"running"})') <= CpuThreads
  <2>1. PICK e \in Events : TRUE
    BY EventAssumption
  <2> QED BY <2>1, InStep
<1> QED BY <1>1, <1>2, <1>3, <1>4 DEF SlotsRespected

\* Semaphores and thread pool keep their count in every step.
LEMMA SlotsStep ==
  TypeOK /\ SlotsRespected /\ [Next]_vars => SlotsRespected'
<1> SUFFICES ASSUME TypeOK, SlotsRespected, [Next]_vars PROVE SlotsRespected'
  OBVIOUS
<1>1. ASSUME NEW c \in Coroutines, Proceed(c) PROVE SlotsRespected'
  <2>1. \A d \in Coroutines \ {c} : pc'[d] = pc[d]
    BY <1>1 DEF Proceed, Skip, Enter, MayEnter, AwaitTurn, Submit, CnnVerdict,
       FlowVerdict, TimedOut, DomainAge, DomainAgeUnbound, Rest, Goto, TypeOK
  <2>2. \A e \in Events : job'[e] = "running" => job[e] = "running"
    BY <1>1 DEF Proceed, Skip, Enter, MayEnter, AwaitTurn, Submit, CnnVerdict,
       FlowVerdict, TimedOut, DomainAge, DomainAgeUnbound, Rest, TypeOK
  <2>3. pc'[c] \in Admitted => pc[c] \in Admitted \/ Room(Admitted, Backpressure)
    BY <1>1 DEF Proceed, Skip, Enter, MayEnter, AwaitTurn, Submit, CnnVerdict,
       FlowVerdict, TimedOut, DomainAge, DomainAgeUnbound, Rest, Goto, TypeOK,
       Admitted, Labels
  <2>4. pc'[c] \in Gated => pc[c] \in Gated \/ Room(Gated, PendingSlots)
    BY <1>1 DEF Proceed, Skip, Enter, MayEnter, FirstSteps, AwaitTurn, Submit,
       CnnVerdict, FlowVerdict, TimedOut, AfterInference, DomainAge,
       DomainAgeUnbound, Rest, Goto, TypeOK, Gated
  <2>5. pc'[c] = "inferring" =>
          pc[c] = "inferring" \/ Room({"inferring"}, InferSlots)
    BY <1>1 DEF Proceed, Skip, Enter, MayEnter, FirstSteps, AwaitTurn, Submit,
       CnnVerdict, FlowVerdict, TimedOut, AfterInference, DomainAge,
       DomainAgeUnbound, Rest, Goto, TypeOK
  <2> QED BY <2>1, <2>2, <2>3, <2>4, <2>5, CoroutineSlots
<1>2. ASSUME NEW c \in Coroutines, NEW e \in Events, Take(c, e)
      PROVE SlotsRespected'
  <2>1. /\ \A d \in Coroutines \ {c} : pc'[d] = pc[d]
        /\ job' = job /\ pc'[c] = "arrived"
    BY <1>2 DEF Take, Goto, TypeOK
  <2> QED BY <2>1, CoroutineSlots DEF Admitted, Gated
<1>3. CASE PickUp
  <2>1. /\ Head(queue) \in Events /\ pc' = pc
        /\ Cardinality(In({"running"})) < CpuThreads
        /\ \A e \in Events \ {Head(queue)} : job'[e] = job[e]
    BY <1>3 DEF PickUp, TypeOK
  <2>2. Cardinality(In({"running"})') <= CpuThreads
    BY <2>1, InStep
  <2> QED BY <2>1, <2>2 DEF SlotsRespected, At
<1>4. ASSUME NEW e \in Events, End(e) PROVE SlotsRespected'
  <2>1. /\ pc' = pc
        /\ \A d \in Events \ {e} : job'[d] = job[d]
        /\ job'[e] = "ended"
    BY <1>4 DEF End, TypeOK
  <2>2. Cardinality(In({"running"})') <= CpuThreads
    BY <2>1, InStep
  <2> QED BY <2>1, <2>2 DEF SlotsRespected, At
<1>5. CASE UNCHANGED vars
  BY <1>5 DEF vars, SlotsRespected, At, In
<1> QED BY <1>1, <1>2, <1>3, <1>4, <1>5 DEF Next, Finished

-----------------------------------------------------------------------------
(* The theorems *)

LEMMA InitInv == Init => DetectInv
<1> SUFFICES ASSUME Init PROVE DetectInv
  OBVIOUS
<1>1. TypeOK
  BY EventAssumption DEF Init, TypeOK, Labels, Jobs, Outcomes, Detectors
<1>2. QueuedIsAwaited
  BY DEF Init, QueuedIsAwaited, In
<1>3. At(Admitted) = {} /\ At(Gated) = {} /\ At({"inferring"}) = {}
      /\ In({"running"}) = {}
  BY DEF Init, At, In, Admitted, Gated
<1>4. SlotsRespected
  BY <1>3, FS_EmptySet, PoolAssumption DEF SlotsRespected
<1> QED BY <1>1, <1>2, <1>4 DEF DetectInv

\* Types, the queue without abandoned work, and the count of the semaphores,
\* in every behaviour of the agent (process_traffic).
THEOREM DetectInvariant == Spec => []DetectInv
<1>1. DetectInv /\ [Next]_vars => DetectInv'
  BY TypeStep, QueueStep, SlotsStep DEF DetectInv
<1> QED BY <1>1, InitInv, PTL DEF Spec

\* However many calls time out, what is awaited or running is bounded by the
\* threads and the slots of _infer_sem.
THEOREM LiveWorkBoundedCorrect == Spec => []LiveWorkBounded
<1>1. DetectInv => LiveWorkBounded
  <2> SUFFICES ASSUME DetectInv PROVE LiveWorkBounded
    OBVIOUS
  <2> DEFINE Q == In({"queued"})
             R == In({"running"})
             V == At({"inferring"})
  <2>1. IsFiniteSet(V) /\ IsFiniteSet(R)
    BY EventAssumption, FS_Subset DEF At, In
  <2>2. IsFiniteSet(Q) /\ Cardinality(Q) <= Cardinality(V)
    <3>1. \A e \in Q : \E c \in V : event[c] = e
      BY DEF DetectInv, QueuedIsAwaited
    <3> HIDE DEF Q, V
    <3> QED BY <2>1, <3>1, CoveredCardinality
  <2>3. Cardinality(V) <= InferSlots /\ Cardinality(R) <= CpuThreads
    BY DEF DetectInv, SlotsRespected
  <2>4. Cardinality(Q \cup R) <= Cardinality(Q) + Cardinality(R)
    <3> HIDE DEF Q, R
    <3>1. Cardinality(Q \cup R) =
            Cardinality(Q) + Cardinality(R) - Cardinality(Q \cap R)
      BY <2>1, <2>2, FS_Union
    <3>2. IsFiniteSet(Q \cap R)
      BY <2>1, FS_Intersection
    <3> QED BY <3>1, <3>2, <2>1, <2>2, FS_CardinalityType
  <2>5. In({"queued", "running"}) = Q \cup R
    BY DEF In
  <2>6. Cardinality(Q \cup R) <= CpuThreads + InferSlots
    <3> HIDE DEF Q, R, V
    <3>1. /\ Cardinality(Q) \in Nat /\ Cardinality(R) \in Nat
          /\ Cardinality(V) \in Nat /\ Cardinality(Q \cup R) \in Nat
      BY <2>1, <2>2, FS_CardinalityType, FS_Union
    <3> QED BY <3>1, <2>2, <2>3, <2>4, PoolAssumption
  <2> QED BY <2>5, <2>6 DEF LiveWorkBounded
<1> QED BY <1>1, DetectInvariant, PTL

-----------------------------------------------------------------------------
(* The files of the models: the inductive invariant *)

FileNames == {"model", "hash", "threshold", "temp", "temphash"}
Training == [pc : {"idle", "saving", "saved", "signing", "trained", "deployed", "opening",
                   "fitting"},
             gen : M!Whole, hash : M!Whole \cup {M!Empty}, alone : BOOLEAN]
Loading == [pc : {"down", "hash", "bytes", "loaded", "up"}, hash : M!Whole \cup {M!Empty},
            bytes : M!Whole \cup {M!Torn, M!Empty}, threshold : M!Whole, raced : BOOLEAN]

StoreTyped ==
  /\ M!TypeOK /\ disk \in [FileNames -> Int]
  /\ writer \in [M!Writers -> Training] /\ reader \in [M!Readers -> Loading]

\* The agent's own files are whole and signed before they are renamed.
AgentSound ==
  LET a == writer["agent"] IN
  /\ a.pc \notin {"opening", "fitting"} /\ (a.pc # "idle" => artifact = "cnn")
  /\ a.pc = "saving" => disk["temp"] = M!Torn
  /\ a.pc \in {"saved", "signing", "trained"} => disk["temp"] \in M!Whole
  /\ a.pc = "signing" => a.hash = disk["temp"]
  /\ a.pc = "trained" => disk["temphash"] = disk["temp"]
  /\ a.pc = "deployed" => disk["temphash"] \in M!Whole
  /\ a.pc = "deployed" /\ a.alone => /\ disk["model"] = disk["temphash"]
                                     /\ writer["script"].pc = "idle"

\* The script's are where they are read; nobody else's matter while it is alone.
ScriptSound ==
  LET s == writer["script"] IN
  /\ s.pc \notin {"trained", "deployed"}
  /\ s.pc \in {"opening", "fitting"} => artifact = "flow"
  /\ s.pc \in {"saved", "signing", "opening", "fitting"} => disk["model"] \in M!Whole
  /\ s.pc = "signing" => s.hash \in M!Whole
  /\ disk["model"] = M!Torn => s.pc = "saving" \/ broken
  /\ s.pc # "idle" /\ s.alone =>
       /\ writer["agent"].pc # "deployed"
       /\ s.pc \in {"saved", "signing", "opening", "fitting"} => disk["model"] = s.gen
       /\ s.pc = "signing" => s.hash = s.gen
       /\ s.pc \in {"opening", "fitting"} => disk["hash"] = s.gen
       /\ s.pc = "saving" => disk["model"] = M!Torn

HashesPublished ==
  /\ disk["hash"] \in M!Whole => disk["hash"] \in published
  /\ \A r \in M!Readers :
       /\ reader[r].hash \in M!Whole => reader[r].hash \in published
       /\ reader[r].pc \in {"loaded", "up"} => /\ reader[r].bytes = reader[r].hash
                                               /\ reader[r].bytes \in M!Whole

\* Who reads undisturbed reads files at rest.
ReadersSound ==
  \A r \in M!Readers : M!Reading(r) /\ ~reader[r].raced =>
    /\ ~broken /\ \A w \in M!Writers : ~M!Publishing(w)
    /\ reader[r].pc \in {"bytes", "loaded"} => reader[r].bytes = disk["model"]

StoreInv ==
  /\ StoreTyped /\ AgentSound /\ ScriptSound /\ HashesPublished /\ ReadersSound
  /\ M!ConsistentAtRest /\ M!ThresholdFits

-----------------------------------------------------------------------------
(* Contents of the files *)

LEMMA ContentFacts ==
  /\ MaxTrained \in Nat /\ MaxDeaths \in Nat /\ M!Whole = 0 .. MaxTrained
  /\ M!Shipped = 0 /\ M!Shipped \in M!Whole /\ M!Whole \subseteq Nat
  /\ M!Torn \notin M!Whole /\ M!Empty \notin M!Whole /\ M!Torn # M!Empty
BY InferenceAssumption DEF M!StoreAssumption, M!Whole, M!Shipped, M!Torn, M!Empty

LEMMA FileWritten ==
  ASSUME NEW d \in [FileNames -> Int], NEW f \in FileNames, NEW x \in Int
  PROVE  /\ [d EXCEPT ![f] = x] \in [FileNames -> Int] /\ [d EXCEPT ![f] = x][f] = x
         /\ \A g \in FileNames \ {f} : [d EXCEPT ![f] = x][g] = d[g]
OBVIOUS

LEMMA StoreStart == M!Init => StoreInv
<1> SUFFICES ASSUME M!Init PROVE StoreInv
  OBVIOUS
<1>1. /\ artifact \in {"cnn", "flow"} /\ trained = M!Shipped /\ deaths = 0
      /\ disk = [f \in FileNames |-> IF f \in {"temp", "temphash"} THEN M!Empty ELSE M!Shipped]
      /\ writer = [w \in M!Writers |-> M!Idle] /\ reader = [r \in M!Readers |-> M!Down]
      /\ published = {M!Shipped} /\ ~broken /\ broken \in BOOLEAN
  BY DEF M!Init, FileNames
<1>2. M!Idle \in Training /\ M!Idle.pc = "idle"
  BY ContentFacts DEF M!Idle, Training
<1>3. M!Down \in Loading /\ M!Down.pc = "down" /\ M!Down.hash = M!Empty
  BY ContentFacts DEF M!Down, Loading
<1>4. /\ disk["model"] = M!Shipped /\ disk["hash"] = M!Shipped /\ disk["threshold"] = M!Shipped
      /\ disk["temp"] = M!Empty /\ disk["temphash"] = M!Empty /\ disk \in [FileNames -> Int]
  BY <1>1 DEF FileNames, M!Empty, M!Shipped
<1>5. /\ writer["agent"].pc = "idle" /\ writer["script"].pc = "idle"
      /\ \A r \in M!Readers : reader[r].pc = "down" /\ reader[r].hash = M!Empty
  BY <1>1, <1>2, <1>3 DEF M!Writers
<1>6. StoreTyped
  BY <1>1, <1>2, <1>3, <1>4, ContentFacts DEF StoreTyped, M!TypeOK
<1>7. AgentSound /\ ScriptSound
  BY <1>4, <1>5, ContentFacts DEF AgentSound, ScriptSound
<1>8. HashesPublished /\ ReadersSound
  BY <1>1, <1>4, <1>5, ContentFacts DEF HashesPublished, ReadersSound, M!Reading
<1>9. M!ConsistentAtRest /\ M!ThresholdFits
  BY <1>4, <1>5, ContentFacts DEF M!ConsistentAtRest, M!ThresholdFits, M!Readers
<1>. QED BY <1>6, <1>7, <1>8, <1>9 DEF StoreInv

-----------------------------------------------------------------------------
(* Trainers *)

LEMMA WriterFacts ==
  ASSUME StoreInv
  PROVE  /\ writer["agent"] \in Training /\ writer["script"] \in Training
         /\ writer \in [M!Writers -> Training]
         /\ M!Writers = {"agent", "script"} /\ disk \in [FileNames -> Int]
         /\ M!Publishing("agent") <=> writer["agent"].pc = "deployed"
         /\ M!Publishing("script") <=> writer["script"].pc # "idle"
         /\ M!Other("agent") = "script" /\ M!Other("script") = "agent"
BY DEF StoreInv, StoreTyped, M!Writers, M!Publishing, M!At, M!Other

\* What the agent does to its own files nobody who reads can see.
LEMMA PrivateStep ==
  ASSUME StoreInv, writer' \in [M!Writers -> Training], disk' \in [FileNames -> Int],
         writer'["script"] = writer["script"], writer["agent"].pc # "deployed",
         writer'["agent"].pc # "deployed",
         UNCHANGED <<artifact, reader, published, broken>>,
         \A f \in {"model", "hash", "threshold"} : disk'[f] = disk[f],
         disk'["temp"] \in M!Whole \cup {M!Torn, M!Empty},
         disk'["temphash"] \in M!Whole \cup {M!Empty},
         trained' \in M!Whole, deaths' \in 0 .. MaxDeaths, AgentSound'
  PROVE  StoreInv'
<1>1. \A w \in M!Writers : M!Publishing(w)' <=> M!Publishing(w)
  BY DEF M!Writers, M!Publishing, M!At
<1>2. StoreTyped'
  BY DEF StoreInv, StoreTyped, M!TypeOK
<1>3. ScriptSound'
  BY DEF StoreInv, ScriptSound
<1>4. HashesPublished'
  BY DEF StoreInv, HashesPublished
<1>5. ReadersSound'
  BY <1>1 DEF StoreInv, ReadersSound, M!Reading
<1>6. M!ConsistentAtRest' /\ M!ThresholdFits'
  BY <1>1 DEF StoreInv, M!ConsistentAtRest, M!ThresholdFits
<1>. QED BY <1>2, <1>3, <1>4, <1>5, <1>6 DEF StoreInv

\* Saving, reading back and signing, of the agent
LEMMA AgentSaves ==
  ASSUME StoreInv,
         M!Save("agent") \/ M!FinishSave("agent") \/ M!ReadBack("agent") \/ M!Sign("agent")
  PROVE  StoreInv'
<1> DEFINE a == writer["agent"]
<1>1. /\ a \in Training /\ AgentSound /\ writer \in [M!Writers -> Training]
      /\ M!Writers = {"agent", "script"} /\ disk \in [FileNames -> Int]
      /\ disk["temp"] \in M!Whole \cup {M!Torn, M!Empty}
      /\ disk["temphash"] \in M!Whole \cup {M!Empty} /\ M!TypeOK
  BY WriterFacts DEF StoreInv, StoreTyped, M!TypeOK
<1>2. CASE M!Save("agent")
  <2>1. /\ trained < MaxTrained /\ trained' = trained + 1 /\ artifact = "cnn"
        /\ a.pc \in {"idle", "trained"}
        /\ disk' = [disk EXCEPT !["temp"] = M!Torn]
        /\ writer' = [writer EXCEPT !["agent"] =
                        [a EXCEPT !.pc = "saving", !.gen = trained + 1]]
        /\ UNCHANGED <<artifact, reader, deaths, published, broken>>
    BY <1>2 DEF M!Save, M!At, M!SavePath
  <2>2. trained + 1 \in M!Whole
    BY <1>1, <2>1, ContentFacts DEF M!TypeOK
  <2>3. /\ writer' \in [M!Writers -> Training] /\ writer'["script"] = writer["script"]
        /\ writer'["agent"].pc = "saving"
    BY <1>1, <2>1, <2>2 DEF Training
  <2>4. disk'["temp"] = M!Torn /\ disk' \in [FileNames -> Int]
        /\ \A f \in {"model", "hash", "threshold", "temphash"} : disk'[f] = disk[f]
    BY <1>1, <2>1 DEF FileNames, M!Torn
  <2>5. AgentSound'
    BY <1>1, <2>1, <2>3, <2>4 DEF AgentSound
  <2>. QED BY <1>1, <2>1, <2>2, <2>3, <2>4, <2>5, PrivateStep DEF M!TypeOK
<1>3. CASE M!FinishSave("agent")
  <2>1. /\ a.pc = "saving" /\ disk["temp"] = M!Torn
        /\ disk' = [disk EXCEPT !["temp"] = a.gen]
        /\ writer' = [writer EXCEPT !["agent"] = [a EXCEPT !.pc = "saved"]]
        /\ UNCHANGED <<artifact, trained, reader, deaths, published, broken>>
    BY <1>1, <1>3 DEF M!FinishSave, M!Saved, M!At, M!SavePath, AgentSound
  <2>2. /\ writer' \in [M!Writers -> Training] /\ writer'["script"] = writer["script"]
        /\ writer'["agent"].pc = "saved" /\ a.gen \in M!Whole
    BY <1>1, <2>1 DEF Training
  <2>3. disk'["temp"] = a.gen /\ disk' \in [FileNames -> Int]
        /\ \A f \in {"model", "hash", "threshold", "temphash"} : disk'[f] = disk[f]
    BY <1>1, <2>1, <2>2, ContentFacts DEF FileNames
  <2>4. AgentSound'
    BY <1>1, <2>1, <2>2, <2>3 DEF AgentSound
  <2>. QED BY <1>1, <2>1, <2>2, <2>3, <2>4, PrivateStep DEF M!TypeOK
<1>4. CASE M!ReadBack("agent")
  <2>1. /\ a.pc = "saved" /\ disk["temp"] \in M!Whole
        /\ disk' = [disk EXCEPT !["temphash"] = M!Empty]
        /\ writer' = [writer EXCEPT !["agent"] =
                        [a EXCEPT !.pc = "signing", !.hash = disk["temp"]]]
        /\ UNCHANGED <<artifact, trained, reader, deaths, published, broken>>
    BY <1>1, <1>4 DEF M!ReadBack, M!At, M!SavePath, M!HashPath, AgentSound
  <2>2. /\ writer' \in [M!Writers -> Training] /\ writer'["script"] = writer["script"]
        /\ writer'["agent"].pc = "signing" /\ writer'["agent"].hash = disk["temp"]
    BY <1>1, <2>1 DEF Training
  <2>3. disk'["temphash"] = M!Empty /\ disk' \in [FileNames -> Int]
        /\ \A f \in {"model", "hash", "threshold", "temp"} : disk'[f] = disk[f]
    BY <1>1, <2>1, ContentFacts DEF FileNames, M!Empty
  <2>4. AgentSound'
    BY <1>1, <2>1, <2>2, <2>3 DEF AgentSound
  <2>. QED BY <1>1, <2>1, <2>2, <2>3, <2>4, PrivateStep DEF M!TypeOK
<1>5. CASE M!Sign("agent")
  <2>1. /\ a.pc = "signing" /\ disk["temp"] \in M!Whole /\ a.hash = disk["temp"]
        /\ disk' = [disk EXCEPT !["temphash"] = a.hash]
        /\ writer' = [writer EXCEPT !["agent"] = [a EXCEPT !.pc = "trained"]]
        /\ UNCHANGED <<artifact, trained, reader, deaths, published, broken>>
    BY <1>1, <1>5 DEF M!Sign, M!AfterHash, M!At, M!HashPath, AgentSound
  <2>2. /\ writer' \in [M!Writers -> Training] /\ writer'["script"] = writer["script"]
        /\ writer'["agent"].pc = "trained"
    BY <1>1, <2>1 DEF Training
  <2>3. disk'["temphash"] = disk["temp"] /\ disk' \in [FileNames -> Int]
        /\ \A f \in {"model", "hash", "threshold", "temp"} : disk'[f] = disk[f]
    BY <1>1, <2>1, ContentFacts DEF FileNames
  <2>4. AgentSound'
    BY <1>1, <2>1, <2>2, <2>3 DEF AgentSound
  <2>. QED BY <1>1, <2>1, <2>2, <2>3, <2>4, PrivateStep DEF M!TypeOK
<1>. QED BY <1>2, <1>3, <1>4, <1>5


-----------------------------------------------------------------------------
(* Publishing *)

\* Who begins to publish disturbs those who read, and the other publisher.
LEMMA EnteringFacts ==
  ASSUME StoreInv, NEW w \in M!Writers, NEW new \in Training, M!Entering(w, new)
  PROVE  /\ writer' \in [M!Writers -> Training] /\ reader' \in [M!Readers -> Loading]
         /\ writer'[w].pc = new.pc /\ writer'[w].gen = new.gen /\ writer'[w].hash = new.hash
         /\ writer'[w].alone <=> ~M!Publishing(M!Other(w))
         /\ LET o == M!Other(w) IN
            /\ writer'[o].pc = writer[o].pc /\ writer'[o].gen = writer[o].gen
            /\ writer'[o].hash = writer[o].hash /\ ~writer'[o].alone
         /\ \A r \in M!Readers :
              /\ reader'[r].pc = reader[r].pc /\ reader'[r].hash = reader[r].hash
              /\ reader'[r].bytes = reader[r].bytes
              /\ reader'[r].threshold = reader[r].threshold
              /\ reader'[r].raced <=> (reader[r].raced \/ M!Reading(r))
<1> DEFINE o == M!Other(w)
           mine == [new EXCEPT !.alone = ~M!Publishing(o)]
           theirs == [writer[o] EXCEPT !.alone = FALSE]
<1>1. /\ w \in {"agent", "script"} /\ o \in {"agent", "script"} /\ o # w
      /\ M!Publishing(o) \in BOOLEAN
  BY DEF M!Writers, M!Other, M!Publishing, M!At
<1>2. /\ writer \in [M!Writers -> Training] /\ writer[o] \in Training
      /\ reader \in [M!Readers -> Loading]
  BY <1>1 DEF StoreInv, StoreTyped, M!Writers
<1>3. writer' = [writer EXCEPT ![w] = mine, ![o] = theirs]
  BY <1>1 DEF M!Entering
<1>4. /\ mine \in Training /\ mine.pc = new.pc /\ mine.gen = new.gen /\ mine.hash = new.hash
      /\ mine.alone <=> ~M!Publishing(o)
  BY <1>1 DEF Training
<1>5. /\ theirs \in Training /\ theirs.pc = writer[o].pc /\ theirs.gen = writer[o].gen
      /\ theirs.hash = writer[o].hash /\ ~theirs.alone
  BY <1>2 DEF Training
<1> HIDE DEF mine, theirs
<1>6. writer' \in [M!Writers -> Training] /\ writer'[w] = mine /\ writer'[o] = theirs
  BY <1>1, <1>2, <1>3, <1>4, <1>5 DEF M!Writers
<1>7. reader' = [r \in M!Readers |-> [reader[r] EXCEPT !.raced = reader[r].raced \/ M!Reading(r)]]
  BY DEF M!Entering
<1>8. ASSUME NEW r \in M!Readers
      PROVE  /\ reader'[r] \in Loading
             /\ reader'[r].pc = reader[r].pc /\ reader'[r].hash = reader[r].hash
             /\ reader'[r].bytes = reader[r].bytes
             /\ reader'[r].threshold = reader[r].threshold
             /\ reader'[r].raced <=> (reader[r].raced \/ M!Reading(r))
  <2>1. reader[r] \in Loading /\ M!Reading(r) \in BOOLEAN
    BY <1>2 DEF M!Reading
  <2>2. reader'[r] = [reader[r] EXCEPT !.raced = reader[r].raced \/ M!Reading(r)]
    BY <1>7
  <2>. QED BY <2>1, <2>2 DEF Loading
<1>9. reader' \in [M!Readers -> Loading]
  BY <1>7, <1>8
<1>. QED BY <1>4, <1>5, <1>6, <1>8, <1>9

\* After it, nobody reads undisturbed.
LEMMA EnteredReaders ==
  ASSUME StoreInv, NEW w \in M!Writers, NEW new \in Training, M!Entering(w, new),
         UNCHANGED <<artifact, published>>,
         disk'["hash"] = disk["hash"]
  PROVE  HashesPublished' /\ ReadersSound' /\ M!ThresholdFits'
<1>1. \A r \in M!Readers :
        /\ reader'[r].pc = reader[r].pc /\ reader'[r].hash = reader[r].hash
        /\ reader'[r].bytes = reader[r].bytes
        /\ reader'[r].threshold = reader[r].threshold
        /\ reader'[r].raced <=> (reader[r].raced \/ M!Reading(r))
  BY EnteringFacts
<1>2. HashesPublished'
  BY <1>1 DEF StoreInv, HashesPublished
<1>3. ReadersSound'
  BY <1>1 DEF ReadersSound, M!Reading
<1>4. M!ThresholdFits'
  BY <1>1 DEF StoreInv, M!ThresholdFits, M!Readers
<1>. QED BY <1>2, <1>3, <1>4

\* While somebody publishes, nobody reads undisturbed, and nothing is claimed
\* of the files.
LEMMA PublishingReaders ==
  ASSUME StoreInv, NEW w \in M!Writers, M!Publishing(w), UNCHANGED <<artifact, reader>>,
         published \subseteq published',
         disk'["hash"] \in M!Whole => disk'["hash"] \in published'
  PROVE  HashesPublished' /\ ReadersSound' /\ M!ThresholdFits'
<1>1. \A r \in M!Readers : ~(M!Reading(r) /\ ~reader[r].raced)
  BY DEF StoreInv, ReadersSound
<1>2. HashesPublished'
  BY DEF StoreInv, HashesPublished
<1>3. ReadersSound'
  BY <1>1 DEF ReadersSound, M!Reading
<1>4. M!ThresholdFits'
  BY DEF StoreInv, M!ThresholdFits
<1>. QED BY <1>2, <1>3, <1>4

LEMMA ScriptSaves ==
  ASSUME StoreInv, M!Save("script")
  PROVE  StoreInv'
<1> DEFINE s == writer["script"]
           new == [s EXCEPT !.pc = "saving", !.gen = trained + 1]
<1>1. /\ trained < MaxTrained /\ trained' = trained + 1 /\ s.pc = "idle"
      /\ disk' = [disk EXCEPT !["model"] = M!Torn]
      /\ UNCHANGED <<artifact, deaths, published, broken>>
      /\ M!Entering("script", new)
  BY DEF M!Save, M!At, M!SavePath
<1>2. trained + 1 \in M!Whole
  BY <1>1, ContentFacts DEF StoreInv, StoreTyped, M!TypeOK
<1>3. new \in Training /\ new.pc = "saving" /\ new.gen = trained + 1
  BY <1>2, WriterFacts DEF Training
<1> HIDE DEF new
<1>4. /\ writer' \in [M!Writers -> Training] /\ reader' \in [M!Readers -> Loading]
      /\ writer'["script"].pc = "saving"
      /\ writer'["script"].alone <=> ~M!Publishing("agent")
      /\ writer'["agent"].pc = writer["agent"].pc /\ ~writer'["agent"].alone
      /\ writer'["agent"].hash = writer["agent"].hash
  BY <1>1, <1>3, EnteringFacts, WriterFacts
<1>5. disk' \in [FileNames -> Int] /\ disk'["model"] = M!Torn
      /\ \A f \in {"hash", "threshold", "temp", "temphash"} : disk'[f] = disk[f]
  BY <1>1, WriterFacts DEF FileNames, M!Torn
<1>6. StoreTyped'
  BY <1>1, <1>2, <1>4, <1>5 DEF StoreInv, StoreTyped, M!TypeOK
<1>7. AgentSound'
  BY <1>1, <1>4, <1>5 DEF StoreInv, AgentSound
<1>8. ScriptSound'
  BY <1>1, <1>4, <1>5, WriterFacts DEF StoreInv, ScriptSound
<1>9. HashesPublished' /\ ReadersSound' /\ M!ThresholdFits'
  BY <1>1, <1>3, <1>5, EnteredReaders, WriterFacts
<1>10. M!ConsistentAtRest'
  <2>1. M!Publishing("script")'
    BY <1>4 DEF M!Publishing, M!At
  <2>. QED BY <2>1, WriterFacts DEF M!ConsistentAtRest
<1>. QED BY <1>6, <1>7, <1>8, <1>9, <1>10 DEF StoreInv

LEMMA DeployStep ==
  ASSUME StoreInv, M!Deploy
  PROVE  StoreInv'
<1> DEFINE a == writer["agent"]
           new == [a EXCEPT !.pc = "deployed"]
<1>1. /\ a.pc = "trained" /\ M!Entering("agent", new)
      /\ disk' = [disk EXCEPT !["model"] = disk["temp"], !["temp"] = M!Empty]
      /\ UNCHANGED <<artifact, trained, deaths, published, broken>>
  BY DEF M!Deploy, M!At
<1>2. /\ disk["temp"] \in M!Whole /\ disk["temphash"] = disk["temp"] /\ artifact = "cnn"
      /\ M!Whole \subseteq Nat
  BY <1>1, ContentFacts DEF StoreInv, AgentSound
<1>3. new \in Training /\ new.pc = "deployed"
  BY WriterFacts DEF Training
<1> HIDE DEF new
<1>4. /\ writer' \in [M!Writers -> Training] /\ reader' \in [M!Readers -> Loading]
      /\ writer'["agent"].pc = "deployed"
      /\ writer'["agent"].alone <=> ~M!Publishing("script")
      /\ writer'["script"].pc = writer["script"].pc /\ ~writer'["script"].alone
      /\ writer'["script"].hash = writer["script"].hash
  BY <1>1, <1>3, EnteringFacts, WriterFacts
<1>5. /\ disk' \in [FileNames -> Int] /\ disk'["model"] = disk["temp"]
      /\ disk'["temp"] = M!Empty
      /\ \A f \in {"hash", "threshold", "temphash"} : disk'[f] = disk[f]
  BY <1>1, <1>2, WriterFacts DEF FileNames, M!Empty
<1>6. StoreTyped'
  BY <1>1, <1>2, <1>4, <1>5 DEF StoreInv, StoreTyped, M!TypeOK
<1>7. AgentSound'
  BY <1>1, <1>2, <1>4, <1>5, WriterFacts DEF StoreInv, AgentSound
<1>8. ScriptSound'
  BY <1>1, <1>2, <1>4, <1>5, ContentFacts DEF StoreInv, ScriptSound
<1>9. HashesPublished' /\ ReadersSound' /\ M!ThresholdFits'
  BY <1>1, <1>3, <1>5, EnteredReaders, WriterFacts
<1>10. M!ConsistentAtRest'
  <2>1. M!Publishing("agent")'
    BY <1>4 DEF M!Publishing, M!At
  <2>. QED BY <2>1, WriterFacts DEF M!ConsistentAtRest
<1>. QED BY <1>6, <1>7, <1>8, <1>9, <1>10 DEF StoreInv

LEMMA ReplaceHashStep ==
  ASSUME StoreInv, M!ReplaceHash
  PROVE  StoreInv'
<1> DEFINE a == writer["agent"]
<1>1. /\ a.pc = "deployed" /\ writer' = [writer EXCEPT !["agent"] = M!Idle]
      /\ disk' = [disk EXCEPT !["hash"] = disk["temphash"], !["temphash"] = M!Empty]
      /\ published' = published \cup {disk["temphash"]} /\ broken' = ~a.alone
      /\ UNCHANGED <<artifact, trained, reader, deaths>>
  BY DEF M!ReplaceHash, M!Replaced, M!At
<1>2. /\ disk["temphash"] \in M!Whole /\ artifact = "cnn" /\ M!Whole \subseteq Nat
      /\ a.alone => /\ disk["model"] = disk["temphash"] /\ writer["script"].pc = "idle"
      /\ a.alone \in BOOLEAN
  BY <1>1, ContentFacts, WriterFacts DEF StoreInv, AgentSound, Training
<1>3. M!Idle \in Training /\ M!Idle.pc = "idle"
  BY ContentFacts DEF M!Idle, Training
<1>4. /\ writer' \in [M!Writers -> Training] /\ writer'["agent"].pc = "idle"
      /\ writer'["script"] = writer["script"]
  BY <1>1, <1>3, WriterFacts
<1>5. /\ disk' \in [FileNames -> Int] /\ disk'["hash"] = disk["temphash"]
      /\ disk'["temphash"] = M!Empty
      /\ \A f \in {"model", "threshold", "temp"} : disk'[f] = disk[f]
  BY <1>1, <1>2, WriterFacts DEF FileNames, M!Empty
<1>6. StoreTyped'
  BY <1>1, <1>2, <1>4, <1>5 DEF StoreInv, StoreTyped, M!TypeOK
<1>7. AgentSound'
  BY <1>4 DEF AgentSound
<1>8. ScriptSound'
  BY <1>1, <1>2, <1>4, <1>5, ContentFacts DEF StoreInv, ScriptSound
<1>9. HashesPublished' /\ ReadersSound' /\ M!ThresholdFits'
  <2>1. "agent" \in M!Writers /\ M!Publishing("agent")
    BY <1>1, WriterFacts
  <2>2. published \subseteq published' /\ disk'["hash"] \in published'
    BY <1>1, <1>5
  <2>. QED BY <1>1, <2>1, <2>2, PublishingReaders
<1>10. M!ConsistentAtRest'
  BY <1>1, <1>2, <1>5 DEF M!ConsistentAtRest
<1>. QED BY <1>6, <1>7, <1>8, <1>9, <1>10 DEF StoreInv


\* A step of a script that has begun leaves the agent and its files alone.
LEMMA ScriptStep ==
  ASSUME StoreInv, writer["script"].pc # "idle",
         writer' \in [M!Writers -> Training], writer'["agent"] = writer["agent"],
         disk' \in [FileNames -> Int],
         \A f \in {"temp", "temphash"} : disk'[f] = disk[f],
         disk'["model"] \in M!Whole \cup {M!Torn},
         disk'["hash"] \in M!Whole \cup {M!Empty},
         disk'["threshold"] \in M!Whole \cup {M!Empty},
         UNCHANGED <<artifact, trained, reader>>, deaths' \in 0 .. MaxDeaths,
         published \subseteq published', published' \subseteq M!Whole, broken' \in BOOLEAN,
         disk'["hash"] \in M!Whole => disk'["hash"] \in published',
         disk'["model"] = disk["model"] \/ ~(writer["agent"].pc = "deployed" /\ writer["agent"].alone),
         ScriptSound', M!ConsistentAtRest'
  PROVE  StoreInv'
<1>1. "script" \in M!Writers /\ M!Publishing("script")
  BY WriterFacts
<1>2. HashesPublished' /\ ReadersSound' /\ M!ThresholdFits'
  BY <1>1, PublishingReaders
<1>3. StoreTyped'
  BY DEF StoreInv, StoreTyped, M!TypeOK
<1>4. AgentSound'
  BY DEF StoreInv, AgentSound
<1>. QED BY <1>2, <1>3, <1>4 DEF StoreInv

LEMMA ScriptSigns ==
  ASSUME StoreInv,
         \/ M!FinishSave("script") \/ M!ReadBack("script") \/ M!Sign("script")
         \/ M!OpenThreshold \/ M!WriteThreshold \/ M!LeaveUnsigned
  PROVE  StoreInv'
<1> DEFINE s == writer["script"]
<1>1. /\ s \in Training /\ ScriptSound /\ AgentSound /\ writer \in [M!Writers -> Training]
      /\ M!Writers = {"agent", "script"} /\ disk \in [FileNames -> Int] /\ M!TypeOK
      /\ M!Whole \subseteq Nat /\ M!Torn \notin M!Whole /\ M!Empty \notin M!Whole
      /\ M!Torn # M!Empty /\ M!Empty \in Int /\ deaths \in 0 .. MaxDeaths
      /\ s.gen \in M!Whole
      /\ M!Idle \in Training /\ M!Idle.pc = "idle"
  BY WriterFacts, ContentFacts
     DEF StoreInv, StoreTyped, M!TypeOK, M!Empty, M!Idle, Training
<1>2. /\ disk["model"] \in M!Whole \cup {M!Torn} /\ disk["hash"] \in M!Whole \cup {M!Empty}
      /\ disk["threshold"] \in M!Whole \cup {M!Empty} /\ published \subseteq M!Whole
      /\ disk["hash"] \in M!Whole => disk["hash"] \in published
      /\ broken \in BOOLEAN /\ artifact \in {"cnn", "flow"}
  BY <1>1 DEF M!TypeOK, StoreInv, HashesPublished
<1>3. ASSUME writer'["script"].pc # "idle" PROVE M!ConsistentAtRest'
  <2>1. M!Publishing("script")'
    BY <1>3 DEF M!Publishing, M!At
  <2>. QED BY <1>1, <2>1 DEF M!ConsistentAtRest
<1>4. CASE M!FinishSave("script")
  <2>1. /\ s.pc = "saving"
        /\ disk' = [disk EXCEPT !["model"] = IF disk["model"] = M!Torn THEN s.gen ELSE disk["model"]]
        /\ writer' = [writer EXCEPT !["script"] = [s EXCEPT !.pc = "saved"]]
        /\ UNCHANGED <<artifact, trained, reader, deaths, published, broken>>
    BY <1>4 DEF M!FinishSave, M!Saved, M!At, M!SavePath
  <2>2. /\ writer' \in [M!Writers -> Training] /\ writer'["agent"] = writer["agent"]
        /\ writer'["script"].pc = "saved" /\ writer'["script"].gen = s.gen
        /\ writer'["script"].alone <=> s.alone
    BY <1>1, <2>1 DEF Training
  <2>3. /\ disk'["model"] = IF disk["model"] = M!Torn THEN s.gen ELSE disk["model"]
        /\ disk' \in [FileNames -> Int]
        /\ \A f \in {"hash", "threshold", "temp", "temphash"} : disk'[f] = disk[f]
    BY <1>1, <2>1 DEF FileNames
  <2>4. ScriptSound'
    BY <1>1, <1>2, <2>1, <2>2, <2>3 DEF ScriptSound
  <2>5. disk'["model"] \in M!Whole
    BY <1>1, <1>2, <2>3
  <2>6. disk["model"] = M!Torn => ~(writer["agent"].pc = "deployed" /\ writer["agent"].alone)
    BY <1>1, <2>1 DEF AgentSound
  <2>. QED BY <1>1, <1>2, <1>3, <2>1, <2>2, <2>3, <2>4, <2>5, <2>6, ScriptStep
<1>5. CASE M!ReadBack("script")
  <2>1. /\ s.pc = "saved" /\ disk["model"] \in M!Whole
        /\ disk' = [disk EXCEPT !["hash"] = M!Empty]
        /\ writer' = [writer EXCEPT !["script"] =
                        [s EXCEPT !.pc = "signing", !.hash = disk["model"]]]
        /\ UNCHANGED <<artifact, trained, reader, deaths, published, broken>>
    BY <1>1, <1>5 DEF M!ReadBack, M!At, M!SavePath, M!HashPath, ScriptSound
  <2>2. /\ writer' \in [M!Writers -> Training] /\ writer'["agent"] = writer["agent"]
        /\ writer'["script"].pc = "signing" /\ writer'["script"].gen = s.gen
        /\ writer'["script"].hash = disk["model"] /\ (writer'["script"].alone <=> s.alone)
    BY <1>1, <2>1 DEF Training
  <2>3. /\ disk'["hash"] = M!Empty /\ disk' \in [FileNames -> Int]
        /\ \A f \in {"model", "threshold", "temp", "temphash"} : disk'[f] = disk[f]
    BY <1>1, <2>1 DEF FileNames
  <2>4. ScriptSound'
    BY <1>1, <1>2, <2>1, <2>2, <2>3 DEF ScriptSound
  <2>. QED BY <1>1, <1>2, <1>3, <2>1, <2>2, <2>3, <2>4, ScriptStep
<1>6. CASE M!Sign("script")
  <2>1. /\ s.pc = "signing" /\ s.hash \in M!Whole /\ disk["model"] \in M!Whole
        /\ disk' = [disk EXCEPT !["hash"] = s.hash]
        /\ published' = published \cup {s.hash}
        /\ UNCHANGED <<artifact, trained, reader, deaths>>
    BY <1>1, <1>6 DEF M!Sign, M!At, M!HashPath, ScriptSound
  <2>2. /\ disk'["hash"] = s.hash /\ disk' \in [FileNames -> Int]
        /\ \A f \in {"model", "threshold", "temp", "temphash"} : disk'[f] = disk[f]
    <3>1. s.hash \in M!Whole /\ M!Whole \subseteq Nat
      BY <1>1, <2>1
    <3>2. s.hash \in Int
      BY <3>1, ContentFacts
    <3>3. disk \in [FileNames -> Int] /\ "hash" \in FileNames
      BY <1>1 DEF FileNames
    <3> HIDE DEF s
    <3>. QED BY <2>1, <3>2, <3>3, FileWritten DEF FileNames
  <2>5. /\ published \subseteq published' /\ published' \subseteq M!Whole
        /\ disk'["hash"] \in M!Whole /\ disk'["hash"] \in published'
    BY <1>2, <2>1, <2>2
  <2>6. /\ disk'["model"] = disk["model"] /\ disk'["threshold"] = disk["threshold"]
        /\ disk'["temp"] = disk["temp"] /\ disk'["temphash"] = disk["temphash"]
    BY <2>2
  <2>7. deaths' \in 0 .. MaxDeaths /\ s.pc # "idle"
    BY <1>1, <2>1
  <2>3. CASE artifact = "flow"
    <3>1. /\ writer' = [writer EXCEPT !["script"] = [s EXCEPT !.pc = "opening"]]
          /\ broken' = broken
      BY <1>6, <2>3 DEF M!Sign, M!AfterHash
    <3>2. /\ writer' \in [M!Writers -> Training] /\ writer'["agent"] = writer["agent"]
          /\ writer'["script"].pc = "opening" /\ writer'["script"].gen = s.gen
          /\ writer'["script"].alone <=> s.alone
      BY <1>1, <3>1 DEF Training
    <3>3. ScriptSound'
      BY <1>1, <1>2, <2>1, <2>2, <2>3, <3>1, <3>2 DEF ScriptSound
    <3>. QED BY <1>1, <1>2, <1>3, <2>1, <2>2, <3>1, <3>2, <3>3, ScriptStep
  <2>4. CASE artifact # "flow"
    <3>1. writer' = [writer EXCEPT !["script"] = M!Idle] /\ broken' = ~s.alone
      BY <1>6, <2>4 DEF M!Sign, M!AfterHash
    <3>2. /\ writer' \in [M!Writers -> Training] /\ writer'["agent"] = writer["agent"]
          /\ writer'["script"].pc = "idle" /\ broken' \in BOOLEAN
      BY <1>1, <3>1
    <3>3. ScriptSound'
      BY <1>1, <2>1, <2>2, <3>2 DEF ScriptSound
    <3>4. M!ConsistentAtRest'
      BY <1>1, <2>1, <2>2, <2>4, <3>1 DEF M!ConsistentAtRest, ScriptSound
    <3>. QED BY <1>2, <2>1, <2>2, <2>5, <2>6, <2>7, <3>2, <3>3, <3>4, ScriptStep
  <2>. QED BY <2>3, <2>4
<1>7. CASE M!OpenThreshold
  <2>1. /\ s.pc = "opening" /\ disk' = [disk EXCEPT !["threshold"] = M!Empty]
        /\ writer' = [writer EXCEPT !["script"] = [s EXCEPT !.pc = "fitting"]]
        /\ UNCHANGED <<artifact, trained, reader, deaths, published, broken>>
    BY <1>7 DEF M!OpenThreshold, M!At
  <2>2. /\ writer' \in [M!Writers -> Training] /\ writer'["agent"] = writer["agent"]
        /\ writer'["script"].pc = "fitting" /\ writer'["script"].gen = s.gen
        /\ writer'["script"].alone <=> s.alone
    BY <1>1, <2>1 DEF Training
  <2>3. /\ disk'["threshold"] = M!Empty /\ disk' \in [FileNames -> Int]
        /\ \A f \in {"model", "hash", "temp", "temphash"} : disk'[f] = disk[f]
    BY <1>1, <2>1 DEF FileNames
  <2>4. ScriptSound'
    BY <1>1, <1>2, <2>1, <2>2, <2>3 DEF ScriptSound
  <2>. QED BY <1>1, <1>2, <1>3, <2>1, <2>2, <2>3, <2>4, ScriptStep
<1>8. CASE M!WriteThreshold
  <2>1. /\ s.pc = "fitting" /\ disk' = [disk EXCEPT !["threshold"] = s.gen]
        /\ writer' = [writer EXCEPT !["script"] = M!Idle] /\ broken' = ~s.alone
        /\ UNCHANGED <<artifact, trained, reader, deaths, published>>
    BY <1>8 DEF M!WriteThreshold, M!At
  <2>2. /\ writer' \in [M!Writers -> Training] /\ writer'["agent"] = writer["agent"]
        /\ writer'["script"].pc = "idle" /\ broken' \in BOOLEAN
    BY <1>1, <2>1
  <2>3. /\ disk'["threshold"] = s.gen /\ disk' \in [FileNames -> Int]
        /\ \A f \in {"model", "hash", "temp", "temphash"} : disk'[f] = disk[f]
    <3>1. s.gen \in M!Whole /\ M!Whole \subseteq Nat
      BY <1>1
    <3>2. s.gen \in Int
      BY <3>1, ContentFacts
    <3>3. disk \in [FileNames -> Int] /\ "threshold" \in FileNames
      BY <1>1 DEF FileNames
    <3> HIDE DEF s
    <3>. QED BY <2>1, <3>2, <3>3, FileWritten DEF FileNames
  <2>4. ScriptSound'
    BY <1>1, <2>1, <2>2, <2>3 DEF ScriptSound
  <2>5. M!ConsistentAtRest'
    BY <1>1, <2>1, <2>3 DEF M!ConsistentAtRest, ScriptSound
  <2>. QED BY <1>1, <1>2, <2>1, <2>2, <2>3, <2>4, <2>5, ScriptStep
<1>9. CASE M!LeaveUnsigned
  <2>1. /\ s.pc = "saved" /\ disk' = disk /\ broken' = TRUE
        /\ writer' = [writer EXCEPT !["script"] = M!Idle]
        /\ UNCHANGED <<artifact, trained, reader, deaths, published>>
    BY <1>9 DEF M!LeaveUnsigned, M!At
  <2>2. /\ writer' \in [M!Writers -> Training] /\ writer'["agent"] = writer["agent"]
        /\ writer'["script"].pc = "idle"
    BY <1>1, <2>1
  <2>3. ScriptSound'
    BY <2>1, <2>2 DEF ScriptSound
  <2>4. M!ConsistentAtRest'
    BY <2>1 DEF M!ConsistentAtRest
  <2>. QED BY <1>1, <1>2, <2>1, <2>2, <2>3, <2>4, ScriptStep
<1>. QED BY <1>4, <1>5, <1>6, <1>7, <1>8, <1>9

\* Whoever stops half-way of a publication breaks it; before, nobody sees it.
LEMMA TrainerDies ==
  ASSUME StoreInv, NEW w \in M!Writers, M!Die(w)
  PROVE  StoreInv'
<1>1. /\ writer[w].pc # "idle" /\ deaths < MaxDeaths /\ deaths' = deaths + 1
      /\ writer' = [writer EXCEPT ![w] = M!Idle]
      /\ broken' = (broken \/ M!Publishing(w))
      /\ UNCHANGED <<artifact, disk, trained, reader, published>>
  BY DEF M!Die, M!At
<1>2. /\ writer \in [M!Writers -> Training] /\ M!Writers = {"agent", "script"}
      /\ M!Idle \in Training /\ M!Idle.pc = "idle" /\ deaths' \in 0 .. MaxDeaths
      /\ broken \in BOOLEAN /\ M!Publishing(w) \in BOOLEAN /\ M!TypeOK
      /\ disk \in [FileNames -> Int] /\ disk' = disk
  <2>1. M!Idle \in Training /\ M!Idle.pc = "idle"
    BY ContentFacts DEF M!Idle, Training
  <2>2. M!TypeOK
    BY DEF StoreInv, StoreTyped
  <2>3. broken \in BOOLEAN /\ deaths \in Nat /\ MaxDeaths \in Nat
    BY <2>2, ContentFacts DEF M!TypeOK
  <2>4. deaths' \in 0 .. MaxDeaths
    BY <1>1, <2>3
  <2>5. M!Publishing(w) \in BOOLEAN
    BY DEF M!Publishing, M!At
  <2>. QED BY <1>1, <2>1, <2>2, <2>3, <2>4, <2>5, WriterFacts
<1>3. writer' \in [M!Writers -> Training] /\ broken' \in BOOLEAN /\ writer'[w].pc = "idle"
  BY <1>1, <1>2
<1>4. CASE w = "script"
  <2>1. M!Publishing("script") /\ broken' /\ writer'["agent"] = writer["agent"]
    BY <1>1, <1>2, <1>4, WriterFacts
  <2>2. ScriptSound'
    BY <1>3, <1>4, <2>1 DEF ScriptSound
  <2>3. M!ConsistentAtRest'
    BY <2>1 DEF M!ConsistentAtRest
  <2>4. disk["hash"] \in M!Whole => disk["hash"] \in published
    BY DEF StoreInv, HashesPublished
  <2>. QED BY <1>1, <1>2, <1>3, <1>4, <2>1, <2>2, <2>3, <2>4, ScriptStep DEF M!TypeOK
<1>5. CASE w = "agent" /\ writer["agent"].pc = "deployed"
  <2>1. M!Publishing("agent") /\ broken' /\ writer'["script"] = writer["script"]
    BY <1>1, <1>2, <1>5, WriterFacts
  <2>2. AgentSound'
    BY <1>3, <1>5 DEF AgentSound
  <2>3. ScriptSound'
    BY <1>1, <1>3, <1>5, <2>1 DEF StoreInv, ScriptSound
  <2>4. HashesPublished' /\ ReadersSound' /\ M!ThresholdFits'
    <3>1. disk'["hash"] \in M!Whole => disk'["hash"] \in published'
      BY <1>1 DEF StoreInv, HashesPublished
    <3>. QED BY <1>1, <1>5, <2>1, <3>1, PublishingReaders
  <2>5. M!ConsistentAtRest'
    BY <2>1 DEF M!ConsistentAtRest
  <2>6. StoreTyped'
    BY <1>1, <1>2, <1>3 DEF StoreInv, StoreTyped, M!TypeOK
  <2>. QED BY <2>2, <2>3, <2>4, <2>5, <2>6 DEF StoreInv
<1>6. CASE w = "agent" /\ writer["agent"].pc # "deployed"
  <2>1. /\ ~M!Publishing("agent") /\ broken' = broken /\ writer'["script"] = writer["script"]
        /\ writer'["agent"].pc = "idle"
    BY <1>1, <1>2, <1>3, <1>6, WriterFacts
  <2>2. AgentSound'
    BY <2>1 DEF AgentSound
  <2>. QED BY <1>1, <1>2, <1>3, <1>6, <2>1, <2>2, PrivateStep DEF M!TypeOK
<1>. QED BY <1>2, <1>4, <1>5, <1>6

-----------------------------------------------------------------------------
(* Those who read *)

\* The files stay as they are; what is judged was read before.
LEMMA ReaderStep ==
  ASSUME StoreInv, NEW r \in M!Readers, NEW new \in Loading, M!Become(r, new),
         new.hash \in M!Whole => new.hash \in published,
         new.pc \in {"loaded", "up"} => new.bytes = new.hash /\ new.bytes \in M!Whole,
         new.pc \in {"hash", "bytes", "loaded"} /\ ~new.raced =>
           /\ ~broken /\ \A w \in M!Writers : ~M!Publishing(w)
           /\ new.pc \in {"bytes", "loaded"} => new.bytes = disk["model"],
         r = "engine" /\ artifact = "flow" /\ new.pc = "up" /\ ~new.raced =>
           new.threshold = new.bytes
  PROVE  StoreInv'
<1>1. /\ reader' = [reader EXCEPT ![r] = new]
      /\ UNCHANGED <<artifact, disk, trained, writer, deaths, published, broken>>
  BY DEF M!Become
<1>2. /\ reader' \in [M!Readers -> Loading] /\ reader'[r] = new
      /\ \A q \in M!Readers : q # r => reader'[q] = reader[q]
  BY <1>1 DEF StoreInv, StoreTyped
<1>3. \A w \in M!Writers : M!Publishing(w)' <=> M!Publishing(w)
  BY <1>1 DEF M!Publishing, M!At
<1>4. StoreTyped' /\ AgentSound' /\ ScriptSound'
  BY <1>1, <1>2 DEF StoreInv, StoreTyped, M!TypeOK, AgentSound, ScriptSound
<1>5. HashesPublished'
  BY <1>1, <1>2 DEF StoreInv, HashesPublished
<1>6. ReadersSound'
  BY <1>1, <1>2, <1>3 DEF StoreInv, ReadersSound, M!Reading
<1>7. M!ConsistentAtRest'
  BY <1>1, <1>3 DEF StoreInv, M!ConsistentAtRest
<1>8. M!ThresholdFits'
  BY <1>1, <1>2 DEF StoreInv, M!ThresholdFits, M!Readers
<1>. QED BY <1>4, <1>5, <1>6, <1>7, <1>8 DEF StoreInv

LEMMA GoesDown ==
  ASSUME StoreInv, NEW r \in M!Readers, M!Become(r, M!Down)
  PROVE  StoreInv'
<1>1. PICK new : new = M!Down
  OBVIOUS
<1>2. new \in Loading /\ new.pc = "down" /\ new.hash = M!Empty
  BY <1>1, ContentFacts DEF M!Down, Loading
<1>3. M!Become(r, new)
  BY <1>1
<1>. QED BY <1>2, <1>3, ContentFacts, ReaderStep

LEMMA ReadHashStep ==
  ASSUME StoreInv, NEW r \in M!Readers, M!ReadHash(r)
  PROVE  StoreInv'
<1> DEFINE busy == broken \/ \E w \in M!Writers : M!Publishing(w)
<1>1. PICK new : new = [M!Down EXCEPT !.pc = "hash", !.hash = disk["hash"], !.raced = busy]
  OBVIOUS
<1>2. M!Become(r, new)
  BY <1>1 DEF M!ReadHash
<1>3. /\ disk["hash"] \in M!Whole \cup {M!Empty} /\ busy \in BOOLEAN
      /\ disk["hash"] \in M!Whole => disk["hash"] \in published
  BY DEF StoreInv, StoreTyped, M!TypeOK, HashesPublished
<1>4. /\ new \in Loading /\ new.pc = "hash" /\ new.hash = disk["hash"]
      /\ new.raced <=> busy
  BY <1>1, <1>3, ContentFacts DEF M!Down, Loading
<1>. QED BY <1>2, <1>3, <1>4, ReaderStep

LEMMA ReadBytesStep ==
  ASSUME StoreInv, NEW r \in M!Readers, M!ReadBytes(r)
  PROVE  StoreInv'
<1>1. PICK new : new = [reader[r] EXCEPT !.pc = "bytes", !.bytes = disk["model"]]
  OBVIOUS
<1>2. M!Become(r, new) /\ reader[r].pc = "hash"
  BY <1>1 DEF M!ReadBytes
<1>3. /\ reader[r] \in Loading /\ disk["model"] \in M!Whole \cup {M!Torn}
      /\ reader[r].hash \in M!Whole => reader[r].hash \in published
  BY DEF StoreInv, StoreTyped, M!TypeOK, HashesPublished
<1>4. /\ new \in Loading /\ new.pc = "bytes" /\ new.hash = reader[r].hash
      /\ new.bytes = disk["model"] /\ new.raced = reader[r].raced
  BY <1>1, <1>3 DEF Loading
<1>5. ~reader[r].raced => ~broken /\ \A w \in M!Writers : ~M!Publishing(w)
  BY <1>2 DEF StoreInv, ReadersSound, M!Reading
<1>. QED BY <1>2, <1>3, <1>4, <1>5, ReaderStep

LEMMA JudgeStep ==
  ASSUME StoreInv, NEW r \in M!Readers, M!Judge(r)
  PROVE  StoreInv'
<1>1. CASE ~M!Accepted(r)
  BY <1>1, GoesDown DEF M!Judge
<1>2. CASE M!Accepted(r)
  <2>1. PICK new : new = [reader[r] EXCEPT !.pc = IF r = "engine" /\ artifact = "flow"
                                                  THEN "loaded" ELSE "up"]
    OBVIOUS
  <2>2. M!Become(r, new) /\ reader[r].pc = "bytes"
    BY <1>2, <2>1 DEF M!Judge
  <2>3. /\ reader[r] \in Loading
        /\ reader[r].hash \in M!Whole => reader[r].hash \in published
    BY DEF StoreInv, StoreTyped, HashesPublished
  <2>4. /\ new \in Loading /\ new.hash = reader[r].hash
        /\ new.bytes = reader[r].bytes /\ new.raced = reader[r].raced
        /\ new.pc = IF r = "engine" /\ artifact = "flow" THEN "loaded" ELSE "up"
    BY <2>1, <2>3 DEF Loading
  <2>5. new.bytes = new.hash /\ new.bytes \in M!Whole
    BY <1>2, <2>4 DEF M!Accepted
  <2>6. ~new.raced => /\ ~broken /\ \A w \in M!Writers : ~M!Publishing(w)
                      /\ new.bytes = disk["model"]
    BY <2>2, <2>4 DEF StoreInv, ReadersSound, M!Reading
  <2>7. /\ new.pc \in {"loaded", "up"}
        /\ ~(r = "engine" /\ artifact = "flow" /\ new.pc = "up")
    BY <2>4
  <2>8. new.hash \in M!Whole => new.hash \in published
    BY <2>3, <2>4
  <2>. QED BY <2>2, <2>4, <2>5, <2>6, <2>7, <2>8, ReaderStep
<1>. QED BY <1>1, <1>2

\* Files at rest agree: an engine that was not disturbed gets its threshold.
LEMMA ReadThresholdStep ==
  ASSUME StoreInv, M!ReadThreshold
  PROVE  StoreInv'
<1> DEFINE e == reader["engine"]
<1>0. "engine" \in M!Readers /\ e.pc = "loaded"
  BY DEF M!Readers, M!ReadThreshold
<1>1. CASE disk["threshold"] = M!Empty
  BY <1>0, <1>1, GoesDown DEF M!ReadThreshold
<1>2. CASE disk["threshold"] # M!Empty
  <2>1. PICK new : new = [e EXCEPT !.pc = "up", !.threshold = disk["threshold"]]
    OBVIOUS
  <2>2. M!Become("engine", new)
    BY <1>2, <2>1 DEF M!ReadThreshold
  <2>3. /\ e \in Loading /\ disk["threshold"] \in M!Whole
        /\ e.hash \in M!Whole => e.hash \in published
        /\ e.bytes = e.hash /\ e.bytes \in M!Whole
    BY <1>0, <1>2 DEF StoreInv, StoreTyped, M!TypeOK, HashesPublished
  <2>4. /\ new \in Loading /\ new.pc = "up" /\ new.hash = e.hash
        /\ new.bytes = e.bytes /\ new.raced = e.raced /\ new.threshold = disk["threshold"]
    BY <2>1, <2>3 DEF Loading
  <2>5. ~e.raced => /\ ~broken /\ \A w \in M!Writers : ~M!Publishing(w)
                    /\ e.bytes = disk["model"]
    BY <1>0 DEF StoreInv, ReadersSound, M!Reading
  <2>6. artifact = "flow" /\ ~new.raced => new.threshold = new.bytes
    BY <2>4, <2>5 DEF StoreInv, M!ConsistentAtRest
  <2>. QED BY <1>0, <2>2, <2>3, <2>4, <2>6, ReaderStep
<1>. QED BY <1>1, <1>2

-----------------------------------------------------------------------------
(* Every step *)

LEMMA StoreNext == StoreInv /\ M!Next => StoreInv'
<1> SUFFICES ASSUME StoreInv, M!Next PROVE StoreInv'
  OBVIOUS
<1>1. CASE M!Train
  <2>1. CASE \/ M!Save("agent") \/ M!FinishSave("agent") \/ M!ReadBack("agent")
             \/ M!Sign("agent")
    BY <2>1, AgentSaves
  <2>2. CASE M!Deploy \/ M!ReplaceHash
    BY <2>2, DeployStep, ReplaceHashStep
  <2>3. CASE M!Save("script")
    BY <2>3, ScriptSaves
  <2>4. CASE \/ M!FinishSave("script") \/ M!ReadBack("script") \/ M!Sign("script")
             \/ M!OpenThreshold \/ M!WriteThreshold \/ M!LeaveUnsigned
    BY <2>4, ScriptSigns
  <2>. QED
    BY <1>1, <2>1, <2>2, <2>3, <2>4
       DEF M!Train, M!TrainToMax, M!TrainCnn, M!TrainFlowAutoencoder, M!SaveTraced, M!Cycle
<1>2. CASE \E w \in M!Writers : M!Die(w)
  BY <1>2, TrainerDies
<1>3. CASE M!Start \/ M!Restart \/ M!Check
  <2>1. "engine" \in M!Readers /\ "check" \in M!Readers
    BY DEF M!Readers
  <2>2. CASE M!Restart
    BY <2>1, <2>2, GoesDown DEF M!Restart
  <2>3. CASE M!Start
    BY <2>1, <2>3, ReadHashStep, ReadBytesStep, JudgeStep, ReadThresholdStep
       DEF M!Start, M!Boot
  <2>4. CASE M!Check
    BY <2>1, <2>4, ReadHashStep, ReadBytesStep, JudgeStep DEF M!Check, M!Verify
  <2>. QED BY <1>3, <2>2, <2>3, <2>4
<1>. QED BY <1>1, <1>2, <1>3 DEF M!Next

LEMMA StoreStutter == StoreInv /\ UNCHANGED store => StoreInv'
<1> SUFFICES ASSUME StoreInv, UNCHANGED store PROVE StoreInv'
  OBVIOUS
<1>1. UNCHANGED <<artifact, disk, trained, writer, reader, deaths, published, broken>>
  BY DEF store
<1>2. StoreTyped' /\ AgentSound' /\ ScriptSound'
  BY <1>1 DEF StoreInv, StoreTyped, M!TypeOK, AgentSound, ScriptSound
<1>3. HashesPublished' /\ ReadersSound'
  BY <1>1 DEF StoreInv, HashesPublished, ReadersSound, M!Reading, M!Publishing, M!At
<1>4. M!ConsistentAtRest' /\ M!ThresholdFits'
  BY <1>1 DEF StoreInv, M!ConsistentAtRest, M!ThresholdFits, M!Publishing, M!At
<1>. QED BY <1>2, <1>3, <1>4 DEF StoreInv

\* Whoever writes the files of the models, in whatever order, and stops
\* half-way: no model is used whose hash was not put beside it, files at rest
\* agree, the continuous trainer alone never shows half a model, and the
\* threshold of an engine that loaded undisturbed is that of its model
\* (save_traced_model, deploy, ModelLoader, FlowAnomalyEngine.__init__).
THEOREM StoreIsSound == InferenceSpec => []StoreSound
<1> DEFINE Q == query \in Names \cup {W!None}
<1>1. InferenceInit => StoreInv /\ Q
  BY StoreStart DEF InferenceInit, W!Init
<1>2. StoreInv /\ Q /\ [InferenceNext]_inference => StoreInv' /\ Q'
  <2> SUFFICES ASSUME StoreInv, Q, [InferenceNext]_inference PROVE StoreInv' /\ Q'
    OBVIOUS
  <2>1. CASE Workers(Next) \/ UNCHANGED inference
    BY <2>1, StoreStutter DEF Workers, inference, store
  <2>2. CASE Files(M!Next)
    BY <2>2, StoreNext DEF Files
  <2>3. CASE W!Predict /\ UNCHANGED store
    BY <2>3, StoreStutter DEF W!Predict
  <2>. QED BY <2>1, <2>2, <2>3 DEF InferenceNext
<1>3. StoreInv /\ Q => StoreSound
  <2> SUFFICES ASSUME StoreInv, Q PROVE StoreSound
    OBVIOUS
  <2>1. FilesOK /\ M!ConsistentAtRest /\ M!ThresholdFits
    BY DEF StoreInv, StoreTyped, FilesOK
  <2>2. M!LoadedWasPublished
    BY DEF StoreInv, HashesPublished, M!LoadedWasPublished
  <2>3. M!AgentReplacesWhole
    BY DEF StoreInv, StoreTyped, M!TypeOK, ScriptSound, M!AgentReplacesWhole, M!At
  <2>. QED BY <2>1, <2>2, <2>3 DEF StoreSound
<1>. QED BY <1>1, <1>2, <1>3, PTL DEF InferenceSpec


-----------------------------------------------------------------------------
(* Induction *)

LEMMA LeastNumber ==
  ASSUME NEW T, T \subseteq Nat, T # {}
  PROVE  \E n \in T : \A m \in T : n <= m
<1> DEFINE R == OpToRel(<, Nat)
<1>1. IsWellFoundedOn(R, Nat)
  BY NatLessThanWellFounded
<1>2. \A x, y \in Nat : x < y => <<x, y>> \in R
  BY DEF OpToRel
<1> HIDE DEF R
<1>3. PICK n \in T : \A m \in T : ~(<<m, n>> \in R)
  BY <1>1, WFMin
<1>4. ASSUME NEW m \in T PROVE n <= m
  <2>1. ~(m < n)
    BY <1>2, <1>3, Zenon
  <2>. QED BY <2>1
<1>. QED BY <1>3, <1>4, Zenon

\* Induction, on the set of the numbers that have a property.
LEMMA Induction ==
  ASSUME NEW S, 0 \in S, \A n \in Nat : n \in S => n + 1 \in S
  PROVE  Nat \subseteq S
<1>1. ASSUME Nat \ S # {} PROVE FALSE
  <2>1. PICK n \in Nat \ S : \A m \in Nat \ S : n <= m
    BY <1>1, LeastNumber
  <2>2. n - 1 \in Nat /\ n - 1 \in S
    BY <2>1
  <2>. QED BY <2>1, <2>2
<1>. QED BY <1>1

\* f starts with base and goes on from its last value, by the steps given.
Runs(f, N, V, base, step) ==
  /\ f \in [0 .. N -> V] /\ f[0] = base
  /\ \A n \in 1 .. N : f[n] = step[n][f[n - 1]]

LEMMA Recursion ==
  ASSUME NEW N \in Nat, NEW V, NEW base \in V, NEW step \in [1 .. N -> [V -> V]]
  PROVE  \E f : Runs(f, N, V, base, step)
<1> DEFINE S == {k \in Nat : k <= N => \E f : Runs(f, k, V, base, step)}
<1>1. 0 \in S
  <2>1. Runs([n \in 0 .. 0 |-> base], 0, V, base, step)
    BY DEF Runs
  <2>. QED BY <2>1
<1>2. ASSUME NEW k \in Nat, NEW f, Runs(f, k, V, base, step), k + 1 <= N
      PROVE  \E g : Runs(g, k + 1, V, base, step)
  <2>1. step[k + 1][f[k]] \in V
    BY <1>2 DEF Runs
  <2> DEFINE g == [n \in 0 .. k + 1 |-> IF n = k + 1 THEN step[k + 1][f[k]] ELSE f[n]]
  <2>2. /\ g \in [0 .. k + 1 -> V] /\ g[k + 1] = step[k + 1][f[k]]
        /\ \A n \in 0 .. k : g[n] = f[n]
    BY <1>2, <2>1 DEF Runs
  <2> HIDE DEF g
  <2>3. ASSUME NEW n \in 1 .. k + 1 PROVE g[n] = step[n][g[n - 1]]
    <3>1. n - 1 \in 0 .. k /\ (n # k + 1 => n \in 1 .. k)
      BY <2>3
    <3>2. CASE n = k + 1
      BY <2>2, <3>1, <3>2
    <3>3. CASE n # k + 1
      BY <1>2, <2>2, <3>1, <3>3 DEF Runs
    <3>. QED BY <3>2, <3>3
  <2>4. Runs(g, k + 1, V, base, step)
    BY <1>2, <2>2, <2>3 DEF Runs
  <2>. QED BY <2>4
<1>3. N \in S
  <2>1. \A k \in Nat : k \in S => k + 1 \in S
    BY <1>2
  <2> HIDE DEF S
  <2>. QED BY <1>1, <2>1, Induction
<1>. QED BY <1>3

-----------------------------------------------------------------------------
(* Names *)

LEMMA OffsetFacts ==
  ASSUME NEW q \in Names
  PROVE  /\ q.labels \in Seq(Nat \ {0}) /\ Len(q.labels) \in Nat \ {0}
         /\ \A k \in 1 .. Len(q.labels) + 1 : W!Offset(q, k) \in Nat
         /\ W!Offset(q, 1) = 0
         /\ \A k \in 1 .. Len(q.labels) :
              W!Offset(q, k + 1) = W!Offset(q, k) + q.labels[k] + 1
<1> DEFINE N == Len(q.labels)
           step == [n \in 1 .. N |-> [v \in Nat |-> v + q.labels[n] + 1]]
           Eq(h) == h = [n \in 0 .. N |-> IF n = 0 THEN 0 ELSE h[n - 1] + q.labels[n] + 1]
           b == CHOOSE h : Eq(h)
<1>1. q.labels \in Seq(Nat \ {0}) /\ q.labels # <<>>
  BY InferenceAssumption DEF W!WindowsAssumption
<1>2. N \in Nat \ {0} /\ \A n \in 1 .. N : q.labels[n] \in Nat
  BY <1>1
<1>3. \A k : W!Offset(q, k) = b[k - 1]
  BY Zenon DEF W!Offset
<1> HIDE DEF N
<1>4. step \in [1 .. N -> [Nat -> Nat]]
  BY <1>2
<1>5. \A n \in 1 .. N, v \in Nat : step[n][v] = v + q.labels[n] + 1
  BY <1>2
<1> HIDE DEF step
<1>6. PICK f : Runs(f, N, Nat, 0, step)
  BY <1>2, <1>4, Recursion
<1>7. f = [n \in 0 .. N |-> IF n = 0 THEN 0 ELSE f[n - 1] + q.labels[n] + 1]
  <2>1. \A n \in 1 .. N : f[n] = f[n - 1] + q.labels[n] + 1
    <3>1. \A n \in 1 .. N : f[n - 1] \in Nat
      BY <1>2, <1>6 DEF Runs
    <3>. QED BY <1>5, <1>6, <3>1 DEF Runs
  <2>2. \A n \in 0 .. N : f[n] = IF n = 0 THEN 0 ELSE f[n - 1] + q.labels[n] + 1
    BY <1>2, <1>6, <2>1 DEF Runs
  <2>. QED BY <1>6, <2>2 DEF Runs
<1>8. Eq(b)
  <2>1. Eq(f)
    BY <1>7
  <2> HIDE DEF Eq
  <2>. QED BY <2>1
<1> HIDE DEF b
<1>9. b[0] = 0 /\ \A n \in 1 .. N : b[n] = b[n - 1] + q.labels[n] + 1
  BY <1>2, <1>8
<1>10. \A n \in 0 .. N : b[n] \in Nat
  <2> DEFINE U == {n \in Nat : n <= N => b[n] \in Nat}
  <2>1. 0 \in U
    BY <1>9
  <2>2. ASSUME NEW n \in Nat, n \in U PROVE n + 1 \in U
    <3> SUFFICES ASSUME n + 1 <= N PROVE b[n + 1] \in Nat
      OBVIOUS
    <3>1. n + 1 \in 1 .. N /\ b[n] \in Nat
      BY <1>2, <2>2
    <3>2. b[n + 1] = b[n] + q.labels[n + 1] + 1
      BY <1>9, <3>1
    <3>. QED BY <1>2, <3>1, <3>2
  <2> HIDE DEF U
  <2>3. Nat \subseteq U
    BY <2>1, <2>2, Induction
  <2>. QED BY <1>2, <2>3 DEF U
<1>11. /\ \A k \in 1 .. N + 1 : W!Offset(q, k) \in Nat
       /\ W!Offset(q, 1) = 0
       /\ \A k \in 1 .. N : W!Offset(q, k + 1) = W!Offset(q, k) + q.labels[k] + 1
  <2>1. \A k \in 1 .. N + 1 : k - 1 \in 0 .. N
    BY <1>2
  <2>2. \A k \in 1 .. N : W!Offset(q, k + 1) = b[k]
    BY <1>2, <1>3
  <2>. QED BY <1>3, <1>9, <1>10, <2>1, <2>2
<1>. QED BY <1>1, <1>2, <1>11 DEF N

LEMMA OffsetGrows ==
  ASSUME NEW q \in Names, NEW j \in 1 .. Len(q.labels) + 1,
         NEW k \in 1 .. Len(q.labels) + 1, j <= k
  PROVE  W!Offset(q, j) <= W!Offset(q, k)
<1> DEFINE N == Len(q.labels)
           U == {n \in Nat : j <= n /\ n <= N + 1 => W!Offset(q, j) <= W!Offset(q, n)}
<1>1. /\ N \in Nat \ {0} /\ \A n \in 1 .. N : q.labels[n] \in Nat
      /\ \A n \in 1 .. N + 1 : W!Offset(q, n) \in Nat
      /\ \A n \in 1 .. N : W!Offset(q, n + 1) = W!Offset(q, n) + q.labels[n] + 1
  BY OffsetFacts
<1> HIDE DEF N
<1>2. j \in 1 .. N + 1 /\ k \in 1 .. N + 1
  BY DEF N
<1>3. 0 \in U
  BY <1>2
<1>4. ASSUME NEW n \in Nat, n \in U PROVE n + 1 \in U
  <2> SUFFICES ASSUME j <= n + 1, n + 1 <= N + 1 PROVE W!Offset(q, j) <= W!Offset(q, n + 1)
    OBVIOUS
  <2>1. CASE j = n + 1
    BY <1>1, <1>2, <2>1
  <2>2. CASE j # n + 1
    <3>1. n \in 1 .. N /\ n \in 1 .. N + 1 /\ W!Offset(q, j) <= W!Offset(q, n)
      BY <1>1, <1>2, <1>4, <2>2
    <3>2. /\ W!Offset(q, n + 1) = W!Offset(q, n) + q.labels[n] + 1
          /\ W!Offset(q, n) \in Nat /\ q.labels[n] \in Nat /\ W!Offset(q, j) \in Nat
      BY <1>1, <1>2, <3>1
    <3>. QED BY <3>1, <3>2
  <2>. QED BY <2>1, <2>2
<1>5. Nat \subseteq U
  <2> HIDE DEF U
  <2>. QED BY <1>3, <1>4, Induction
<1>. QED BY <1>1, <1>2, <1>5

Texts == [text : {"ascii", "clean"}, from : Nat, len : Nat \ {0}]

LEMMA TextFields ==
  \A t \in Texts : t.from \in Nat /\ t.len \in Nat \ {0}
BY DEF Texts

LEMMA PartFacts ==
  ASSUME NEW q \in Names, NEW j \in 1 .. Len(q.labels), NEW k \in j .. Len(q.labels)
  PROVE  /\ W!Part(q, j, k) \in Texts /\ W!Part(q, j, k).text = "ascii"
         /\ W!Part(q, 1, Len(q.labels)).from = 0
         /\ W!Part(q, 1, Len(q.labels)).len = W!Length(q)
<1> DEFINE N == Len(q.labels)
           len == W!Offset(q, k + 1) - 1 - W!Offset(q, j)
<1>1. /\ N \in Nat \ {0} /\ \A n \in 1 .. N : q.labels[n] \in Nat \ {0}
      /\ \A n \in 1 .. N + 1 : W!Offset(q, n) \in Nat
      /\ W!Offset(q, 1) = 0
      /\ \A n \in 1 .. N : W!Offset(q, n + 1) = W!Offset(q, n) + q.labels[n] + 1
  BY OffsetFacts
<1>2. W!Part(q, j, k) = [text |-> "ascii", from |-> W!Offset(q, j), len |-> len]
  BY DEF W!Part
<1>3. W!Offset(q, j) <= W!Offset(q, k)
  <2>1. j \in 1 .. N + 1 /\ k \in 1 .. N + 1 /\ j <= k
    BY <1>1
  <2>. QED BY <2>1, OffsetGrows
<1>4. j \in 1 .. N /\ k \in 1 .. N
  BY <1>1
<1> HIDE DEF N
<1>5. len \in Nat \ {0} /\ W!Offset(q, j) \in Nat
  <2>1. /\ W!Offset(q, k + 1) = W!Offset(q, k) + q.labels[k] + 1
        /\ q.labels[k] \in Nat \ {0} /\ W!Offset(q, k) \in Nat /\ W!Offset(q, j) \in Nat
    BY <1>1, <1>4
  <2>. QED BY <1>3, <2>1
<1>6. W!Part(q, 1, N).from = 0 /\ W!Part(q, 1, N).len = W!Length(q)
  <2>1. W!Offset(q, N + 1) \in Nat
    BY <1>1
  <2>. QED BY <1>1, <2>1 DEF W!Part, W!Length, N
<1> HIDE DEF len
<1>. QED BY <1>2, <1>5, <1>6 DEF Texts, N

LEMMA LongLabelsFacts ==
  ASSUME NEW q \in Names
  PROVE  W!LongLabels(q) \in Seq(Texts)
<1> DEFINE N == Len(q.labels)
           piece == [k \in 1 .. N |-> W!Part(q, k, k)]
           V == Seq(Texts)
           step == [k \in 1 .. N |-> [s \in V |-> IF q.labels[k] < 4 THEN s
                                                 ELSE Append(s, piece[k])]]
           Eq(h) == h = [k \in 0 .. N |-> IF k = 0 THEN <<>>
                                          ELSE IF q.labels[k] < 4 THEN h[k - 1]
                                          ELSE Append(h[k - 1], W!Part(q, k, k))]
           b == CHOOSE h : Eq(h)
<1>1. N \in Nat /\ \A k \in 1 .. N : piece[k] = W!Part(q, k, k) /\ piece[k] \in Texts
  BY OffsetFacts, PartFacts
<1>2. W!LongLabels(q) = b[N]
  BY Zenon DEF W!LongLabels
<1> HIDE DEF N, piece
<1>3. <<>> \in V /\ \A s \in V, k \in 1 .. N : Append(s, piece[k]) \in V
  BY <1>1
<1> HIDE DEF V
<1>4. step \in [1 .. N -> [V -> V]]
  BY <1>3
<1>5. \A k \in 1 .. N, s \in V :
        step[k][s] = IF q.labels[k] < 4 THEN s ELSE Append(s, piece[k])
  OBVIOUS
<1> HIDE DEF step
<1>6. PICK f : Runs(f, N, V, <<>>, step)
  BY <1>1, <1>3, <1>4, Recursion
<1>7. Eq(f)
  <2>1. ASSUME NEW k \in 0 .. N
        PROVE  f[k] = IF k = 0 THEN <<>> ELSE IF q.labels[k] < 4 THEN f[k - 1]
                      ELSE Append(f[k - 1], W!Part(q, k, k))
    <3>1. CASE k # 0
      <4>1. k \in 1 .. N /\ k - 1 \in 0 .. N /\ f[k - 1] \in V
        BY <1>1, <1>6, <3>1 DEF Runs
      <4>2. f[k] = step[k][f[k - 1]]
        BY <1>6, <4>1 DEF Runs
      <4>3. step[k][f[k - 1]] = IF q.labels[k] < 4 THEN f[k - 1]
                                ELSE Append(f[k - 1], piece[k])
        BY <1>5, <4>1
      <4>. QED BY <1>1, <3>1, <4>1, <4>2, <4>3, Zenon
    <3>. QED BY <1>6, <3>1 DEF Runs
  <2>. QED BY <1>6, <2>1 DEF Runs
<1>8. Eq(b)
  <2> HIDE DEF Eq
  <2>. QED BY <1>7
<1> HIDE DEF b
<1>9. N \in {n \in Nat : n <= N => b[n] \in V}
  <2> DEFINE U == {n \in Nat : n <= N => b[n] \in V}
  <2>1. 0 \in U
    BY <1>1, <1>3, <1>8
  <2>2. ASSUME NEW n \in Nat, n \in U PROVE n + 1 \in U
    <3> SUFFICES ASSUME n + 1 <= N PROVE b[n + 1] \in V
      OBVIOUS
    <3>1. n + 1 \in 1 .. N /\ b[n] \in V /\ (n + 1) - 1 = n /\ n + 1 # 0 /\ n + 1 \in 0 .. N
      BY <1>1, <2>2
    <3>2. b[n + 1] = IF q.labels[n + 1] < 4 THEN b[n] ELSE Append(b[n], piece[n + 1])
      BY <1>1, <1>8, <3>1
    <3>. QED BY <1>3, <3>1, <3>2
  <2> HIDE DEF U
  <2>3. Nat \subseteq U
    BY <2>1, <2>2, Induction
  <2>. QED BY <1>1, <2>3 DEF U
<1>. QED BY <1>1, <1>2, <1>9 DEF V

LEMMA VariantsFacts ==
  ASSUME NEW q \in Names
  PROVE  /\ W!Variants(q) \in Seq(Texts) /\ Len(W!Variants(q)) \in 1 .. 8
         /\ W!Variants(q)[1].text = "ascii" /\ W!Variants(q)[1].from = 0
         /\ W!Variants(q)[1].len = W!Length(q)
<1> DEFINE n == Len(q.labels)
           first == W!Part(q, 1, n)
           unicode == IF q.clean = 0 THEN <<>>
                      ELSE <<[text |-> "clean", from |-> 0, len |-> q.clean]>>
           last == IF n > 2 THEN <<W!Part(q, n - 1, n)>> ELSE <<>>
           labels == IF n < 2 THEN <<>> ELSE W!LongLabels(q)
           all == <<first>> \o unicode \o last \o labels
           size == IF Len(all) < 8 THEN Len(all) ELSE 8
<1>1. n \in Nat \ {0} /\ q.clean \in Nat
  BY OffsetFacts, InferenceAssumption DEF W!WindowsAssumption
<1>2. W!Variants(q) = SubSeq(all, 1, size)
  BY Zenon DEF W!Variants, W!MaxVariants
<1>3. first \in Texts /\ first.text = "ascii" /\ first.from = 0 /\ first.len = W!Length(q)
  <2>1. 1 \in 1 .. n /\ n \in 1 .. n
    BY <1>1
  <2> HIDE DEF n
  <2>. QED BY <2>1, PartFacts DEF n
<1>4. unicode \in Seq(Texts)
  <2>1. q.clean # 0 => [text |-> "clean", from |-> 0, len |-> q.clean] \in Texts
    BY <1>1 DEF Texts
  <2>. QED BY <2>1
<1>5. last \in Seq(Texts)
  <2>1. n > 2 => n - 1 \in 1 .. n /\ n \in n - 1 .. n
    BY <1>1
  <2>2. n > 2 => W!Part(q, n - 1, n) \in Texts
    BY <2>1, PartFacts
  <2>. QED BY <2>2
<1>6. labels \in Seq(Texts)
  BY LongLabelsFacts
<1>7. <<first>> \in Seq(Texts) /\ Len(<<first>>) = 1 /\ <<first>>[1] = first
  BY <1>3
<1> HIDE DEF n, first, unicode, last, labels
<1>8. all \in Seq(Texts) /\ Len(all) \in Nat \ {0} /\ all[1] = first
  <2> DEFINE two == <<first>> \o unicode
             three == two \o last
  <2>1. two \in Seq(Texts) /\ Len(two) \in Nat \ {0} /\ two[1] = first
    <3>1. Len(unicode) \in Nat
      BY <1>4
    <3>. QED BY <1>4, <1>7, <3>1, ConcatProperties
  <2> HIDE DEF two
  <2>2. three \in Seq(Texts) /\ Len(three) \in Nat \ {0} /\ three[1] = first
    <3>1. Len(last) \in Nat
      BY <1>5
    <3>. QED BY <1>5, <2>1, <3>1, ConcatProperties
  <2>3. all = three \o labels
    BY DEF two
  <2> HIDE DEF three, all
  <2>4. Len(labels) \in Nat
    BY <1>6
  <2>. QED BY <1>6, <2>2, <2>3, <2>4, ConcatProperties
<1> HIDE DEF all
<1>9. /\ SubSeq(all, 1, size) \in Seq(Texts) /\ Len(SubSeq(all, 1, size)) = size
      /\ size \in 1 .. 8 /\ SubSeq(all, 1, size)[1] = all[1]
  <2>1. size \in 1 .. 8 /\ size <= Len(all)
    <3> DEFINE m == Len(all)
    <3>1. m \in Nat \ {0} /\ size = IF m < 8 THEN m ELSE 8
      BY <1>8
    <3> HIDE DEF size, m
    <3>2. size \in 1 .. 8 /\ size <= m
      BY <3>1
    <3>. QED BY <3>2 DEF m
  <2>2. \A i \in 1 .. size : all[i] \in Texts
    BY <1>8, <2>1
  <2> HIDE DEF size
  <2>. QED BY <2>1, <2>2, SubSeqProperties
<1>. QED BY <1>2, <1>3, <1>8, <1>9

-----------------------------------------------------------------------------
(* Windows *)

LEMMA SameCardinality == \A S : W!Cardinality(S) = Cardinality(S)
BY Zenon DEF W!Cardinality, Cardinality

\* Window k of a text, if its share has one more than k.
Window(len, k) ==
  IF len <= 35 THEN 0 ELSE IF 15 * k <= len - 35 THEN 15 * k ELSE len - 35

\* The stride stops short of the end of a text, or the text has as many
\* windows as it may.
LEMMA StepsFacts ==
  ASSUME NEW len \in Nat, NEW share \in Nat \ {0},
         NEW steps, steps = {s \in {15 * k : k \in 0 .. share - 1} : s <= len - 35}
  PROVE  /\ Cardinality(steps) < share <=> \E k \in 0 .. share - 1 : 15 * k > len - 35
         /\ IsFiniteSet(steps) /\ Cardinality(steps) \in Nat
<1> DEFINE K == {k \in 0 .. share - 1 : 15 * k <= len - 35}
           f == [k \in K |-> 15 * k]
<1>1. IsFiniteSet(0 .. share - 1) /\ Cardinality(0 .. share - 1) = share
  BY FS_Interval
<1>2. f \in Bijection(K, steps)
  <2>1. f \in [K -> steps]
    OBVIOUS
  <2>2. \A j, k \in K : f[j] = f[k] => j = k
    OBVIOUS
  <2>3. \A s \in steps : \E k \in K : f[k] = s
    OBVIOUS
  <2> HIDE DEF f, K
  <2>. QED BY <2>1, <2>2, <2>3 DEF Bijection, Injection, Surjection, IsInjective
<1>3. IsFiniteSet(K) /\ Cardinality(K) \in Nat /\ Cardinality(K) <= share
  BY <1>1, FS_Subset, FS_CardinalityType
<1>4. IsFiniteSet(steps) /\ Cardinality(steps) = Cardinality(K)
  BY <1>2, <1>3, FS_Bijection DEF ExistsBijection
<1>5. (\E k \in 0 .. share - 1 : 15 * k > len - 35) <=> K # 0 .. share - 1
  OBVIOUS
<1>6. Cardinality(K) < share <=> K # 0 .. share - 1
  <2>1. K \in SUBSET (0 .. share - 1)
    OBVIOUS
  <2> HIDE DEF K
  <2>2. Cardinality(0 .. share - 1) = Cardinality(K) => 0 .. share - 1 = K
    BY <1>1, <2>1, FS_Subset
  <2>. QED BY <1>1, <1>3, <2>2
<1>. QED BY <1>3, <1>4, <1>5, <1>6

\* Its windows are the first of that list, and every character that they can
\* reach is in one of them.
LEMMA StartsFacts ==
  ASSUME NEW len \in Nat \ {0}, NEW share \in Nat \ {0}
  PROVE  /\ 0 \in W!Starts(len, share)
         /\ \A s \in W!Starts(len, share) : \E k \in 0 .. share - 1 : s = Window(len, k)
         /\ \A c \in 0 .. len - 1 :
              c < 15 * (share - 1) + 35 =>
                \E s \in W!Starts(len, share) : s \in Nat /\ s <= c /\ c < s + 35
<1> DEFINE steps == {s \in {15 * k : k \in 0 .. share - 1} : s <= len - 35}
<1>1. W!Starts(len, share) =
        IF len <= 35 THEN {0}
        ELSE IF Cardinality(steps) < share THEN steps \cup {len - 35} ELSE steps
  <2>1. W!Starts(len, share) =
          IF len <= 35 THEN {0}
          ELSE IF W!Cardinality(steps) < share THEN steps \cup {len - 35} ELSE steps
    BY Zenon DEF W!Starts, W!Width, W!Stride
  <2>. QED BY <2>1, SameCardinality
<1>2. Cardinality(steps) < share <=> \E k \in 0 .. share - 1 : 15 * k > len - 35
  <2> HIDE DEF steps
  <2>1. PICK x : x = steps
    OBVIOUS
  <2>. QED BY <2>1, StepsFacts DEF steps
<1>3. \A k \in 0 .. share - 1 : 15 * k <= len - 35 => 15 * k \in steps
  OBVIOUS
<1>4. \A s \in steps : \E k \in 0 .. share - 1 : s = 15 * k /\ 15 * k <= len - 35
  OBVIOUS
<1> HIDE DEF steps
<1>5. CASE len <= 35
  <2>1. W!Starts(len, share) = {0} /\ 0 \in 0 .. share - 1 /\ Window(len, 0) = 0
    BY <1>1, <1>5 DEF Window
  <2>2. \A c \in 0 .. len - 1 : 0 <= c /\ c < 0 + 35
    BY <1>5
  <2>. QED BY <2>1, <2>2
<1>6. CASE len > 35
  <2>1. ~(len <= 35) /\ 0 \in 0 .. share - 1 /\ 15 * 0 <= len - 35 /\ 15 * 0 = 0
    BY <1>6
  <2>2. steps \subseteq W!Starts(len, share) /\ W!Starts(len, share) \subseteq steps \cup {len - 35}
    BY <1>1, <2>1
  <2>3. 0 \in W!Starts(len, share)
    BY <1>3, <2>1, <2>2
  <2>4. ASSUME NEW s \in W!Starts(len, share)
        PROVE  \E k \in 0 .. share - 1 : s = Window(len, k)
    <3>1. CASE s \in steps
      BY <1>4, <2>1, <3>1 DEF Window
    <3>2. CASE s \notin steps
      <4>1. s = len - 35 /\ Cardinality(steps) < share
        BY <1>1, <2>1, <2>2, <3>2
      <4>2. PICK k \in 0 .. share - 1 : 15 * k > len - 35
        BY <1>2, <4>1
      <4>3. Window(len, k) = len - 35
        BY <2>1, <4>2 DEF Window
      <4>. QED BY <4>1, <4>3
    <3>. QED BY <3>1, <3>2
  <2>5. ASSUME NEW c \in 0 .. len - 1, c < 15 * (share - 1) + 35
        PROVE  \E s \in W!Starts(len, share) : s \in Nat /\ s <= c /\ c < s + 35
    <3>1. PICK k \in 0 .. share - 1 : 15 * k <= c /\ c < 15 * k + 35
      <4>1. CASE c < 15 * (share - 1)
        <5>1. /\ c \div 15 \in 0 .. share - 1 /\ 15 * (c \div 15) <= c
              /\ c < 15 * (c \div 15) + 35
          BY <2>5, <4>1
        <5>. QED BY <5>1
      <4>2. CASE ~(c < 15 * (share - 1))
        <5>1. share - 1 \in 0 .. share - 1
          OBVIOUS
        <5>. QED BY <2>5, <4>2, <5>1
      <4>. QED BY <4>1, <4>2
    <3>2. CASE 15 * k <= len - 35
      <4>1. 15 * k \in W!Starts(len, share)
        BY <1>3, <2>2, <3>2
      <4>2. 15 * k \in Nat
        BY <3>1
      <4>. QED BY <3>1, <4>1, <4>2
    <3>3. CASE ~(15 * k <= len - 35)
      <4>1. 15 * k > len - 35
        BY <3>3
      <4>2. len - 35 \in W!Starts(len, share)
        BY <1>1, <1>2, <2>1, <4>1
      <4>3. len - 35 \in Nat /\ len - 35 <= c /\ c < (len - 35) + 35
        BY <2>1, <3>1, <4>1
      <4>. QED BY <4>2, <4>3
    <3>. QED BY <3>2, <3>3
  <2>. QED BY <2>3, <2>4, <2>5
<1>. QED BY <1>5, <1>6

\* What each of n texts gets of 32 windows.
LEMMA ShareFacts ==
  ASSUME NEW n \in 1 .. 8
  PROVE  /\ 32 \div n \in Nat \ {0} /\ 32 \div n >= 4 /\ n * (32 \div n) <= 32
         /\ n <= 2 => 32 \div n >= 16
<1>1. /\ 32 \div 1 = 32 /\ 32 \div 2 = 16 /\ 32 \div 3 = 10 /\ 32 \div 4 = 8
      /\ 32 \div 5 = 6 /\ 32 \div 6 = 5 /\ 32 \div 7 = 4 /\ 32 \div 8 = 4
  OBVIOUS
<1>2. n \in {1, 2, 3, 4, 5, 6, 7, 8}
  OBVIOUS
<1>. QED BY <1>1, <1>2

\* The slices of a name: of every one of its texts its windows, and no other.
LEMMA SlicesFacts ==
  ASSUME NEW q \in Names, ~W!Refused(q),
         NEW texts, texts = W!Variants(q), NEW share, share = W!Share(q)
  PROVE  /\ texts \in Seq(Texts) /\ Len(texts) \in 1 .. 8 /\ share = 32 \div Len(texts)
         /\ \A w \in W!Slices(q) :
              \E v \in 1 .. Len(texts), k \in 0 .. share - 1 :
                w = [variant |-> v, start |-> Window(texts[v].len, k)]
         /\ \A v \in 1 .. Len(texts) : \A s \in W!Starts(texts[v].len, share) :
              [variant |-> v, start |-> s] \in W!Slices(q)
<1>1. texts \in Seq(Texts) /\ Len(texts) \in 1 .. 8
  BY VariantsFacts
<1>2. share = 32 \div Len(texts)
  BY Zenon DEF W!Share, W!Budget
<1>3. share \in Nat \ {0}
  BY <1>1, <1>2, ShareFacts
<1>4. W!Slices(q) =
        UNION {{[variant |-> v, start |-> s] : s \in W!Starts(texts[v].len, share)} :
                v \in DOMAIN texts}
  <2>1. W!Slices(q) =
          UNION {{[variant |-> v, start |-> s] :
                   s \in W!Starts(W!Variants(q)[v].len, W!Share(q))} :
                  v \in DOMAIN W!Variants(q)}
    BY Zenon DEF W!Slices
  <2>. QED BY <2>1
<1>5. DOMAIN texts = 1 .. Len(texts)
  BY <1>1
<1>6. \A v \in 1 .. Len(texts) : texts[v].len \in Nat \ {0}
  BY <1>1, TextFields
<1>7. ASSUME NEW w \in W!Slices(q)
      PROVE  \E v \in 1 .. Len(texts), k \in 0 .. share - 1 :
               w = [variant |-> v, start |-> Window(texts[v].len, k)]
  <2>1. PICK v \in 1 .. Len(texts) :
          w \in {[variant |-> v, start |-> s] : s \in W!Starts(texts[v].len, share)}
    BY <1>4, <1>5
  <2>2. PICK s \in W!Starts(texts[v].len, share) : w = [variant |-> v, start |-> s]
    BY <2>1
  <2>3. PICK k \in 0 .. share - 1 : s = Window(texts[v].len, k)
    <3>1. PICK len \in Nat \ {0} : len = texts[v].len
      BY <1>6
    <3>2. \A x \in W!Starts(len, share) : \E k \in 0 .. share - 1 : x = Window(len, k)
      BY <1>3, StartsFacts
    <3>. QED BY <2>2, <3>1, <3>2
  <2>. QED BY <2>2, <2>3
<1>8. ASSUME NEW v \in 1 .. Len(texts), NEW s \in W!Starts(texts[v].len, share)
      PROVE  [variant |-> v, start |-> s] \in W!Slices(q)
  <2> DEFINE Of(u) == {[variant |-> u, start |-> x] : x \in W!Starts(texts[u].len, share)}
  <2>1. [variant |-> v, start |-> s] \in Of(v)
    OBVIOUS
  <2>2. W!Slices(q) = UNION {Of(u) : u \in DOMAIN texts}
    BY <1>4
  <2> HIDE DEF Of
  <2>. QED BY <1>5, <2>1, <2>2
<1>. QED BY <1>1, <1>2, <1>7, <1>8

\* They are no more than the batch holds, and none of the texts goes without.
LEMMA SlicesFitLemma ==
  ASSUME NEW q \in Names, ~W!Refused(q)
  PROVE  /\ Cardinality(W!Slices(q)) <= 32
         /\ \A v \in DOMAIN W!Variants(q) : \E w \in W!Slices(q) : w.variant = v
<1>1. PICK texts : texts = W!Variants(q)
  OBVIOUS
<1>2. PICK share : share = W!Share(q)
  OBVIOUS
<1>3. /\ texts \in Seq(Texts) /\ Len(texts) \in 1 .. 8 /\ share = 32 \div Len(texts)
      /\ \A w \in W!Slices(q) :
           \E v \in 1 .. Len(texts), k \in 0 .. share - 1 :
             w = [variant |-> v, start |-> Window(texts[v].len, k)]
      /\ \A v \in 1 .. Len(texts) : \A s \in W!Starts(texts[v].len, share) :
           [variant |-> v, start |-> s] \in W!Slices(q)
  BY <1>1, <1>2, SlicesFacts
<1>4. share \in Nat \ {0} /\ Len(texts) * share <= 32
  BY <1>3, ShareFacts
<1> DEFINE n == Len(texts)
           S == (1 .. n) \X (0 .. share - 1)
           f == [p \in S |-> [variant |-> p[1], start |-> Window(texts[p[1]].len, p[2])]]
<1>5. n \in 1 .. 8
  BY <1>3
<1>6. IsFiniteSet(S) /\ Cardinality(S) <= 32
  <2> HIDE DEF n
  <2>1. /\ IsFiniteSet(1 .. n) /\ Cardinality(1 .. n) = n
        /\ IsFiniteSet(0 .. share - 1) /\ Cardinality(0 .. share - 1) = share
    <3>1. IsFiniteSet(1 .. n) /\ Cardinality(1 .. n) = n
      <4>1. 1 \in Int /\ n \in Int /\ ~(1 > n) /\ n - 1 + 1 = n
        BY <1>5
      <4>. QED BY <4>1, FS_Interval
    <3>2. IsFiniteSet(0 .. share - 1) /\ Cardinality(0 .. share - 1) = share
      <4>1. /\ 0 \in Int /\ share - 1 \in Int /\ ~(0 > share - 1)
            /\ share - 1 - 0 + 1 = share
        BY <1>4
      <4>. QED BY <4>1, FS_Interval
    <3>. QED BY <3>1, <3>2
  <2>2. IsFiniteSet(S) /\ Cardinality(S) = n * share
    <3>1. PICK A, B : A = 1 .. n /\ B = 0 .. share - 1
      OBVIOUS
    <3>2. IsFiniteSet(A \X B) /\ Cardinality(A \X B) = Cardinality(A) * Cardinality(B)
      BY <2>1, <3>1, FS_Product
    <3>. QED BY <2>1, <3>1, <3>2
  <2>. QED BY <1>4, <2>2 DEF n
<1>7. \A w \in W!Slices(q) : \E p \in S : f[p] = w
  <2> SUFFICES ASSUME NEW w \in W!Slices(q) PROVE \E p \in S : f[p] = w
    OBVIOUS
  <2>1. PICK v \in 1 .. n, k \in 0 .. share - 1 :
          w = [variant |-> v, start |-> Window(texts[v].len, k)]
    BY <1>3
  <2>2. <<v, k>> \in S /\ f[<<v, k>>] = w
    BY <2>1
  <2>. QED BY <2>2
<1>8. IsFiniteSet(W!Slices(q)) /\ Cardinality(W!Slices(q)) <= Cardinality(S)
  <2> HIDE DEF S, f
  <2>. QED BY <1>6, <1>7, CoveredCardinality
<1>9. Cardinality(W!Slices(q)) <= 32
  <2>1. Cardinality(S) \in Nat /\ Cardinality(W!Slices(q)) \in Nat
    BY <1>6, <1>8, FS_CardinalityType
  <2>. QED BY <1>6, <1>8, <2>1
<1>10. ASSUME NEW v \in 1 .. n PROVE \E w \in W!Slices(q) : w.variant = v
  <2>1. texts[v].len \in Nat \ {0}
    BY <1>3, TextFields
  <2>2. 0 \in W!Starts(texts[v].len, share)
    BY <1>4, <2>1, StartsFacts
  <2>3. [variant |-> v, start |-> 0] \in W!Slices(q)
    BY <1>3, <2>2
  <2>. QED BY <2>3
<1>11. DOMAIN texts = 1 .. n
  BY <1>3
<1>. QED BY <1>1, <1>9, <1>10, <1>11

\* Of a text of the name as it stands, what its windows reach is seen.
LEMMA SeenFacts ==
  ASSUME NEW q \in Names, ~W!Refused(q),
         NEW v \in DOMAIN W!Variants(q), W!Variants(q)[v].text = "ascii",
         NEW c \in 0 .. W!Variants(q)[v].len - 1,
         c < 15 * (32 \div Len(W!Variants(q)) - 1) + 35
  PROVE  W!Variants(q)[v].from + c \in W!Seen(q)
<1>1. PICK texts : texts = W!Variants(q)
  OBVIOUS
<1>2. PICK share : share = W!Share(q)
  OBVIOUS
<1>3. /\ texts \in Seq(Texts) /\ Len(texts) \in 1 .. 8 /\ share = 32 \div Len(texts)
      /\ \A u \in 1 .. Len(texts) : \A s \in W!Starts(texts[u].len, share) :
           [variant |-> u, start |-> s] \in W!Slices(q)
  BY <1>1, <1>2, SlicesFacts
<1>4. share \in Nat \ {0}
  BY <1>3, ShareFacts
<1>5. v \in 1 .. Len(texts) /\ texts[v] \in Texts
  BY <1>1, <1>3
<1>6. PICK t : t = texts[v]
  OBVIOUS
<1>7. t.from \in Nat /\ t.len \in Nat \ {0} /\ t.text = "ascii" /\ c \in 0 .. t.len - 1
  BY <1>1, <1>5, <1>6 DEF Texts
<1>8. PICK s \in W!Starts(t.len, share) : s \in Nat /\ s <= c /\ c < s + 35
  <2>1. c < 15 * (share - 1) + 35
    BY <1>1, <1>3
  <2>. QED BY <1>4, <1>7, <2>1, StartsFacts
<1> DEFINE w == [variant |-> v, start |-> s]
           end == IF t.len < s + 35 THEN t.len ELSE s + 35
<1>9. w \in W!Slices(q) /\ w.variant = v /\ w.start = s
  BY <1>3, <1>5, <1>6, <1>8
<1>10. t.from + c \in t.from + s .. t.from + end - 1
  BY <1>7, <1>8
<1>11. t.from + s .. t.from + end - 1 \subseteq W!Seen(q)
  <2> DEFINE Stop(x) == IF texts[x.variant].len < x.start + 35
                       THEN texts[x.variant].len ELSE x.start + 35
             Of(x) == texts[x.variant].from + x.start .. texts[x.variant].from + Stop(x) - 1
             Ascii == {x \in W!Slices(q) : texts[x.variant].text = "ascii"}
  <2>1. W!Seen(q) = UNION {Of(x) : x \in Ascii}
    BY <1>1, Zenon DEF W!Seen, W!Width
  <2>2. w \in Ascii
    BY <1>6, <1>7, <1>9
  <2>3. Of(w) = t.from + s .. t.from + end - 1
    BY <1>6, <1>9
  <2> HIDE DEF Of, Ascii, w, end
  <2>. QED BY <2>1, <2>2, <2>3
<1>. QED BY <1>1, <1>6, <1>10, <1>11

\* What a text of the name as it stands shows of itself: its first 80
\* characters, and 260 if there is at most one more text.
LEMMA ReachFacts ==
  ASSUME NEW q \in Names, ~W!Refused(q),
         NEW v \in DOMAIN W!Variants(q), W!Variants(q)[v].text = "ascii",
         NEW c \in 0 .. W!Variants(q)[v].len - 1,
         c < 80 \/ (Len(W!Variants(q)) <= 2 /\ c < 260)
  PROVE  W!Variants(q)[v].from + c \in W!Seen(q)
<1>1. PICK n \in 1 .. 8 : n = Len(W!Variants(q))
  BY VariantsFacts
<1>2. PICK share \in Nat \ {0} : share = 32 \div n
  BY ShareFacts
<1>3. share >= 4 /\ (n <= 2 => share >= 16)
  BY <1>2, ShareFacts
<1>4. W!Variants(q)[v].len \in Nat
  <2>1. W!Variants(q)[v] \in Texts
    BY VariantsFacts
  <2>. QED BY <2>1, TextFields
<1>5. c < 15 * (share - 1) + 35
  BY <1>1, <1>3, <1>4
<1>6. c < 15 * (32 \div Len(W!Variants(q)) - 1) + 35
  BY <1>1, <1>2, <1>5
<1>. QED BY <1>6, SeenFacts

LEMMA NoBlindSpotsLemma ==
  ASSUME NEW q \in Names, ~W!Refused(q), W!Length(q) <= 253
  PROVE  /\ Len(W!Variants(q)) <= 2 => 0 .. W!Length(q) - 1 \subseteq W!Seen(q)
         /\ \A c \in 0 .. W!Reach - 1 : c < W!Length(q) => c \in W!Seen(q)
         /\ \A k \in DOMAIN q.labels :
              LET label == W!Part(q, k, k) IN
              label.len <= W!Reach /\ (\E v \in DOMAIN W!Variants(q) :
                                         W!Variants(q)[v] = label) =>
                label.from .. label.from + label.len - 1 \subseteq W!Seen(q)
<1>1. PICK texts : texts = W!Variants(q)
  OBVIOUS
<1>2. PICK len : len = W!Length(q)
  OBVIOUS
<1>3. W!Reach = 80
  BY DEF W!Reach, W!Stride, W!Width
<1>4. /\ texts \in Seq(Texts) /\ Len(texts) \in 1 .. 8
      /\ texts[1].text = "ascii" /\ texts[1].from = 0 /\ texts[1].len = len
  BY <1>1, <1>2, VariantsFacts
<1>5. DOMAIN texts = 1 .. Len(texts) /\ 1 \in DOMAIN texts
  BY <1>4
<1>6. len \in Nat \ {0}
  <2>1. texts[1] \in Texts
    BY <1>4
  <2>. QED BY <1>4, <2>1, TextFields
<1>7. ASSUME NEW c \in 0 .. len - 1, c < 80 \/ (Len(texts) <= 2 /\ c < 260)
      PROVE  c \in W!Seen(q)
  <2>1. texts[1].from + c \in W!Seen(q)
    BY <1>1, <1>4, <1>5, <1>7, ReachFacts
  <2>. QED BY <1>4, <1>6, <2>1
<1>8. Len(texts) <= 2 => 0 .. len - 1 \subseteq W!Seen(q)
  <2>1. \A c \in 0 .. len - 1 : c < 260
    BY <1>2, <1>6
  <2>. QED BY <1>7, <2>1
<1>9. \A c \in 0 .. W!Reach - 1 : c < len => c \in W!Seen(q)
  <2> SUFFICES ASSUME NEW c \in 0 .. 79, c < len PROVE c \in W!Seen(q)
    BY <1>3
  <2>1. c \in 0 .. len - 1 /\ c < 80
    BY <1>6
  <2>. QED BY <1>7, <2>1
<1>10. ASSUME NEW k \in DOMAIN q.labels, NEW label, label = W!Part(q, k, k),
              label.len <= W!Reach, NEW v \in DOMAIN texts, texts[v] = label
       PROVE  label.from .. label.from + label.len - 1 \subseteq W!Seen(q)
  <2>1. label \in Texts /\ label.text = "ascii"
    <3>1. k \in 1 .. Len(q.labels) /\ k \in k .. Len(q.labels)
      BY OffsetFacts
    <3>. QED BY <1>10, <3>1, PartFacts
  <2>2. label.from \in Nat /\ label.len \in Nat \ {0}
    BY <2>1, TextFields
  <2>3. ASSUME NEW c \in 0 .. label.len - 1 PROVE label.from + c \in W!Seen(q)
    <3>1. c < 80
      BY <1>3, <1>10, <2>2
    <3>. QED BY <1>1, <1>10, <2>1, <3>1, ReachFacts
  <2>4. ASSUME NEW i \in label.from .. label.from + label.len - 1 PROVE i \in W!Seen(q)
    <3>1. i - label.from \in 0 .. label.len - 1 /\ label.from + (i - label.from) = i
      BY <2>2
    <3>. QED BY <2>3, <3>1
  <2>. QED BY <2>4
<1>11. \A k \in DOMAIN q.labels :
         W!Part(q, k, k).len <= W!Reach /\ (\E v \in DOMAIN texts :
                                              texts[v] = W!Part(q, k, k)) =>
           W!Part(q, k, k).from .. W!Part(q, k, k).from + W!Part(q, k, k).len - 1
             \subseteq W!Seen(q)
  BY <1>10
<1>. QED BY <1>1, <1>2, <1>8, <1>9, <1>11, Zenon

\* No text of a name takes the windows of another, their number stays within
\* the batch, and what stays unseen of a name is bounded (inference/models.py,
\* _predict_impl): for every name, of any number of labels of any length.
THEOREM WindowsAreSound == InferenceSpec => []WindowsSound
<1>1. InferenceInit => query \in Names \cup {W!None}
  BY DEF InferenceInit, W!Init
<1>2. query \in Names \cup {W!None} /\ [InferenceNext]_inference
        => (query \in Names \cup {W!None})'
  BY DEF InferenceNext, inference, Workers, Files, W!Predict
<1>3. query \in Names \cup {W!None} => WindowsSound
  <2> SUFFICES ASSUME W!Looked, query \in Names \cup {W!None}
               PROVE  /\ W!Cardinality(W!Slices(query)) <= W!Budget
                      /\ \A v \in DOMAIN W!Variants(query) :
                           \E w \in W!Slices(query) : w.variant = v
                      /\ W!Length(query) <= 253 => W!NoBlindSpots
    BY Zenon DEF WindowsSound, W!SlicesFit, W!NoBlindSpots
  <2>1. query \in Names /\ ~W!Refused(query)
    BY DEF W!Looked
  <2>2. W!Cardinality(W!Slices(query)) <= W!Budget
    BY <2>1, SlicesFitLemma, SameCardinality DEF W!Budget
  <2>3. \A v \in DOMAIN W!Variants(query) : \E w \in W!Slices(query) : w.variant = v
    BY <2>1, SlicesFitLemma
  <2>4. W!Length(query) <= 253 => W!NoBlindSpots
    BY <2>1, NoBlindSpotsLemma, Zenon DEF W!NoBlindSpots
  <2>. QED BY <2>2, <2>3, <2>4
<1>. QED BY <1>1, <1>2, <1>3, PTL DEF InferenceSpec
=============================================================================
