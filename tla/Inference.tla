------------------------------ MODULE Inference ------------------------------
(***************************************************************************)
(* The models in use: how events get to them through the pool of threads   *)
(* (Detect), which files they were loaded from (ModelStore, M) and what    *)
(* they see of a name (Windows, W).  Once loaded a model does not change,  *)
(* and a prediction keeps nothing; so a behaviour is about one of the      *)
(* three.                                                                  *)
(***************************************************************************)
EXTENDS Detect

CONSTANTS MaxTrained, MaxDeaths, Names

VARIABLES
  part,
  artifact, disk, trained, writer, reader, deaths, published, broken,
  query

M == INSTANCE ModelStore
W == INSTANCE Windows

ASSUME InferenceAssumption == M!StoreAssumption /\ W!WindowsAssumption

store == <<artifact, disk, trained, writer, reader, deaths, published, broken>>
inference == <<part, vars, store, query>>

InferenceInit ==
  /\ Init /\ M!Init /\ W!Init
  /\ part \in {"workers", "files", "names"}
  /\ part # "files" => artifact = "cnn"

Workers(step) == part = "workers" /\ step /\ UNCHANGED <<part, store, query>>
Files(step) == part = "files" /\ step /\ UNCHANGED <<part, vars, query>>

InferenceNext ==
  \/ Workers(Next)
  \/ Files(M!Next)
  \/ part = "names" /\ W!Predict /\ UNCHANGED <<part, vars, store>>

\* Detect's fairness; trainers and the engine go on with what they have begun.
InferenceSpec ==
  /\ InferenceInit /\ [][InferenceNext]_inference
  /\ \A c \in Coroutines : SF_inference(Workers(Proceed(c)))
  /\ \A w \in M!Writers : WF_inference(Files(M!Continue(w)))
  /\ WF_inference(Files(M!Start))

-----------------------------------------------------------------------------
\* The files have the contents ModelStore gives them, a query is a known one.
FilesOK == M!TypeOK /\ query \in Names \cup {W!None}

\* Whoever writes the files, in whatever order, and stops: nothing is loaded
\* that was not published, files at rest agree, the agent never shows half a
\* model, and a threshold is that of its model.
StoreSound ==
  /\ FilesOK
  /\ M!LoadedWasPublished /\ M!ConsistentAtRest
  /\ M!AgentReplacesWhole /\ M!ThresholdFits

\* An engine that fails to start does so in the end.
LoadsInTheEnd == part = "files" => M!LoadsInTheEnd

\* No text of a name takes the windows of another, and what stays unseen of a
\* name is bounded.
WindowsSound == W!SlicesFit /\ W!NoBlindSpots
=============================================================================
