----------------------------- MODULE ModelStore -----------------------------
(***************************************************************************)
(* The files under models/: who writes them, and who loads them.           *)
(*                                                                         *)
(* A model has a file of its own, one with its SHA-256 and, the flow       *)
(* autoencoder, one with its threshold; no lock protects the three.  The   *)
(* continuous trainer ("agent") works on temporary files and renames them; *)
(* the training scripts ("script"), of which an operator runs one at a     *)
(* time, write in place.  Both may stop at any point.  Bytes are the       *)
(* number of the training they come from, and so is their hash.            *)
(***************************************************************************)
EXTENDS Integers

CONSTANTS
  MaxTrained,   \* bound: models trained
  MaxDeaths     \* bound: trainers that stop half-way

\* An assumption; the module that instantiates this one makes it.
StoreAssumption == MaxTrained \in Nat /\ MaxDeaths \in Nat

VARIABLES
  artifact,    \* the model a behaviour is about
  disk,        \* contents of the files
  trained,
  writer,
  reader,
  deaths,
  published,   \* history: models whose hash stood beside the artifact
  broken       \* history: a publication was cut short, met another or is unsigned

vars == <<artifact, disk, trained, writer, reader, deaths, published, broken>>

Shipped == 0          \* the model of the repository
Torn == -1            \* a model file that is being written, or was never finished
Empty == -2           \* a text file that was opened for writing, or none
Whole == Shipped .. MaxTrained

Writers == {"agent", "script"}
Readers == {"engine", "check"}
Other(w) == IF w = "agent" THEN "script" ELSE "agent"

Idle == [pc |-> "idle", gen |-> Shipped, hash |-> Empty, alone |-> TRUE]
Down == [pc |-> "down", hash |-> Empty, bytes |-> Empty, threshold |-> Shipped,
         raced |-> FALSE]

Init ==
  /\ artifact \in {"cnn", "flow"}
  /\ disk = [f \in {"model", "hash", "threshold", "temp", "temphash"} |->
               IF f \in {"temp", "temphash"} THEN Empty ELSE Shipped]
  /\ trained = Shipped
  /\ writer = [w \in Writers |-> Idle]
  /\ reader = [r \in Readers |-> Down]
  /\ deaths = 0
  /\ published = {Shipped}
  /\ broken = FALSE

At(w, pc) == writer[w].pc = pc

\* The files a reader may look at are being changed.
Publishing(w) ==
  IF w = "agent" THEN At(w, "deployed") ELSE ~At(w, "idle")

-----------------------------------------------------------------------------
(* Trainers                                                                *)

\* Fault: the agent saves where the engine loads.
InPlace(w) == "model"

\* Where a trainer saves its model
SavePath(w) == IF w = "agent" THEN "temp" ELSE "model"
HashPath(w) == IF w = "agent" THEN "temphash" ELSE "hash"

Reading(r) == reader[r].pc \in {"hash", "bytes", "loaded"}

\* w begins to publish: those who read meanwhile may see both.
Entering(w, new) ==
  /\ writer' = [writer EXCEPT ![w] = [new EXCEPT !.alone = ~Publishing(Other(w))],
                              ![Other(w)].alone = FALSE]
  /\ reader' = [r \in Readers |-> [reader[r] EXCEPT !.raced = @ \/ Reading(r)]]

\* A better model than before: its file is opened, and truncated.
Save(w) ==
  /\ trained < MaxTrained
  /\ \/ w = "script" /\ At(w, "idle")
        /\ Entering(w, [writer[w] EXCEPT !.pc = "saving", !.gen = trained + 1])
     \/ w = "agent" /\ artifact = "cnn" /\ (At(w, "idle") \/ At(w, "trained"))
        /\ writer' = [writer EXCEPT ![w].pc = "saving", ![w].gen = trained + 1]
        /\ UNCHANGED reader
  /\ trained' = trained + 1
  /\ disk' = [disk EXCEPT ![SavePath(w)] = Torn]
  /\ UNCHANGED <<artifact, deaths, published, broken>>

\* A file that was renamed away from under its writer is nobody's now.
Saved(w) ==
  [disk EXCEPT ![SavePath(w)] = IF @ = Torn THEN writer[w].gen ELSE @]

FinishSave(w) ==
  /\ At(w, "saving")
  /\ disk' = Saved(w)
  /\ writer' = [writer EXCEPT ![w].pc = "saved"]
  /\ UNCHANGED <<artifact, trained, reader, deaths, published, broken>>

\* Fault: the hash is taken of what has reached the file so far.
ReadBackEarly(w) ==
  /\ At(w, "saving")
  /\ writer' = [writer EXCEPT ![w].pc = "signing", ![w].hash = disk[SavePath(w)]]
  /\ disk' = [disk EXCEPT ![HashPath(w)] = Empty]
  /\ UNCHANGED <<artifact, trained, reader, deaths, published, broken>>

\* The hash is that of the file as it is read back; then its file is opened.
ReadBack(w) ==
  /\ At(w, "saved")
  /\ writer' = [writer EXCEPT ![w].pc = "signing", ![w].hash = disk[SavePath(w)]]
  /\ disk' = [disk EXCEPT ![HashPath(w)] = Empty]
  /\ UNCHANGED <<artifact, trained, reader, deaths, published, broken>>

\* Fault: no threshold is written for a new autoencoder.
AfterHashDone(w) == IF w = "agent" THEN "trained" ELSE "idle"

\* What follows the hash: nothing more for the CNN of a script
AfterHash(w) ==
  IF w = "agent" THEN "trained" ELSE IF artifact = "flow" THEN "opening" ELSE "idle"

Sign(w) ==
  /\ At(w, "signing")
  /\ disk' = [disk EXCEPT ![HashPath(w)] = writer[w].hash]
  /\ writer' = [writer EXCEPT ![w] = IF AfterHash(w) = "idle" THEN Idle
                                      ELSE [@ EXCEPT !.pc = AfterHash(w)]]
  /\ published' = IF w = "script" THEN published \cup {writer[w].hash} ELSE published
  /\ broken' = IF AfterHash(w) = "idle" THEN ~writer[w].alone ELSE broken
  /\ UNCHANGED <<artifact, trained, reader, deaths>>

\* save_traced_model: the model, then the hash of what is in its file
SaveTraced == Save("script") \/ FinishSave("script") \/ ReadBack("script") \/ Sign("script")

\* Whenever validation improves
TrainToMax == artifact = "cnn" /\ SaveTraced

\* The older script does the same to the files, once.
TrainCnn == TrainToMax

OpenThreshold ==
  /\ At("script", "opening")
  /\ disk' = [disk EXCEPT !["threshold"] = Empty]
  /\ writer' = [writer EXCEPT !["script"].pc = "fitting"]
  /\ UNCHANGED <<artifact, trained, reader, deaths, published, broken>>

WriteThreshold ==
  /\ At("script", "fitting")
  /\ disk' = [disk EXCEPT !["threshold"] = writer["script"].gen]
  /\ writer' = [writer EXCEPT !["script"] = Idle]
  /\ broken' = ~writer["script"].alone
  /\ UNCHANGED <<artifact, trained, reader, deaths, published>>

\* train_flow_autoencoder: the threshold comes after the hash
TrainFlowAutoencoder ==
  /\ artifact = "flow"
  /\ SaveTraced \/ OpenThreshold \/ WriteThreshold

\* train_autoencoder of train_dl_models.py ends with the weights: neither
\* hash nor threshold goes with them.
LeaveUnsigned ==
  /\ artifact = "flow" /\ At("script", "saved")
  /\ writer' = [writer EXCEPT !["script"] = Idle]
  /\ broken' = TRUE
  /\ UNCHANGED <<artifact, disk, trained, reader, deaths, published>>

\* The end of a cycle: the model is replaced, then its hash.
Deploy ==
  /\ At("agent", "trained")
  /\ disk' = [disk EXCEPT !["model"] = disk["temp"], !["temp"] = Empty]
  /\ Entering("agent", [writer["agent"] EXCEPT !.pc = "deployed"])
  /\ UNCHANGED <<artifact, trained, deaths, published, broken>>

\* Fault: only the model is replaced.
Unreplaced == disk

Replaced == [disk EXCEPT !["hash"] = disk["temphash"], !["temphash"] = Empty]

ReplaceHash ==
  /\ At("agent", "deployed")
  /\ disk' = Replaced
  /\ writer' = [writer EXCEPT !["agent"] = Idle]
  /\ published' = published \cup {disk["temphash"]}
  /\ broken' = ~writer["agent"].alone
  /\ UNCHANGED <<artifact, trained, reader, deaths>>

\* The endless loop of the continuous trainer
Cycle ==
  \/ Save("agent") \/ FinishSave("agent") \/ ReadBack("agent") \/ Sign("agent")
  \/ Deploy \/ ReplaceHash

\* Killed, or an exception: the agent begins another cycle, the script ends.
\* What it had begun to publish stays as it is.
Die(w) ==
  /\ ~At(w, "idle") /\ deaths < MaxDeaths
  /\ deaths' = deaths + 1
  /\ writer' = [writer EXCEPT ![w] = Idle]
  /\ broken' = (broken \/ Publishing(w))
  /\ UNCHANGED <<artifact, disk, trained, reader, published>>

-----------------------------------------------------------------------------
(* The engines, and verify_model_integrity.py                              *)

Become(r, new) ==
  /\ reader' = [reader EXCEPT ![r] = new]
  /\ UNCHANGED <<artifact, disk, trained, writer, deaths, published, broken>>

\* The hash is read before the bytes.
ReadHash(r) ==
  Become(r, [Down EXCEPT !.pc = "hash", !.hash = disk["hash"],
             !.raced = broken \/ \E w \in Writers : Publishing(w)])

ReadBytes(r) ==
  /\ reader[r].pc = "hash"
  /\ Become(r, [reader[r] EXCEPT !.pc = "bytes", !.bytes = disk["model"]])

\* Fault: whatever can be loaded is loaded.
Loadable(r) == reader[r].bytes \in Whole

\* Hash and bytes agree, and TorchScript can load them.
Accepted(r) == reader[r].bytes = reader[r].hash /\ reader[r].bytes \in Whole

\* Fault: a process that could not load its model stays down.
JudgeOnce(r) ==
  /\ reader[r].pc = "bytes"
  /\ Become(r, IF ~Accepted(r) THEN [Down EXCEPT !.pc = "failed"]
               ELSE [reader[r] EXCEPT !.pc =
                       IF r = "engine" /\ artifact = "flow" THEN "loaded" ELSE "up"])

Judge(r) ==
  /\ reader[r].pc = "bytes"
  /\ Become(r, IF ~Accepted(r) THEN Down
               ELSE [reader[r] EXCEPT !.pc =
                       IF r = "engine" /\ artifact = "flow" THEN "loaded" ELSE "up"])

\* DeepLearningEngine.__init__: an error ends the process, which is started again
Boot == reader["engine"].pc = "down" /\ ReadHash("engine")

\* FlowAnomalyEngine.__init__: the threshold, which may be no number yet
ReadThreshold ==
  /\ reader["engine"].pc = "loaded"
  /\ Become("engine", IF disk["threshold"] = Empty THEN Down
                      ELSE [reader["engine"] EXCEPT !.pc = "up",
                                                    !.threshold = disk["threshold"]])

\* Hot reload is disabled: a process keeps what it loaded until it ends.
Restart ==
  /\ reader["engine"].pc = "up"
  /\ Become("engine", Down)

\* verify_model_integrity.py, run by hand
Verify == reader["check"].pc \in {"up", "down"} /\ ReadHash("check")

Start == Boot \/ ReadBytes("engine") \/ Judge("engine") \/ ReadThreshold
Check == Verify \/ ReadBytes("check") \/ Judge("check")

\* What a trainer that has begun goes on with
Continue(w) ==
  \/ FinishSave(w) \/ ReadBack(w) \/ Sign(w)
  \/ w = "script" /\ (OpenThreshold \/ WriteThreshold)
  \/ w = "agent" /\ (Deploy \/ ReplaceHash)

Train ==
  \/ TrainToMax \/ TrainCnn \/ TrainFlowAutoencoder \/ LeaveUnsigned
  \/ Cycle

Next == Train \/ (\E w \in Writers : Die(w)) \/ Start \/ Restart \/ Check

-----------------------------------------------------------------------------
\* There always is a model file, and no hash of half a model.
TypeOK ==
  /\ artifact \in {"cnn", "flow"}
  /\ disk["model"] \in Whole \cup {Torn} /\ disk["temp"] \in Whole \cup {Torn, Empty}
  /\ \A f \in {"hash", "temphash", "threshold"} : disk[f] \in Whole \cup {Empty}
  /\ trained \in Whole /\ deaths \in 0 .. MaxDeaths
  /\ published \subseteq Whole /\ broken \in BOOLEAN

\* Nothing is ever used whose hash a trainer had not put beside it, however
\* reading and writing interleave (models.py:146, "before these bytes ever
\* reach torch.jit.load").
LoadedWasPublished ==
  \A r \in Readers :
    reader[r].pc \in {"loaded", "up"} => reader[r].bytes \in published \cap Whole

\* A publication nobody disturbed leaves the files in agreement, whatever
\* earlier ones left behind: the next start will not crash-loop
\* (save_traced_model).
ConsistentAtRest ==
  (~broken /\ \A w \in Writers : ~Publishing(w)) =>
    /\ disk["model"] = disk["hash"] /\ disk["model"] \in Whole
    /\ artifact = "flow" => disk["threshold"] = disk["model"]

\* The agent alone never shows anybody half a model, even when it stops.
AgentReplacesWhole == (At("script", "idle") /\ ~broken) => disk["model"] \in Whole

\* The threshold an engine works with is that of its model, although no hash
\* covers it; unless it started while the files were being changed.
ThresholdFits ==
  LET e == reader["engine"] IN
  (artifact = "flow" /\ e.pc = "up" /\ ~e.raced) => e.threshold = e.bytes

\* An engine that fails to start does start in the end, once trainers leave
\* the files alone and none of them left them at odds.
LoadsInTheEnd == reader["engine"].pc = "down" ~> (reader["engine"].pc = "up" \/ broken)
=============================================================================
