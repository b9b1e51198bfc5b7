----------------------------- MODULE DlqReplay ------------------------------
(***************************************************************************)
(* scripts/replay_dlq.py next to the processes that write the dead-letter  *)
(* file (DlqFile).  The script does not take their lock; two operators may *)
(* run it at the same time.  A dry run changes nothing and is left out.    *)
(***************************************************************************)
EXTENDS DlqFile

CONSTANTS
  Scripts,      \* runs of the script
  MaxTime,      \* bound: archives are made in seconds 0 .. MaxTime
  MaxFailures   \* bound: sends that fail

ASSUME DlqReplayAssumption ==
  /\ MaxTime \in Nat /\ MaxFailures \in Nat
  /\ LastName = RotateCount + 1 + MaxTime

VARIABLES
  script,    \* what each run of the script is doing
  topic,     \* entries that reached the alerts topic
  failed,    \* entries whose send failed
  archived   \* history: up to which entry its script had read an archive

vars == <<fileVars, script, topic, failed, archived>>

\* Fault: an archive may take the name of the last generation.
ArchivesRotated == RotateCount .. LastName

\* Names of archives, one per second
Archives == RotateCount + 1 .. LastName
Unread == [pc |-> "idle", full |-> TRUE, file |-> None, loaded |-> {},
           upto |-> 0, due |-> {}]

Init ==
  /\ FileInit
  /\ script = [s \in Scripts |-> Unread]
  /\ topic = {} /\ failed = {}
  /\ archived = [n \in Archives |-> 0]

Stage(s, pc) == script[s].pc = pc

\* With --limit the archive step is skipped
Start(s) ==
  /\ Stage(s, "idle") /\ dir[0] # None
  /\ \E full \in BOOLEAN :
       script' = [script EXCEPT ![s].pc = "read", ![s].file = dir[0],
                                ![s].full = full]
  /\ UNCHANGED <<fileVars, topic, failed, archived>>

Parseable(f) ==
  UNION {data[f][k].has : k \in {j \in DOMAIN data[f] : Parses(data[f][j])}}

\* --limit: the first entry only
Limited(E, full) == IF full THEN E ELSE {e \in E : \A x \in E : e <= x}

\* The entries written by now, without the one that is being written
Complete == IF \E w \in Writers : At(w, "sync") THEN entries - 1 ELSE entries

\* load_dlq_entries to the end of the file: lines that do not parse, or not
\* yet, are skipped
Load(s) ==
  /\ Stage(s, "read")
  /\ LET E == Limited(Parseable(script[s].file), script[s].full) IN
     script' = [script EXCEPT ![s].pc = "send", ![s].loaded = E, ![s].due = E,
                              ![s].upto = Complete]
  /\ UNCHANGED <<fileVars, topic, failed, archived>>

\* Every send queues; what the broker makes of the messages is seen by the
\* flush: it returns when each is delivered or has failed, and it raises if
\* that takes too long
Flush(s) ==
  /\ Stage(s, "send")
  /\ \E lost \in SUBSET script[s].due :
       /\ Cardinality(failed \cup lost) <= MaxFailures
       /\ topic' = topic \cup (script[s].due \ lost)
       /\ failed' = failed \cup lost
       /\ \E pc \in {"flushed"} \cup {x \in {"raised"} : lost # {}} :
            script' = [script EXCEPT ![s].pc = pc, ![s].due = {}]
  /\ UNCHANGED <<fileVars, archived>>

\* Fault: an archive is made after a partial replay.
MayArchiveLimited(s) == TRUE

MayArchive(s) == script[s].full

\* os.rename, whatever file has the name by now, to a name that an archive of
\* the same second has, too; raises if there is no file
Rename(s) ==
  /\ Stage(s, "flushed")
  /\ \/ /\ MayArchive(s) /\ dir[0] # None
        /\ \E n \in Archives :
             /\ \A m \in Archives : dir[m] # None => m <= n
             /\ dir' = Renamed(0, n)
             /\ archived' = [archived EXCEPT ![n] = IF dir[0] = script[s].file
                                                   THEN script[s].upto ELSE 0]
     \/ /\ ~MayArchive(s) \/ dir[0] = None
        /\ UNCHANGED <<dir, archived>>
  /\ script' = [script EXCEPT ![s].pc = "done"]
  /\ UNCHANGED <<data, lock, writer, entries, torn, deaths, topic, failed>>

Replay(s) == Start(s) \/ Load(s) \/ Flush(s) \/ Rename(s)

Next ==
  \/ \E w \in Writers :
       Put(w) /\ UNCHANGED <<script, topic, failed, archived>>
  \/ \E s \in Scripts : Replay(s)

Spec == Init /\ [][Next]_vars

-----------------------------------------------------------------------------
(* Properties                                                              *)

TypeOK ==
  /\ FileTypeOK
  /\ \A s \in Scripts :
       /\ script[s].pc \in {"idle", "read", "send", "flushed", "raised", "done"}
       /\ script[s].due \subseteq script[s].loaded
       /\ script[s].loaded \subseteq 1..script[s].upto
  /\ topic \subseteq 1..entries /\ failed \subseteq 1..entries

\* What an archive holds and the topic never got is accounted for: the send
\* failed, the line is damaged, or the script had not read it: the entry came
\* later, or another file had come under the name.
ArchiveAccounted ==
  \A n \in Archives : dir[n] # None =>
    \A e \in Parseable(dir[n]) :
      e \in topic \/ e \in failed \/ e > archived[n]

\* "Rename the DLQ file (append .replayed-<timestamp>) after a successful
\* full replay" (replay_dlq.py:93): an entry in an archive was sent.
ArchivedWasSent ==
  \A n \in Archives : dir[n] # None => Parseable(dir[n]) \subseteq topic

\* The files, whoever writes, rotates, renames and dies: generations in order,
\* sizes and damage bounded.
FilesSound == TypeOK /\ GenerationsInOrder /\ SizeBounded /\ DamageBounded
=============================================================================
