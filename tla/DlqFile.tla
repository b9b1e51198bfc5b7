------------------------------ MODULE DlqFile -------------------------------
(***************************************************************************)
(* The dead-letter file on disk: the form the stream processor             *)
(* (_write_local_dlq_fallback) and the sink (write_to_file_dlq) share, each *)
(* for a file of its own.                                                  *)
(*                                                                         *)
(* Names and files are kept apart as in a file system: a name leads to a   *)
(* file, rename moves the name, and a writer or a reader goes on with the  *)
(* file it opened whatever its name has become.  Name 0 is the dead-letter *)
(* file, 1 .. RotateCount its rotated predecessors; higher names are those *)
(* a replay gives (DlqReplay).  Entries are numbered as they are written.  *)
(***************************************************************************)
EXTENDS Integers, Sequences, FiniteSets, SequencesExt

CONSTANTS
  Writers,      \* threads of the processes that write the file
  RotateCount,  \* DLQ_ROTATE_COUNT
  MaxSize,      \* DLQ_MAX_SIZE_MB, counted in entries
  MaxEntries,   \* bound: entries written
  MaxDeaths,    \* bound: processes that die while they write
  LastName,     \* bound: names are 0 .. LastName
  None

ASSUME DlqFileAssumption ==
  /\ RotateCount \in Nat \ {0} /\ MaxSize \in Nat
  /\ MaxEntries \in Nat /\ MaxDeaths \in Nat
  /\ LastName >= RotateCount
  /\ None \notin Nat /\ None \notin Writers

VARIABLES
  dir,      \* dir[n]: the file with name n, None if there is none
  data,     \* data[f]: the lines of file f
  lock,     \* the writer that holds the lock
  writer,   \* what each writer is doing
  entries,  \* entries begun
  torn,     \* entries whose writer died before the line was complete
  deaths

fileVars == <<dir, data, lock, writer, entries, torn, deaths>>

Names == 0..LastName
Files == DOMAIN data
Rest == [pc |-> "idle", at |-> 0, file |-> None]

FileInit ==
  /\ dir = [n \in Names |-> None]
  /\ data = <<>>
  /\ lock = None
  /\ writer = [w \in Writers |-> Rest]
  /\ entries = 0
  /\ torn = {}
  /\ deaths = 0

-----------------------------------------------------------------------------
(* Lines                                                                   *)

\* A line: the entries on it, whether it is JSON, whether it is complete
EntriesOf(f) == UNION {data[f][k].has : k \in DOMAIN data[f]}
Size(f) == Cardinality(EntriesOf(f))

\* Fault: a line that is not complete is taken for an entry.
ParsesPart(line) == line.whole

Parses(line) == line.whole /\ line.ended

\* What is written first sticks to a line its writer did not end
Begun(lines, e) ==
  IF lines # <<>> /\ ~Last(lines).ended
  THEN [lines EXCEPT ![Len(lines)].has = @ \cup {e},
                     ![Len(lines)].whole = FALSE]
  ELSE Append(lines, [has |-> {e}, whole |-> TRUE, ended |-> FALSE])

\* Fault: the newline is missing.
EndedNot(lines) == lines

Ended(lines) == [lines EXCEPT ![Len(lines)].ended = TRUE]

-----------------------------------------------------------------------------
(* One writer                                                              *)

At(w, pc) == writer[w].pc = pc
Goto(w, pc) == writer' = [writer EXCEPT ![w].pc = pc]

Free == lock = None

\* Fault: the file is rotated when it has grown to twice its size.
LargeTwice(f) == Size(f) > 2 * MaxSize

Large(f) == Size(f) > MaxSize

\* The lock of the process's threads, the flock, and the size of the file
Lock(w) ==
  /\ At(w, "idle") /\ Free /\ entries < MaxEntries
  /\ lock' = w
  /\ writer' = [writer EXCEPT
                  ![w].pc = IF dir[0] # None /\ Large(dir[0])
                            THEN "shift" ELSE "open",
                  ![w].at = RotateCount - 1]
  /\ UNCHANGED <<dir, data, entries, torn, deaths>>

Renamed(from, to) == [dir EXCEPT ![to] = dir[from], ![from] = None]

\* Fault: the oldest but one is not looked at.
AboveLate(i) == i > 1

Above(i) == i > 0

\* os.replace, once for each of .RotateCount-1 ... .1 that exists
Shift(w) ==
  /\ At(w, "shift") /\ Above(writer[w].at)
  /\ dir' = IF dir[writer[w].at] = None THEN dir ELSE
            Renamed(writer[w].at, writer[w].at + 1)
  /\ writer' = [writer EXCEPT ![w].at = @ - 1]
  /\ UNCHANGED <<data, lock, entries, torn, deaths>>

\* ... and of the file itself; if a replay has renamed it meanwhile that
\* raises, and the writer goes on without having rotated
Move(w) ==
  /\ At(w, "shift") /\ ~Above(writer[w].at)
  /\ dir' = IF dir[0] = None THEN dir ELSE Renamed(0, 1)
  /\ Goto(w, "open")
  /\ UNCHANGED <<data, lock, entries, torn, deaths>>

\* The file is opened, and made if there is none
Open(w) ==
  /\ At(w, "open")
  /\ dir' = IF dir[0] = None THEN [dir EXCEPT ![0] = Len(data) + 1] ELSE dir
  /\ data' = IF dir[0] = None THEN Append(data, <<>>) ELSE data
  /\ writer' = [writer EXCEPT ![w].pc = "write", ![w].file = dir'[0]]
  /\ UNCHANGED <<lock, entries, torn, deaths>>

\* A first part of the line reaches the file
Write(w) ==
  /\ At(w, "write")
  /\ entries' = entries + 1
  /\ data' = [data EXCEPT ![writer[w].file] = Begun(@, entries')]
  /\ writer' = [writer EXCEPT ![w].pc = "sync", ![w].at = entries']
  /\ UNCHANGED <<dir, lock, torn, deaths>>

\* ... and then all of it
Sync(w) ==
  /\ At(w, "sync")
  /\ data' = [data EXCEPT ![writer[w].file] = Ended(@)]
  /\ writer' = [writer EXCEPT ![w] = Rest]
  /\ lock' = None
  /\ UNCHANGED <<dir, entries, torn, deaths>>

\* The process dies; the kernel drops its lock; another one takes its place
Die(w) ==
  /\ ~At(w, "idle")
  /\ deaths < MaxDeaths /\ deaths' = deaths + 1
  /\ torn' = IF At(w, "sync") THEN torn \cup {writer[w].at} ELSE torn
  /\ lock' = None
  /\ writer' = [writer EXCEPT ![w] = Rest]
  /\ UNCHANGED <<dir, data, entries>>

Put(w) ==
  \/ Lock(w) \/ Shift(w) \/ Move(w) \/ Open(w) \/ Write(w)
  \/ Sync(w) \/ Die(w)

-----------------------------------------------------------------------------
(* Properties                                                              *)

FileTypeOK ==
  /\ dir \in [Names -> Files \cup {None}]
  /\ \A f \in Files : data[f] \in Seq([has : SUBSET (1..entries),
                                       whole : BOOLEAN, ended : BOOLEAN])
  /\ lock \in Writers \cup {None}
  /\ \A w \in Writers : writer[w].file \in Files \cup {None}
  /\ entries \in 0..MaxEntries

\* The generations are in order, newest first, whatever a rotation that was
\* cut short left and whoever wrote at the same time: what rotation drops is
\* the oldest there is.
GenerationsInOrder ==
  \A a, b \in 0..RotateCount :
    a < b /\ dir[a] # None /\ dir[b] # None =>
      \A x \in EntriesOf(dir[a]), y \in EntriesOf(dir[b]) : x > y

\* No file grows past the limit by more than the entry that crossed it.
SizeBounded == \A f \in Files : Size(f) <= MaxSize + 1

\* A file only loses its last name when a rotation had already kept
\* RotateCount younger ones (or a replay took the name, see DlqReplay): the
\* dead-letter file itself and the generations before the last stay.
OnlyLastDropped ==
  [][\A n \in 0..RotateCount - 1 :
       dir[n] # None => \E m \in Names : dir'[m] = dir[n]]_dir

\* A process killed in the middle of a line damages that line and one more
\* at most, the one that is appended to it.
DamageBounded ==
  \A f \in Files : \A k \in DOMAIN data[f] :
    ~Parses(data[f][k]) =>
      Cardinality(data[f][k].has \ torn) <= 1
=============================================================================
