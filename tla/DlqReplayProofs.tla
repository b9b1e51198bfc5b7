-------------------------- MODULE DlqReplayProofs ---------------------------
(***************************************************************************)
(* Theorems about the dead-letter files and their replay, for any number   *)
(* of writers and of runs of the script, every size and number of rotated  *)
(* files, and every number of entries and of killed processes.             *)
(***************************************************************************)
EXTENDS DlqReplay, FiniteSetTheorems, SequenceTheorems, TLAPS

-----------------------------------------------------------------------------
(* The inductive invariant of the files *)

Lines == [has : SUBSET Nat, whole : BOOLEAN, ended : BOOLEAN]
Writing == [pc : {"idle", "shift", "open", "write", "sync"}, at : Nat,
            file : Nat \cup {None}]

FilesTyped ==
  /\ dir \in [Names -> Files \cup {None}] /\ data \in Seq(Seq(Lines))
  /\ lock \in Writers \cup {None} /\ writer \in [Writers -> Writing]
  /\ entries \in 0..MaxEntries /\ torn \subseteq Nat /\ deaths \in Nat

\* The entries of file f of the files, and those on lines that parse
Has(files, f) == UNION {files[f][k].has : k \in DOMAIN files[f]}
Clean(files, f) ==
  UNION {files[f][k].has : k \in {j \in DOMAIN files[f] :
                                    files[f][j].whole /\ files[f][j].ended}}

\* No two names lead to one file.
Distinct == \A a, b \in Names : a # b /\ dir[a] # None => dir[a] # dir[b]

\* A rotation leaves its next name free; the file to be written has room, and
\* no rotated one is written to.  Where a line is begun it is the last.
WriterSound(w) ==
  /\ ~At(w, "idle") => lock = w
  /\ At(w, "shift") \/ At(w, "open") \/ At(w, "write") => entries < MaxEntries
  /\ At(w, "shift") => /\ writer[w].at < RotateCount
                       /\ writer[w].at + 1 < RotateCount => dir[writer[w].at + 1] = None
  /\ At(w, "open") => dir[0] = None \/ Cardinality(Has(data, dir[0])) <= MaxSize
  /\ At(w, "write") => Cardinality(Has(data, writer[w].file)) <= MaxSize
  /\ At(w, "write") \/ At(w, "sync") =>
       writer[w].file \in Files /\ \A n \in 1..RotateCount : dir[n] # writer[w].file
  /\ At(w, "idle") \/ At(w, "shift") \/ At(w, "open") => writer[w].file = None
  /\ At(w, "sync") =>
       LET lines == data[writer[w].file] IN
       /\ writer[w].at = entries /\ lines # <<>> /\ ~lines[Len(lines)].ended
       /\ lines[Len(lines)].whole => lines[Len(lines)].has = {entries}

WritersSound == \A w \in Writers : WriterSound(w)

\* Somebody is writing the last line of the file
Unfinished(f) == \E w \in Writers : At(w, "sync") /\ writer[w].file = f

LineSound(f, k) ==
  /\ data[f][k].has \subseteq 1..entries
  /\ data[f][k].ended => data[f][k].has \subseteq 1..Complete
  /\ Cardinality(data[f][k].has \ torn) <= 1
  /\ ~data[f][k].ended => /\ k = Len(data[f])
                          /\ \/ data[f][k].has \subseteq torn
                             \/ Unfinished(f) /\ data[f][k].has \ torn \subseteq {entries}

LinesSound == \A f \in Files : \A k \in DOMAIN data[f] : LineSound(f, k)

SizesSound == \A f \in Files : Cardinality(Has(data, f)) <= MaxSize + 1

InOrder(names, files) ==
  \A a, b \in 0..RotateCount :
    a < b /\ names[a] # None /\ names[b] # None =>
      \A x \in Has(files, names[a]), y \in Has(files, names[b]) : x > y

FileInv ==
  /\ FilesTyped /\ Distinct /\ WritersSound /\ LinesSound
  /\ SizesSound /\ InOrder(dir, data)

-----------------------------------------------------------------------------
(* The inductive invariant of the replay *)

Reading == [pc : {"idle", "read", "send", "flushed", "raised", "done"},
            full : BOOLEAN, file : Nat \cup {None}, loaded : SUBSET Nat,
            upto : Nat, due : SUBSET Nat]

\* What a script has read are the entries complete by then; what its file got
\* later has higher numbers; what it has flushed is sent or has failed.
ScriptSound(r) ==
  /\ r.pc # "idle" => r.file \in Files
  /\ r.upto <= Complete /\ r.loaded \subseteq 1..r.upto /\ r.due \subseteq r.loaded
  /\ r.pc = "send" => r.due = r.loaded
  /\ r.pc = "flushed" => r.loaded \subseteq topic \cup failed
  /\ r.pc \in {"send", "flushed"} /\ r.full =>
       \A e \in Clean(data, r.file) : e \in r.loaded \/ e > r.upto

ReplayInv ==
  /\ script \in [Scripts -> Reading] /\ archived \in [Archives -> Nat]
  /\ topic \subseteq 1..entries /\ failed \subseteq 1..entries
  /\ \A n \in Archives : archived[n] <= Complete
  /\ \A s \in Scripts : ScriptSound(script[s])
  /\ \A n \in Archives : dir[n] # None =>
       \A e \in Clean(data, dir[n]) : e \in topic \/ e \in failed \/ e > archived[n]

-----------------------------------------------------------------------------
(* Lines *)

\* What is written goes to a line of its own, or to the last one if nobody
\* ended it.
LEMMA BegunFacts ==
  ASSUME NEW lines \in Seq(Lines), NEW e \in Nat, NEW result, result = Begun(lines, e)
  PROVE  /\ result \in Seq(Lines) /\ Len(result) \in Nat \ {0} /\ Len(lines) \in Nat
         /\ \A k \in 1..Len(lines) : k < Len(result) => result[k] = lines[k]
         /\ \/ /\ Len(result) = Len(lines) + 1 /\ result[Len(result)].has = {e}
               /\ Len(lines) # 0 => lines[Len(lines)].ended
            \/ /\ Len(result) = Len(lines) /\ ~lines[Len(lines)].ended
               /\ result[Len(result)].has = lines[Len(lines)].has \cup {e}
         /\ ~result[Len(result)].ended
         /\ result[Len(result)].whole => result[Len(result)].has = {e}
<1> DEFINE new == [has |-> {e}, whole |-> TRUE, ended |-> FALSE]
           last == lines[Len(lines)]
           more == [last EXCEPT !.has = @ \cup {e}, !.whole = FALSE]
<1>1. Len(lines) \in Nat /\ DOMAIN lines = 1..Len(lines)
  OBVIOUS
<1>2. CASE lines # <<>> /\ ~last.ended
  <2>1. Len(lines) \in DOMAIN lines /\ last \in Lines /\ Len(lines) # 0
    BY <1>1, <1>2
  <2>2. result = [lines EXCEPT ![Len(lines)] = more]
    BY <1>2, <2>1 DEF Begun, Last, Lines
  <2>3. more \in Lines
    BY <2>1 DEF Lines
  <2>4. more.has = last.has \cup {e} /\ ~more.whole /\ ~more.ended
    BY <1>2, <2>1 DEF Lines
  <2> HIDE DEF more
  <2>5. /\ result \in Seq(Lines) /\ Len(result) = Len(lines)
        /\ result[Len(lines)] = more
        /\ \A k \in 1..Len(lines) : k # Len(lines) => result[k] = lines[k]
    BY <1>1, <2>1, <2>2, <2>3
  <2>6. /\ Len(result) \in Nat \ {0}
        /\ \A k \in 1..Len(lines) : k < Len(result) => result[k] = lines[k]
    BY <1>1, <2>1, <2>2, <2>3, ExceptSeq
  <2>. QED BY <1>1, <1>2, <2>4, <2>5, <2>6, Zenon
<1>3. CASE ~(lines # <<>> /\ ~last.ended)
  <2>1. result = Append(lines, new)
    BY <1>3 DEF Begun, Last
  <2>2. new \in Lines
    BY DEF Lines
  <2>3. new.has = {e} /\ ~new.ended
    OBVIOUS
  <2> HIDE DEF new
  <2>4. /\ result \in Seq(Lines) /\ Len(result) = Len(lines) + 1
        /\ result[Len(lines) + 1] = new
        /\ \A k \in 1..Len(lines) : result[k] = lines[k]
    BY <2>1, <2>2, AppendProperties
  <2>5. Len(result) \in Nat \ {0} /\ \A k \in 1..Len(lines) : k < Len(result) => result[k] = lines[k]
    BY <1>1, <2>4
  <2>6. Len(lines) # 0 => last.ended
    BY <1>1, <1>3
  <2>. QED BY <1>1, <2>3, <2>4, <2>5, <2>6, Zenon
<1>. QED BY <1>2, <1>3

\* The entries on some lines.
Numbers(lines) == UNION {lines[k].has : k \in DOMAIN lines}

LEMMA SequenceDomain ==
  ASSUME NEW S, NEW s \in Seq(S)
  PROVE  Len(s) \in Nat /\ DOMAIN s = 1..Len(s)
OBVIOUS

\* Of the lines, only the last changes, and the file gains the entry.
LEMMA BegunLines ==
  ASSUME NEW lines \in Seq(Lines), NEW e \in Nat, NEW result, result = Begun(lines, e)
  PROVE  /\ \A k \in 1..Len(result) : k # Len(result) =>
              k \in 1..Len(lines) /\ result[k] = lines[k]
         /\ \A k \in 1..Len(lines) : k # Len(result) =>
              k \in 1..Len(result) /\ (k = Len(lines) => lines[k].ended)
         /\ Numbers(result) = Numbers(lines) \cup {e}
<1> DEFINE size == Len(lines)
           end == Len(result)
<1>1. /\ size \in Nat /\ end \in Nat \ {0}
      /\ \A k \in 1..size : k < end => result[k] = lines[k]
      /\ \/ end = size + 1 /\ result[end].has = {e} /\ (size # 0 => lines[size].ended)
         \/ end = size /\ result[end].has = lines[end].has \cup {e}
  BY BegunFacts
<1> HIDE DEF size, end
<1>2. ASSUME NEW k \in 1..end, k # end PROVE k \in 1..size /\ k < end
  BY <1>1, <1>2
<1>3. \A k \in 1..size : k # end => k \in 1..end /\ (k = size => lines[k].ended)
  BY <1>1
<1>4. \A k \in 1..end : k # end => k \in 1..size /\ result[k] = lines[k]
  BY <1>1, <1>2
<1>5. end \in 1..end /\ (end = size + 1 => end \notin 1..size)
  BY <1>1
<1> DEFINE after == UNION {result[k].has : k \in 1..end}
           before == UNION {lines[k].has : k \in 1..size}
<1>6. ASSUME NEW x \in after PROVE x \in before \cup {e}
  <2>1. PICK k \in 1..end : x \in result[k].has
    OBVIOUS
  <2>2. CASE k # end
    BY <1>4, <2>1, <2>2
  <2>3. CASE k = end
    BY <1>1, <1>5, <2>1, <2>3
  <2>. QED BY <2>2, <2>3
<1>7. ASSUME NEW x \in before PROVE x \in after
  <2>1. PICK k \in 1..size : x \in lines[k].has
    OBVIOUS
  <2>2. CASE k # end
    <3>1. k \in 1..end /\ result[k] = lines[k]
      BY <1>3, <1>4, <2>2
    <3>. QED BY <2>1, <3>1
  <2>3. CASE k = end
    BY <1>1, <1>5, <2>1, <2>3
  <2>. QED BY <2>2, <2>3
<1>8. e \in after
  <2>1. e \in result[end].has
    BY <1>1
  <2>. QED BY <1>5, <2>1
<1>9. after = before \cup {e}
  <2> HIDE DEF after, before
  <2>. QED BY <1>6, <1>7, <1>8
<1>10. Numbers(result) = after /\ Numbers(lines) = before
  <2>1. DOMAIN result = 1..end /\ DOMAIN lines = 1..size
    BY BegunFacts, SequenceDomain DEF size, end
  <2>. QED BY ONLY <2>1 DEF Numbers
<1> HIDE DEF after, before
<1>. QED BY <1>3, <1>4, <1>9, <1>10 DEF size, end

\* The newline ends the last line and changes no entry.
LEMMA EndedFacts ==
  ASSUME NEW lines \in Seq(Lines), lines # <<>>, NEW result, result = Ended(lines)
  PROVE  /\ result \in Seq(Lines) /\ Len(result) = Len(lines)
         /\ Len(lines) \in Nat \ {0}
         /\ \A k \in 1..Len(lines) : k # Len(lines) => result[k] = lines[k]
         /\ result[Len(lines)].has = lines[Len(lines)].has
         /\ result[Len(lines)].whole <=> lines[Len(lines)].whole
         /\ result[Len(lines)].ended
<1> DEFINE last == lines[Len(lines)]
           new == [last EXCEPT !.ended = TRUE]
<1>1. /\ Len(lines) \in Nat \ {0} /\ Len(lines) \in 1..Len(lines)
      /\ last \in Lines
  OBVIOUS
<1>2. result = [lines EXCEPT ![Len(lines)] = new]
  BY DEF Ended
<1>3. new \in Lines
  BY <1>1 DEF Lines
<1>4. new.has = last.has /\ new.ended /\ (new.whole <=> last.whole)
  BY <1>1 DEF Lines
<1> HIDE DEF new
<1>5. /\ result \in Seq(Lines) /\ Len(result) = Len(lines) /\ result[Len(lines)] = new
      /\ \A k \in 1..Len(lines) : k # Len(lines) => result[k] = lines[k]
  BY <1>1, <1>2, <1>3, ExceptSeq
<1>. QED BY <1>1, <1>4, <1>5, Zenon

\* The entries of a file are numbers of entries, finitely many.
LEMMA EntriesFacts ==
  ASSUME FilesTyped, LinesSound, NEW f \in Files
  PROVE  /\ Has(data, f) \subseteq 1..entries /\ IsFiniteSet(Has(data, f))
         /\ Cardinality(Has(data, f)) \in Nat /\ entries \in Nat
<1>1. Has(data, f) \subseteq 1..entries
  <2>1. ASSUME NEW k \in DOMAIN data[f] PROVE data[f][k].has \subseteq 1..entries
    BY <2>1 DEF LinesSound, LineSound
  <2>. QED BY <2>1 DEF Has
<1>2. IsFiniteSet(1..entries) /\ entries \in Nat
  BY FS_Interval DEF FilesTyped
<1>. QED BY <1>1, <1>2, FS_Subset, FS_CardinalityType

LEMMA SizeFacts ==
  \A f : EntriesOf(f) = Has(data, f) /\ Size(f) = Cardinality(Has(data, f))
BY DEF EntriesOf, Size, Has

-----------------------------------------------------------------------------
(* Names *)

LEMMA NameFacts ==
  /\ RotateCount \in Nat \ {0} /\ LastName \in Nat /\ MaxSize \in Nat
  /\ MaxEntries \in Nat /\ Names = 0..LastName
  /\ Archives \subseteq Names /\ 0..RotateCount \subseteq Names
  /\ \A n \in Archives : n \notin 0..RotateCount
BY DlqFileAssumption, DlqReplayAssumption DEF Names, Archives

\* A file gets the next name of the rotation, or that of an archive.
LEMMA RenamedFacts ==
  ASSUME FilesTyped, Distinct, InOrder(dir, data), NEW from \in 0..RotateCount - 1,
         NEW to, to = from + 1 \/ (from = 0 /\ to \in Archives), dir[from] # None,
         dir' = Renamed(from, to), data' = data
  PROVE  /\ to \in Names /\ from \in Names /\ to # from
         /\ dir' \in [Names -> Files \cup {None}]
         /\ dir'[to] = dir[from] /\ dir'[from] = None
         /\ \A n \in Names : n # to /\ n # from => dir'[n] = dir[n]
         /\ Distinct' /\ InOrder(dir', data')
<1>1. to \in Names /\ from \in Names /\ to # from /\ dir \in [Names -> Files \cup {None}]
  <2>1. from \in 0..RotateCount /\ from + 1 \in 0..RotateCount /\ from # from + 1
    BY NameFacts
  <2>2. from \in Names /\ from + 1 \in Names
    BY <2>1, NameFacts
  <2>3. to \in Archives => to \in Names /\ to # from
    BY <2>1, NameFacts
  <2>. QED BY <2>1, <2>2, <2>3 DEF FilesTyped
<1>2. /\ dir' \in [Names -> Files \cup {None}]
      /\ dir'[to] = dir[from] /\ dir'[from] = None
      /\ \A n \in Names : n # to /\ n # from => dir'[n] = dir[n]
  BY <1>1 DEF Renamed
<1>3. Distinct'
  BY <1>1, <1>2 DEF Distinct, Names
<1>4. InOrder(dir', data')
  <2> SUFFICES ASSUME NEW a \in 0..RotateCount, NEW b \in 0..RotateCount, a < b,
                      dir'[a] # None, dir'[b] # None,
                      NEW x \in Has(data, dir'[a]), NEW y \in Has(data, dir'[b])
               PROVE  x > y
    BY DEF InOrder
  <2>1. a # from /\ b # from /\ a \in Names /\ b \in Names
    BY <1>2, NameFacts
  <2>2. CASE a # to /\ b # to
    BY <1>2, <2>1, <2>2 DEF InOrder
  <2>3. CASE b = to
    <3>1. a < from /\ dir'[b] = dir[from] /\ dir'[a] = dir[a] /\ from \in 0..RotateCount
      BY <1>2, <2>1, <2>3, NameFacts
    <3>. QED BY <3>1 DEF InOrder
  <2>4. CASE a = to
    <3>1. from < b /\ dir'[a] = dir[from] /\ dir'[b] = dir[b] /\ from \in 0..RotateCount
      BY <1>2, <2>1, <2>4, NameFacts
    <3>. QED BY <3>1 DEF InOrder
  <2>. QED BY <2>2, <2>3, <2>4
<1>. QED BY <1>1, <1>2, <1>3, <1>4

-----------------------------------------------------------------------------
(* Writers *)

\* Whoever holds the lock, the others are idle.
LEMMA OthersIdle ==
  ASSUME FilesTyped, WritersSound, NEW w \in Writers, lock \in {w, None},
         writer' = [writer EXCEPT ![w] = writer'[w]]
  PROVE  \A v \in Writers : v # w => /\ writer'[v] = writer[v]
                                     /\ writer[v].pc = "idle"
BY DlqFileAssumption DEF FilesTyped, WritersSound, WriterSound, At

\* Steps that write nothing leave lines and sizes as they are.
LEMMA LinesKept ==
  ASSUME LinesSound, SizesSound, data' = data, entries' = entries, torn' = torn,
         \A w \in Writers : /\ At(w, "sync")' <=> At(w, "sync")
                            /\ At(w, "sync") => writer'[w].file = writer[w].file
  PROVE  LinesSound' /\ SizesSound' /\ Complete' = Complete
<1>1. Complete' = Complete
  BY DEF Complete
<1>2. \A f : Unfinished(f)' <=> Unfinished(f)
  BY DEF Unfinished
<1>3. LinesSound'
  BY <1>1, <1>2 DEF LinesSound, LineSound, Files
<1>. QED BY <1>1, <1>3 DEF SizesSound, Files

\* A step of one writer leaves the others idle.
LEMMA OneWriter ==
  ASSUME FilesTyped, WritersSound, NEW w \in Writers, lock \in {w, None},
         writer' = [writer EXCEPT ![w] = writer'[w]], writer'[w] \in Writing,
         WriterSound(w)'
  PROVE  writer' \in [Writers -> Writing] /\ WritersSound'
<1>1. writer' \in [Writers -> Writing]
  BY DEF FilesTyped
<1>2. ASSUME NEW v \in Writers, v # w PROVE WriterSound(v)'
  <2>1. writer'[v].pc = "idle" /\ writer'[v].file = None
    BY <1>2, OthersIdle DEF WritersSound, WriterSound, At
  <2>. QED BY <2>1 DEF WriterSound, At
<1>. QED BY <1>1, <1>2 DEF WritersSound

LEMMA WriterSteps ==
  ASSUME FilesTyped, WritersSound, NEW w \in Writers, NEW pc \in {"shift", "open", "write"},
         Goto(w, pc)
  PROVE  /\ writer' = [writer EXCEPT ![w] = writer'[w]] /\ writer'[w] \in Writing
         /\ writer'[w].pc = pc /\ writer'[w].at = writer[w].at
         /\ writer'[w].file = writer[w].file
<1> DEFINE new == [writer[w] EXCEPT !.pc = pc]
<1>1. writer \in [Writers -> Writing] /\ writer[w] \in Writing
  BY DEF FilesTyped
<1>2. writer' = [writer EXCEPT ![w] = new]
  BY DEF Goto
<1>3. /\ new \in Writing /\ new.pc = pc /\ new.at = writer[w].at
      /\ new.file = writer[w].file
  BY <1>1 DEF Writing
<1> HIDE DEF new
<1>. QED BY <1>1, <1>2, <1>3

LEMMA LockStep ==
  ASSUME FileInv, NEW w \in Writers, Lock(w)
  PROVE  FileInv'
<1> DEFINE pc == IF dir[0] # None /\ Large(dir[0]) THEN "shift" ELSE "open"
           new == [writer[w] EXCEPT !.pc = pc, !.at = RotateCount - 1]
<1>1. /\ writer[w].pc = "idle" /\ lock = None /\ entries < MaxEntries /\ lock' = w
      /\ dir' = dir /\ data' = data /\ entries' = entries /\ torn' = torn
      /\ deaths' = deaths
  BY DEF Lock, At, Free
<1>2. writer' = [writer EXCEPT ![w] = new]
  BY DEF Lock
<1>3. /\ writer \in [Writers -> Writing] /\ writer[w] \in Writing
      /\ RotateCount - 1 \in Nat /\ pc \in {"shift", "open"} /\ writer[w].file = None
  BY <1>1, NameFacts DEF FileInv, FilesTyped, WritersSound, WriterSound, At
<1>4. pc = "open" => dir[0] = None \/ Cardinality(Has(data, dir[0])) <= MaxSize
  <2>1. dir[0] \in Files \cup {None}
    BY NameFacts DEF FileInv, FilesTyped
  <2>2. ASSUME dir[0] \in Files, ~Large(dir[0])
        PROVE  Cardinality(Has(data, dir[0])) <= MaxSize
    BY <2>2, EntriesFacts, SizeFacts, NameFacts DEF FileInv, Large
  <2>. QED BY <2>1, <2>2
<1> HIDE DEF pc
<1>5. new \in Writing /\ new.pc = pc /\ new.at = RotateCount - 1 /\ new.file = None
  BY <1>3 DEF Writing
<1> HIDE DEF new
<1>6. writer'[w] = new /\ writer' = [writer EXCEPT ![w] = writer'[w]]
  BY <1>2, <1>3
<1>7. WriterSound(w)'
  BY <1>1, <1>3, <1>4, <1>5, <1>6, NameFacts DEF WriterSound, At
<1>8. writer' \in [Writers -> Writing] /\ WritersSound'
  BY <1>1, <1>5, <1>6, <1>7, OneWriter DEF FileInv
<1>9. \A v \in Writers : /\ At(v, "sync")' <=> At(v, "sync")
                         /\ At(v, "sync") => writer'[v].file = writer[v].file
  BY <1>1, <1>3, <1>5, <1>6, OthersIdle DEF FileInv, At
<1>10. LinesSound' /\ SizesSound'
  BY <1>1, <1>9, LinesKept DEF FileInv
<1>11. FilesTyped'
  BY <1>1, <1>8 DEF FileInv, FilesTyped, Files
<1>. QED BY <1>1, <1>8, <1>10, <1>11 DEF FileInv, Distinct

LEMMA ShiftStep ==
  ASSUME FileInv, NEW w \in Writers, Shift(w)
  PROVE  FileInv'
<1> DEFINE at == writer[w].at
           new == [writer[w] EXCEPT !.at = @ - 1]
<1>1. /\ writer[w].pc = "shift" /\ at > 0
      /\ lock' = lock /\ data' = data /\ entries' = entries /\ torn' = torn
      /\ deaths' = deaths
      /\ dir' = IF dir[at] = None THEN dir ELSE Renamed(at, at + 1)
  BY DEF Shift, At, Above
<1>2. writer' = [writer EXCEPT ![w] = new]
  BY DEF Shift
<1>3. /\ writer \in [Writers -> Writing] /\ writer[w] \in Writing /\ at \in Nat
      /\ lock = w /\ entries < MaxEntries /\ at < RotateCount /\ writer[w].file = None
      /\ at + 1 < RotateCount => dir[at + 1] = None
  BY <1>1 DEF FileInv, FilesTyped, WritersSound, WriterSound, At, Writing
<1>4. new \in Writing /\ new.pc = "shift" /\ new.at = at - 1 /\ new.file = None
  BY <1>1, <1>3 DEF Writing
<1> HIDE DEF new
<1>5. writer'[w] = new /\ writer' = [writer EXCEPT ![w] = writer'[w]]
  BY <1>2, <1>3
<1> HIDE DEF at
<1>6. /\ dir' \in [Names -> Files \cup {None}] /\ Distinct' /\ InOrder(dir', data')
      /\ dir'[at] = None
  <2>1. CASE dir[at] = None
    <3>1. dir' = dir
      BY <1>1, <2>1
    <3>. QED BY <1>1, <2>1, <3>1 DEF FileInv, FilesTyped, Distinct
  <2>2. CASE dir[at] # None
    <3>1. dir' = Renamed(at, at + 1) /\ at \in 0..RotateCount - 1
      BY <1>1, <1>3, <2>2, NameFacts
    <3>. QED BY <1>1, <2>2, <3>1, RenamedFacts DEF FileInv
  <2>. QED BY <2>1, <2>2
<1>7. WriterSound(w)'
  <2>1. new.at + 1 = at /\ new.at < RotateCount
    BY <1>1, <1>3, <1>4, NameFacts
  <2>. QED BY <1>1, <1>3, <1>4, <1>5, <1>6, <2>1 DEF WriterSound, At
<1>8. writer' \in [Writers -> Writing] /\ WritersSound'
  BY <1>3, <1>4, <1>5, <1>7, OneWriter DEF FileInv
<1>9. \A v \in Writers : /\ At(v, "sync")' <=> At(v, "sync")
                         /\ At(v, "sync") => writer'[v].file = writer[v].file
  BY <1>1, <1>3, <1>4, <1>5, OthersIdle DEF FileInv, At
<1>10. LinesSound' /\ SizesSound'
  BY <1>1, <1>9, LinesKept DEF FileInv
<1>11. FilesTyped'
  BY <1>1, <1>6, <1>8 DEF FileInv, FilesTyped, Files
<1>. QED BY <1>6, <1>8, <1>10, <1>11 DEF FileInv

LEMMA MoveStep ==
  ASSUME FileInv, NEW w \in Writers, Move(w)
  PROVE  FileInv'
<1>1. /\ writer[w].pc = "shift" /\ ~(writer[w].at > 0) /\ Goto(w, "open")
      /\ lock' = lock /\ data' = data /\ entries' = entries /\ torn' = torn
      /\ deaths' = deaths
      /\ dir' = IF dir[0] = None THEN dir ELSE Renamed(0, 1)
  BY DEF Move, At, Above
<1>2. lock = w /\ entries < MaxEntries /\ writer[w].file = None
  BY <1>1 DEF FileInv, WritersSound, WriterSound, At
<1>3. /\ writer' = [writer EXCEPT ![w] = writer'[w]] /\ writer'[w] \in Writing
      /\ writer'[w].pc = "open" /\ writer'[w].file = None
  BY <1>1, <1>2, WriterSteps DEF FileInv
<1>4. /\ dir' \in [Names -> Files \cup {None}] /\ Distinct' /\ InOrder(dir', data')
      /\ dir'[0] = None
  <2>1. CASE dir[0] = None
    <3>1. dir' = dir
      BY <1>1, <2>1
    <3>. QED BY <1>1, <2>1, <3>1 DEF FileInv, FilesTyped, Distinct
  <2>2. CASE dir[0] # None
    <3>1. dir' = Renamed(0, 1) /\ 0 \in 0..RotateCount - 1 /\ 1 = 0 + 1
      BY <1>1, <2>2, NameFacts
    <3>. QED BY <1>1, <2>2, <3>1, RenamedFacts DEF FileInv
  <2>. QED BY <2>1, <2>2
<1>5. WriterSound(w)'
  BY <1>1, <1>2, <1>3, <1>4 DEF WriterSound, At
<1>6. writer' \in [Writers -> Writing] /\ WritersSound'
  BY <1>2, <1>3, <1>5, OneWriter DEF FileInv
<1>7. \A v \in Writers : /\ At(v, "sync")' <=> At(v, "sync")
                         /\ At(v, "sync") => writer'[v].file = writer[v].file
  BY <1>1, <1>2, <1>3, OthersIdle DEF FileInv, At
<1>8. LinesSound' /\ SizesSound'
  BY <1>1, <1>7, LinesKept DEF FileInv
<1>9. FilesTyped'
  BY <1>1, <1>4, <1>6 DEF FileInv, FilesTyped, Files
<1>. QED BY <1>4, <1>6, <1>8, <1>9 DEF FileInv

LEMMA OpenStep ==
  ASSUME FileInv, NEW w \in Writers, Open(w)
  PROVE  FileInv'
<1>1. /\ writer[w].pc = "open" /\ lock' = lock /\ entries' = entries /\ torn' = torn
      /\ deaths' = deaths
      /\ dir' = IF dir[0] = None THEN [dir EXCEPT ![0] = Len(data) + 1] ELSE dir
      /\ data' = IF dir[0] = None THEN Append(data, <<>>) ELSE data
  BY DEF Open, At
<1>2. /\ writer \in [Writers -> Writing] /\ writer[w] \in Writing
      /\ lock = w /\ entries < MaxEntries
      /\ dir[0] = None \/ Cardinality(Has(data, dir[0])) <= MaxSize
  BY <1>1 DEF FileInv, FilesTyped, WritersSound, WriterSound, At
<1>3. /\ dir \in [Names -> Files \cup {None}] /\ data \in Seq(Seq(Lines))
      /\ Files = 1..Len(data) /\ Len(data) \in Nat /\ 0 \in Names /\ None \notin Nat
  BY NameFacts, DlqFileAssumption DEF FileInv, FilesTyped, Files
<1> DEFINE file == IF dir[0] = None THEN Len(data) + 1 ELSE dir[0]
           new == [writer[w] EXCEPT !.pc = "write", !.file = file]
<1>4. file \in Nat /\ dir'[0] = file
  BY <1>1, <1>3
<1>5. writer' = [writer EXCEPT ![w] = new]
  BY <1>4 DEF Open
<1> HIDE DEF file
<1>6. new \in Writing /\ new.pc = "write" /\ new.file = file
  BY <1>2, <1>4 DEF Writing
<1> HIDE DEF new
<1>7. writer'[w] = new /\ writer' = [writer EXCEPT ![w] = writer'[w]]
  BY <1>2, <1>5
<1>8. \A v \in Writers : ~At(v, "sync") /\ ~At(v, "sync")'
  BY <1>1, <1>2, <1>6, <1>7, OthersIdle DEF FileInv, At
<1>9. /\ data' \in Seq(Seq(Lines)) /\ Files \subseteq Files' /\ file \in Files'
      /\ \A f \in Files : data'[f] = data[f]
      /\ Files' = Files \cup {file}
      /\ file \notin Files => data'[file] = <<>> /\ dir[0] = None
      /\ dir[0] # None => file = dir[0] /\ dir' = dir
  <2>1. CASE dir[0] = None
    <3>1. data' = Append(data, <<>>) /\ file = Len(data) + 1 /\ <<>> \in Seq(Lines)
      BY <1>1, <2>1 DEF file
    <3>2. /\ data' \in Seq(Seq(Lines)) /\ Len(data') = Len(data) + 1
          /\ \A f \in 1..Len(data) : data'[f] = data[f]
          /\ data'[Len(data) + 1] = <<>>
      BY <1>3, <3>1, AppendProperties
    <3>3. Files' = 1..Len(data) + 1
      BY <3>2 DEF Files
    <3>. QED BY <1>3, <2>1, <3>1, <3>2, <3>3
  <2>2. CASE dir[0] # None
    BY <1>1, <1>3, <2>2 DEF file, Files
  <2>. QED BY <2>1, <2>2
<1>10. /\ \A n \in Names : n # 0 => dir'[n] = dir[n]
       /\ dir' \in [Names -> Files' \cup {None}]
  BY <1>1, <1>3, <1>4, <1>9
<1>11. \A f \in Files : Has(data', f) = Has(data, f)
  BY <1>9 DEF Has
<1>12. file \notin Files => Has(data', file) = {}
  BY <1>9 DEF Has
<1>13. Cardinality(Has(data', file)) <= MaxSize
  <2>1. CASE file \in Files
    BY <1>2, <1>3, <1>9, <1>11, <2>1 DEF file
  <2>2. CASE file \notin Files
    BY <1>12, <2>2, FS_EmptySet, NameFacts
  <2>. QED BY <2>1, <2>2
<1>14. Distinct'
  <2>1. ASSUME NEW n \in Names, n # 0 PROVE dir'[n] # file
    <3>1. dir'[n] = dir[n] /\ dir[n] \in Files \cup {None}
      BY <1>3, <1>10, <2>1
    <3>2. CASE dir[0] = None
      BY <1>3, <3>1, <3>2 DEF file
    <3>3. CASE dir[0] # None
      <4>1. dir[0] # dir[n]
        BY <1>3, <2>1, <3>3 DEF FileInv, Distinct
      <4>. QED BY <3>1, <3>3, <4>1 DEF file
    <3>. QED BY <3>2, <3>3
  <2>. QED BY <1>4, <1>10, <2>1 DEF FileInv, Distinct, Names
<1>15. WriterSound(w)'
  <2>1. ASSUME NEW n \in 1..RotateCount PROVE dir'[n] # file
    <3>1. n \in Names /\ n # 0 /\ 0 \in Names /\ file # None
      BY <1>3, <1>4, NameFacts
    <3>. QED BY <1>4, <1>14, <3>1 DEF Distinct, Names
  <2>. QED BY <1>1, <1>2, <1>6, <1>7, <1>9, <1>13, <2>1 DEF WriterSound, At
<1>16. writer' \in [Writers -> Writing] /\ WritersSound'
  BY <1>2, <1>6, <1>7, <1>15, OneWriter DEF FileInv
<1>17. LinesSound'
  <2>1. Complete' = entries /\ Complete = entries
    BY <1>1, <1>8 DEF Complete
  <2>2. ASSUME NEW f \in Files', NEW k \in DOMAIN data'[f] PROVE LineSound(f, k)'
    <3>1. DOMAIN <<>> = {}
      OBVIOUS
    <3>2. f \in Files /\ data'[f] = data[f]
      BY <1>9, <2>2, <3>1
    <3>3. LineSound(f, k) /\ ~Unfinished(f)
      BY <1>8, <2>2, <3>2 DEF FileInv, LinesSound, Unfinished
    <3>. QED BY <1>1, <2>1, <3>2, <3>3 DEF LineSound
  <2>. QED BY <2>2 DEF LinesSound
<1>18. SizesSound'
  <2>1. ASSUME NEW f \in Files PROVE Cardinality(Has(data', f)) <= MaxSize + 1
    BY <1>11 DEF FileInv, SizesSound
  <2>2. Cardinality(Has(data', file)) <= MaxSize + 1
    <3>1. file \notin Files => Cardinality(Has(data', file)) = 0
      BY <1>12, FS_EmptySet
    <3>. QED BY <2>1, <3>1, NameFacts
  <2>. QED BY <1>9, <2>1, <2>2 DEF SizesSound
<1>19. InOrder(dir', data')
  <2> SUFFICES ASSUME NEW a \in 0..RotateCount, NEW b \in 0..RotateCount, a < b,
                      dir'[a] # None, dir'[b] # None,
                      NEW x \in Has(data', dir'[a]), NEW y \in Has(data', dir'[b])
               PROVE  x > y
    BY DEF InOrder
  <2>1. b \in Names /\ b # 0 /\ a \in Names
    BY NameFacts
  <2>2. dir'[b] = dir[b] /\ dir[b] \in Files
    BY <1>3, <1>10, <2>1
  <2>3. dir'[a] = dir[a] /\ dir[a] \in Files
    <3>1. CASE a # 0
      BY <1>3, <1>10, <2>1, <3>1
    <3>2. CASE a = 0
      <4>1. file \in Files
        BY <1>4, <1>12, <3>2
      <4>. QED BY <1>3, <1>4, <1>9, <3>2, <4>1 DEF file
    <3>. QED BY <3>1, <3>2
  <2>. QED BY <1>11, <2>2, <2>3 DEF FileInv, InOrder
<1>20. FilesTyped'
  BY <1>1, <1>9, <1>10, <1>16 DEF FileInv, FilesTyped
<1>. QED BY <1>14, <1>16, <1>17, <1>18, <1>19, <1>20 DEF FileInv

\* What a step of the writer does to the files it does not write to
LEMMA OtherFiles ==
  ASSUME FilesTyped, NEW f \in Files, NEW lines \in Seq(Lines),
         data' = [data EXCEPT ![f] = lines]
  PROVE  /\ data' \in Seq(Seq(Lines)) /\ Files' = Files /\ data'[f] = lines
         /\ \A g \in Files : g # f => data'[g] = data[g] /\ Has(data', g) = Has(data, g)
<1>1. data \in Seq(Seq(Lines)) /\ f \in 1..Len(data) /\ DOMAIN data = 1..Len(data)
  BY DEF FilesTyped, Files
<1>2. /\ data' \in Seq(Seq(Lines)) /\ Len(data') = Len(data)
      /\ \A g \in 1..Len(data) : data'[g] = IF g = f THEN lines ELSE data[g]
  BY <1>1, ExceptSeq
<1>3. DOMAIN data' = 1..Len(data')
  BY <1>2
<1>. QED BY <1>1, <1>2, <1>3 DEF Files, Has

LEMMA WriteStep ==
  ASSUME FileInv, NEW w \in Writers, Write(w),
         NEW file, file = writer[w].file, NEW e, e = entries + 1
  PROVE  FileInv' /\ Complete' = Complete /\ Complete = entries
         /\ \A f \in Files : Clean(data', f) = Clean(data, f)
<1> DEFINE lines == data[file]
           end == Len(data'[file])
           new == [writer[w] EXCEPT !.pc = "sync", !.at = e]
<1>1. /\ writer[w].pc = "write" /\ entries' = e /\ dir' = dir /\ lock' = lock
      /\ torn' = torn /\ deaths' = deaths /\ data' = [data EXCEPT ![file] = Begun(lines, e)]
  BY DEF Write, At
<1>2. writer' = [writer EXCEPT ![w] = new]
  BY <1>1 DEF Write
<1>3. /\ writer \in [Writers -> Writing] /\ writer[w] \in Writing /\ lock = w
      /\ entries < MaxEntries /\ Cardinality(Has(data, file)) <= MaxSize /\ file \in Files
      /\ \A n \in 1..RotateCount : dir[n] # file
  BY <1>1 DEF FileInv, FilesTyped, WritersSound, WriterSound, At
<1>4. /\ entries \in Nat /\ e \in Nat /\ e \in 0..MaxEntries /\ e \notin 1..entries
      /\ lines \in Seq(Lines)
  BY <1>3, NameFacts DEF FileInv, FilesTyped, Files
<1>5. new \in Writing /\ new.pc = "sync" /\ new.at = e /\ new.file = file
  BY <1>3, <1>4 DEF Writing
<1> HIDE DEF new
<1>6. writer'[w] = new /\ writer' = [writer EXCEPT ![w] = writer'[w]]
  BY <1>2, <1>3
<1>7. \A v \in Writers : ~At(v, "sync") /\ (v # w => ~At(v, "sync")')
  BY <1>1, <1>3, <1>6, OthersIdle DEF FileInv, At
<1>8. Complete = entries /\ Complete' = entries
  <2>1. At(w, "sync")'
    BY <1>5, <1>6 DEF At
  <2>. QED BY <1>1, <1>4, <1>7, <2>1 DEF Complete
<1>9. /\ Begun(lines, e) \in Seq(Lines) /\ Len(Begun(lines, e)) \in Nat
  BY <1>4, BegunFacts
<1>10. /\ data' \in Seq(Seq(Lines)) /\ Files' = Files /\ data'[file] = Begun(lines, e)
       /\ \A g \in Files : g # file => data'[g] = data[g] /\ Has(data', g) = Has(data, g)
  BY <1>1, <1>3, <1>9, OtherFiles DEF FileInv
<1>11. /\ data'[file] \in Seq(Lines) /\ end \in Nat \ {0} /\ Len(lines) \in Nat
       /\ \A k \in 1..Len(lines) : k < end => data'[file][k] = lines[k]
       /\ \/ /\ end = Len(lines) + 1 /\ data'[file][end].has = {e}
             /\ Len(lines) # 0 => lines[Len(lines)].ended
          \/ /\ end = Len(lines) /\ ~lines[end].ended
             /\ data'[file][end].has = lines[end].has \cup {e}
       /\ ~data'[file][end].ended
       /\ data'[file][end].whole => data'[file][end].has = {e}
  <2>1. lines \in Seq(Lines) /\ e \in Nat /\ data'[file] = Begun(lines, e)
    BY <1>4, <1>10
  <2> HIDE DEF lines
  <2>. QED BY ONLY <2>1, BegunFacts
<1>12. DOMAIN lines = 1..Len(lines) /\ DOMAIN data'[file] = 1..end
  BY ONLY <1>4, <1>11, SequenceDomain, Zenon
<1>13. /\ \A k \in 1..end : k # end => k \in 1..Len(lines) /\ data'[file][k] = lines[k]
       /\ \A k \in 1..Len(lines) : k # end =>
            k \in 1..end /\ (k = Len(lines) => lines[k].ended)
       /\ Numbers(data'[file]) = Numbers(lines) \cup {e}
  <2>1. lines \in Seq(Lines) /\ e \in Nat /\ data'[file] = Begun(lines, e)
    BY <1>4, <1>10
  <2> HIDE DEF lines
  <2>. QED BY ONLY <2>1, BegunLines
<1> HIDE DEF end
<1>14. Has(data', file) = Has(data, file) \cup {e}
  <2>1. Has(data', file) = Numbers(data'[file]) /\ Has(data, file) = Numbers(lines)
    BY Zenon DEF Has, Numbers
  <2> HIDE DEF lines
  <2>. QED BY ONLY <1>13, <2>1
<1>15. Has(data, file) \subseteq 1..entries /\ IsFiniteSet(Has(data, file))
       /\ Cardinality(Has(data, file)) \in Nat
  BY <1>3, EntriesFacts DEF FileInv
<1>16. SizesSound'
  <2>1. Cardinality(Has(data', file)) = Cardinality(Has(data, file)) + 1
    <3>1. e \notin Has(data, file)
      BY <1>4, <1>15
    <3> DEFINE had == Has(data, file)
    <3>2. Cardinality(had \cup {e}) = Cardinality(had) + 1
      <4> HIDE DEF had
      <4>1. IsFiniteSet(had) /\ e \notin had
        BY <1>15, <3>1 DEF had
      <4>. QED BY ONLY <4>1, FS_AddElement, Zenon
    <3>. QED BY <1>14, <3>2
  <2>2. Cardinality(Has(data', file)) <= MaxSize + 1
    BY <1>3, <1>15, <2>1, NameFacts
  <2>. QED BY <1>10, <2>2 DEF FileInv, SizesSound
<1>17. WriterSound(w)'
  <2>1. data'[file] # <<>>
    BY <1>11, <1>12 DEF end
  <2>2. data'[file][Len(data'[file])].whole => data'[file][Len(data'[file])].has = {e}
    BY <1>11 DEF end
  <2>3. ~data'[file][Len(data'[file])].ended
    BY <1>11 DEF end
  <2>. QED BY <1>1, <1>3, <1>5, <1>6, <1>10, <2>1, <2>2, <2>3 DEF WriterSound, At
<1>18. writer' \in [Writers -> Writing] /\ WritersSound'
  BY <1>3, <1>5, <1>6, <1>17, OneWriter DEF FileInv
<1>19. InOrder(dir', data')
  <2> SUFFICES ASSUME NEW a \in 0..RotateCount, NEW b \in 0..RotateCount, a < b,
                      dir[a] # None, dir[b] # None,
                      NEW x \in Has(data', dir[a]), NEW y \in Has(data', dir[b])
               PROVE  x > y
    BY <1>1 DEF InOrder
  <2>1. a \in Names /\ b \in Names /\ b \in 1..RotateCount
    BY NameFacts
  <2>2. dir[a] \in Files /\ dir[b] \in Files /\ dir[b] # file
    BY <1>3, <2>1 DEF FileInv, FilesTyped
  <2>3. y \in Has(data, dir[b])
    BY <1>10, <2>2
  <2>4. y \in 1..entries
    BY <2>2, <2>3, EntriesFacts DEF FileInv
  <2>5. CASE x \in Has(data, dir[a])
    BY <2>3, <2>5 DEF FileInv, InOrder
  <2>6. CASE x \notin Has(data, dir[a])
    <3>1. x = e
      BY <1>10, <1>14, <2>2, <2>6
    <3>. QED BY <1>4, <2>4, <3>1
  <2>. QED BY <2>5, <2>6
<1>20. Unfinished(file)' /\ \A f : ~Unfinished(f)
  <2>1. At(w, "sync")' /\ writer'[w].file = file
    BY <1>5, <1>6 DEF At
  <2>2. Unfinished(file)'
    BY <2>1 DEF Unfinished
  <2>3. \A f : ~Unfinished(f)
    BY <1>7 DEF Unfinished
  <2>. QED BY <2>2, <2>3
<1>21. ASSUME NEW k \in 1..end PROVE LineSound(file, k)'
  <2>1. CASE k # end
    <3>1. k \in DOMAIN lines /\ data'[file][k] = lines[k]
      BY <1>12, <1>13, <2>1
    <3>2. LineSound(file, k)
      BY <1>3, <3>1 DEF FileInv, LinesSound
    <3>3. lines[k].ended
      <4>1. CASE k = Len(lines)
        BY <1>12, <1>13, <2>1, <3>1, <4>1
      <4>2. CASE k # Len(lines)
        BY <3>2, <4>2 DEF LineSound
      <4>. QED BY <4>1, <4>2
    <3>4. /\ lines[k].has \subseteq 1..Complete /\ lines[k].has \subseteq 1..entries
          /\ Cardinality(lines[k].has \ torn) <= 1
      BY <3>2, <3>3 DEF LineSound
    <3>5. lines[k].has \subseteq 1..entries' /\ lines[k].has \subseteq 1..Complete'
      BY <1>1, <1>4, <1>8, <3>4
    <3>. QED BY <1>1, <3>1, <3>3, <3>4, <3>5 DEF LineSound
  <2>2. CASE k = end
    <3>1. data'[file][k].has \subseteq 1..entries'
          /\ data'[file][k].has \ torn' \subseteq {e}
      <4>1. CASE data'[file][end].has = {e}
        BY <1>1, <1>4, <2>2, <4>1
      <4>2. CASE /\ end = Len(lines) /\ ~lines[end].ended
                 /\ data'[file][end].has = lines[end].has \cup {e}
        <5>1. end \in DOMAIN lines
          <6>1. end \in Nat \ {0}
            BY <1>11
          <6> HIDE DEF lines
          <6>. QED BY ONLY <1>12, <4>2, <6>1
        <5>2. LineSound(file, end)
          BY <1>3, <5>1 DEF FileInv, LinesSound
        <5>3. lines[end].has \subseteq torn /\ lines[end].has \subseteq 1..entries
          BY <1>20, <4>2, <5>2 DEF LineSound
        <5>. QED BY <1>1, <1>4, <2>2, <4>2, <5>3
      <4>. QED BY <1>11, <4>1, <4>2
    <3>2. Cardinality(data'[file][k].has \ torn') <= 1
      <4>1. IsFiniteSet({e}) /\ Cardinality({e}) = 1
        BY FS_Singleton
      <4>. QED BY <3>1, <4>1, FS_Subset
    <3>3. ~data'[file][k].ended /\ k = Len(data'[file])
      BY <1>11, <2>2 DEF end
    <3>4. entries' = e
      BY <1>1
    <3>. QED BY <1>20, <3>1, <3>2, <3>3, <3>4 DEF LineSound
  <2>. QED BY <2>1, <2>2
<1>22. ASSUME NEW f \in Files, f # file, NEW k \in DOMAIN data[f] PROVE LineSound(f, k)'
  <2>1. LineSound(f, k) /\ data'[f] = data[f]
    BY <1>10, <1>22 DEF FileInv, LinesSound
  <2>2. /\ data[f][k].has \subseteq 1..entries /\ Cardinality(data[f][k].has \ torn) <= 1
        /\ ~data[f][k].ended => k = Len(data[f]) /\ data[f][k].has \subseteq torn
    BY <1>20, <2>1 DEF LineSound
  <2>3. data[f][k].has \subseteq 1..entries' /\ data[f][k].has \subseteq 1..Complete'
    BY <1>1, <1>4, <1>8, <2>2
  <2>. QED BY <1>1, <2>1, <2>2, <2>3 DEF LineSound
<1>23. LinesSound'
  <2>1. ASSUME NEW f \in Files', NEW k \in DOMAIN data'[f] PROVE LineSound(f, k)'
    <3>1. CASE f = file
      BY <1>12, <1>21, <2>1, <3>1
    <3>2. CASE f # file
      <4>1. f \in Files /\ data'[f] = data[f]
        BY <1>10, <2>1, <3>2
      <4>. QED BY <1>22, <2>1, <3>2, <4>1
    <3>. QED BY <3>1, <3>2
  <2>. QED BY <2>1 DEF LinesSound
<1>24. ASSUME NEW f \in Files PROVE Clean(data', f) = Clean(data, f)
  <2>1. CASE f # file
    BY <1>10, <2>1 DEF Clean
  <2>2. \A k \in 1..Len(lines) :
          lines[k].whole /\ lines[k].ended => k \in 1..end /\ data'[file][k] = lines[k]
    <3>1. \A k \in 1..Len(lines) : k = end => ~lines[k].ended \/ k \notin 1..Len(lines)
      <4> HIDE DEF lines
      <4>. QED BY ONLY <1>11
    <3>. QED BY <1>13, <3>1
  <2>3. \A k \in 1..end : data'[file][k].ended =>
          k \in 1..Len(lines) /\ data'[file][k] = lines[k]
    BY <1>11, <1>13
  <2>4. Clean(data', file) = Clean(data, file)
    <3>1. \A k \in 1..Len(lines) : data[file][k].whole /\ data[file][k].ended
            => k \in 1..end /\ data'[file][k] = data[file][k]
      BY ONLY <2>2
    <3>2. \A k \in 1..end : data'[file][k].ended
            => k \in 1..Len(lines) /\ data'[file][k] = data[file][k]
      BY ONLY <2>3
    <3>3. DOMAIN data[file] = 1..Len(lines) /\ DOMAIN data'[file] = 1..end
      BY ONLY <1>12
    <3> HIDE DEF lines, end
    <3>4. Clean(data', file) \subseteq Clean(data, file)
      BY ONLY <3>2, <3>3 DEF Clean
    <3>5. Clean(data, file) \subseteq Clean(data', file)
      BY ONLY <3>1, <3>3 DEF Clean
    <3>. QED BY <3>4, <3>5
  <2>. QED BY <2>1, <2>4
<1>25. FilesTyped' /\ Distinct'
  BY <1>1, <1>4, <1>10, <1>18 DEF FileInv, FilesTyped, Distinct
<1>. QED BY <1>8, <1>16, <1>18, <1>19, <1>23, <1>24, <1>25 DEF FileInv
LEMMA SyncStep ==
  ASSUME FileInv, NEW w \in Writers, Sync(w), NEW file, file = writer[w].file
  PROVE  FileInv' /\ Complete' = entries /\ Complete = entries - 1 /\ Files' = Files
         /\ \A f \in Files : Clean(data', f) \subseteq Clean(data, f) \cup {entries}
<1> DEFINE lines == data[file]
           end == Len(lines)
<1>1. /\ writer[w].pc = "sync" /\ entries' = entries /\ dir' = dir /\ lock' = None
      /\ torn' = torn /\ deaths' = deaths /\ data' = [data EXCEPT ![file] = Ended(lines)]
      /\ writer' = [writer EXCEPT ![w] = Rest]
  BY DEF Sync, At
<1>2. /\ writer \in [Writers -> Writing] /\ lock = w /\ file \in Files /\ entries \in Nat
      /\ lines # <<>> /\ ~lines[end].ended /\ lines \in Seq(Lines)
      /\ lines[end].whole => lines[end].has = {entries}
  BY <1>1 DEF FileInv, FilesTyped, WritersSound, WriterSound, At, Files
<1>3. Rest \in Writing /\ Rest.pc = "idle" /\ Rest.file = None
  BY DEF Rest, Writing
<1>4. writer'[w] = Rest /\ writer' = [writer EXCEPT ![w] = writer'[w]]
  BY <1>1, <1>2
<1>5. \A v \in Writers : ~At(v, "sync")' /\ (v # w => ~At(v, "sync"))
  BY <1>1, <1>2, <1>3, <1>4, OthersIdle DEF FileInv, At
<1>6. Complete = entries - 1 /\ Complete' = entries
  <2>1. At(w, "sync")
    BY <1>1 DEF At
  <2>. QED BY <1>1, <1>5, <2>1 DEF Complete
<1>7. \A f : (Unfinished(f) => f = file) /\ ~Unfinished(f)'
  BY <1>5 DEF Unfinished
<1>8. /\ Ended(lines) \in Seq(Lines) /\ Len(Ended(lines)) = end /\ end \in Nat \ {0}
      /\ \A k \in 1..end : k # end => Ended(lines)[k] = lines[k]
      /\ Ended(lines)[end].has = lines[end].has
      /\ Ended(lines)[end].whole <=> lines[end].whole
      /\ Ended(lines)[end].ended
  BY <1>2, EndedFacts
<1>9. /\ data' \in Seq(Seq(Lines)) /\ Files' = Files /\ data'[file] = Ended(lines)
      /\ \A g \in Files : g # file => data'[g] = data[g] /\ Has(data', g) = Has(data, g)
  BY <1>1, <1>2, <1>8, OtherFiles DEF FileInv
<1>10. DOMAIN lines = 1..end /\ DOMAIN data'[file] = 1..end /\ end \in 1..end
  BY <1>2, <1>8, <1>9
<1> HIDE DEF end
<1>11. \A k \in 1..end : /\ data'[file][k].has = lines[k].has
                         /\ k # end => data'[file][k] = lines[k]
  BY <1>8, <1>9
<1>12. Has(data', file) = Has(data, file)
  BY <1>10, <1>11 DEF Has
<1>13. \A g \in Files : Has(data', g) = Has(data, g)
  BY <1>9, <1>12
<1>14. SizesSound'
  BY <1>9, <1>13 DEF FileInv, SizesSound
<1>15. WriterSound(w)'
  BY <1>3, <1>4 DEF WriterSound, At
<1>16. writer' \in [Writers -> Writing] /\ WritersSound'
  BY <1>2, <1>3, <1>4, <1>15, OneWriter DEF FileInv
<1>17. InOrder(dir', data')
  <2> SUFFICES ASSUME NEW a \in 0..RotateCount, NEW b \in 0..RotateCount, a < b,
                      dir[a] # None, dir[b] # None,
                      NEW x \in Has(data', dir[a]), NEW y \in Has(data', dir[b])
               PROVE  x > y
    BY <1>1 DEF InOrder
  <2>1. dir[a] \in Files /\ dir[b] \in Files
    BY NameFacts DEF FileInv, FilesTyped
  <2>. QED BY <1>13, <2>1 DEF FileInv, InOrder
<1>18. ASSUME NEW f \in Files, NEW k \in DOMAIN data[f] PROVE LineSound(f, k)'
  <2>1. LineSound(f, k)
    BY <1>18 DEF FileInv, LinesSound
  <2>2. data[f][k].has \subseteq 1..entries' /\ data[f][k].has \subseteq 1..Complete'
        /\ Cardinality(data[f][k].has \ torn') <= 1
    BY <1>1, <1>6, <2>1 DEF LineSound
  <2>3. CASE f # file
    <3>1. data'[f] = data[f] /\ ~Unfinished(f)
      BY <1>7, <1>9, <1>18, <2>3
    <3>2. ~data[f][k].ended => k = Len(data[f]) /\ data[f][k].has \subseteq torn'
      BY <1>1, <2>1, <3>1 DEF LineSound
    <3>. QED BY <2>2, <3>1, <3>2 DEF LineSound
  <2>4. CASE f = file
    <3>1. data'[f][k].has = data[f][k].has
      BY <1>10, <1>11, <2>4
    <3>2. data'[f][k].ended
      <4>1. CASE k = end
        BY <1>8, <1>9, <2>4, <4>1
      <4>2. CASE k # end
        <5>1. data[f][k].ended
          BY <2>1, <2>4, <4>2 DEF LineSound, end
        <5>. QED BY <1>10, <1>11, <2>4, <4>2, <5>1
      <4>. QED BY <4>1, <4>2
    <3>. QED BY <2>2, <3>1, <3>2 DEF LineSound
  <2>. QED BY <2>3, <2>4
<1>19. LinesSound'
  <2>1. ASSUME NEW f \in Files', NEW k \in DOMAIN data'[f] PROVE LineSound(f, k)'
    <3>1. f \in Files /\ DOMAIN data'[f] = DOMAIN data[f]
      BY <1>9, <1>10
    <3>. QED BY <1>18, <2>1, <3>1
  <2>. QED BY <2>1 DEF LinesSound
<1>20. ASSUME NEW f \in Files PROVE Clean(data', f) \subseteq Clean(data, f) \cup {entries}
  <2>1. CASE f # file
    BY <1>9, <2>1 DEF Clean
  <2>2. ASSUME NEW k \in 1..end, data'[file][k].whole, data'[file][k].ended
        PROVE  data'[file][k].has \subseteq Clean(data, file) \cup {entries}
    <3>1. CASE k = end
      BY <1>2, <1>8, <1>9, <1>11, <2>2, <3>1
    <3>2. CASE k # end
      BY <1>10, <1>11, <2>2, <3>2 DEF Clean
    <3>. QED BY <3>1, <3>2
  <2>3. Clean(data', file) \subseteq Clean(data, file) \cup {entries}
    <3>1. SUFFICES ASSUME NEW x \in Clean(data', file)
                   PROVE  x \in Clean(data, file) \cup {entries}
      OBVIOUS
    <3>2. PICK k \in DOMAIN data'[file] : /\ data'[file][k].whole /\ data'[file][k].ended
                                          /\ x \in data'[file][k].has
      BY <3>1 DEF Clean
    <3>. QED BY <1>10, <2>2, <3>2
  <2>. QED BY <2>1, <2>3
<1>21. FilesTyped' /\ Distinct'
  BY <1>1, <1>9, <1>16 DEF FileInv, FilesTyped, Distinct
<1>. QED BY <1>6, <1>9, <1>14, <1>16, <1>17, <1>19, <1>20, <1>21 DEF FileInv

LEMMA DieStep ==
  ASSUME FileInv, NEW w \in Writers, Die(w)
  PROVE  FileInv' /\ Complete' = entries
<1>1. /\ entries' = entries /\ dir' = dir /\ lock' = None /\ data' = data
      /\ deaths' = deaths + 1 /\ writer' = [writer EXCEPT ![w] = Rest]
      /\ writer[w].pc # "idle"
      /\ torn' = IF writer[w].pc = "sync" THEN torn \cup {writer[w].at} ELSE torn
  BY DEF Die, At
<1>2. /\ writer \in [Writers -> Writing] /\ lock = w /\ entries \in Nat /\ deaths \in Nat
      /\ writer[w].pc = "sync" => writer[w].at = entries
      /\ torn \subseteq Nat
  BY <1>1 DEF FileInv, FilesTyped, WritersSound, WriterSound, At
<1>3. Rest \in Writing /\ Rest.pc = "idle" /\ Rest.file = None
  BY DEF Rest, Writing
<1>4. writer'[w] = Rest /\ writer' = [writer EXCEPT ![w] = writer'[w]]
  BY <1>1, <1>2
<1>5. \A v \in Writers : ~At(v, "sync")' /\ (v # w => ~At(v, "sync"))
  BY <1>1, <1>2, <1>3, <1>4, OthersIdle DEF FileInv, At
<1>6. Complete' = entries /\ Complete \in {entries - 1, entries}
  BY <1>1, <1>5 DEF Complete
<1>7. /\ torn \subseteq torn' /\ torn' \subseteq Nat
      /\ (\E f : Unfinished(f)) => torn' = torn \cup {entries}
  <2>1. (\E f : Unfinished(f)) => writer[w].pc = "sync"
    BY <1>5 DEF Unfinished, At
  <2>. QED BY <1>1, <1>2, <2>1
<1>8. WriterSound(w)'
  BY <1>3, <1>4 DEF WriterSound, At
<1>9. writer' \in [Writers -> Writing] /\ WritersSound'
  BY <1>2, <1>3, <1>4, <1>8, OneWriter DEF FileInv
<1>10. ASSUME NEW f \in Files, NEW k \in DOMAIN data[f] PROVE LineSound(f, k)'
  <2>1. LineSound(f, k)
    BY <1>10 DEF FileInv, LinesSound
  <2>2. data[f][k].has \subseteq 1..entries /\ Cardinality(data[f][k].has \ torn) <= 1
    BY <2>1 DEF LineSound
  <2>3. Cardinality(data[f][k].has \ torn') <= 1
    <3>1. IsFiniteSet(1..entries)
      BY <1>2, FS_Interval
    <3> DEFINE old == data[f][k].has \ torn
               left == data[f][k].has \ torn'
    <3>2. old \subseteq 1..entries /\ left \subseteq old
      BY <1>7, <2>2
    <3> HIDE DEF old, left
    <3>3. IsFiniteSet(old) /\ IsFiniteSet(left) /\ Cardinality(left) <= Cardinality(old)
      BY <3>1, <3>2, FS_Subset
    <3>4. Cardinality(left) \in Nat /\ Cardinality(old) \in Nat /\ Cardinality(old) <= 1
      BY <2>2, <3>3, FS_CardinalityType DEF old
    <3>5. Cardinality(left) <= 1
      BY <3>3, <3>4
    <3>. QED BY <3>5 DEF left
  <2>4. ~data[f][k].ended => k = Len(data[f]) /\ data[f][k].has \subseteq torn'
    <3>1. CASE Unfinished(f) /\ data[f][k].has \ torn \subseteq {entries}
      BY <1>7, <2>1, <3>1 DEF LineSound
    <3>. QED BY <1>7, <2>1, <3>1 DEF LineSound
  <2>. QED BY <1>1, <1>6, <2>2, <2>3, <2>4 DEF LineSound
<1>11. LinesSound' /\ SizesSound'
  BY <1>1, <1>10 DEF FileInv, LinesSound, SizesSound, Files
<1>12. FilesTyped' /\ Distinct' /\ InOrder(dir', data')
  BY <1>1, <1>2, <1>7, <1>9 DEF FileInv, FilesTyped, Distinct, Files
<1>. QED BY <1>6, <1>9, <1>11, <1>12 DEF FileInv

\* The script takes the file's name while somebody rotates it or writes to it.
LEMMA RenameStep ==
  ASSUME FileInv, NEW n \in Archives, dir[0] # None, dir' = Renamed(0, n),
         UNCHANGED <<data, lock, writer, entries, torn, deaths>>
  PROVE  FileInv'
<1>1. /\ dir' \in [Names -> Files \cup {None}] /\ dir'[0] = None
      /\ \A m \in Names : m # n /\ m # 0 => dir'[m] = dir[m]
      /\ Distinct' /\ InOrder(dir', data')
  <2>1. 0 \in 0..RotateCount - 1
    BY NameFacts
  <2>. QED BY <2>1, RenamedFacts DEF FileInv
<1>2. \A m \in 1..RotateCount : dir'[m] = dir[m]
  BY <1>1, NameFacts
<1>3. ASSUME NEW w \in Writers PROVE WriterSound(w)'
  <2>1. WriterSound(w) /\ writer[w] \in Writing
    BY DEF FileInv, WritersSound, FilesTyped
  <2>2. writer[w].at \in Nat
    BY <2>1 DEF Writing
  <2>3. writer[w].at + 1 < RotateCount => dir'[writer[w].at + 1] = dir[writer[w].at + 1]
    BY <1>2, <2>2, NameFacts
  <2>. QED BY <1>1, <1>2, <2>1, <2>3 DEF WriterSound, At, Files
<1>4. LinesSound' /\ SizesSound'
  BY LinesKept DEF FileInv, At
<1>5. FilesTyped'
  BY <1>1 DEF FileInv, FilesTyped, Files
<1>. QED BY <1>1, <1>3, <1>4, <1>5 DEF FileInv, WritersSound

\* A rotation, a look at the size or an open changes no line.
LEMMA QuietSteps ==
  ASSUME FileInv, NEW w \in Writers, Lock(w) \/ Shift(w) \/ Move(w) \/ Open(w)
  PROVE  /\ Complete' = Complete /\ entries' = entries /\ Files \subseteq Files'
         /\ \A f \in Files : Clean(data', f) = Clean(data, f)
         /\ \A n \in Archives : dir'[n] = dir[n]
<1>1. /\ writer \in [Writers -> Writing] /\ writer[w] \in Writing
      /\ dir \in [Names -> Files \cup {None}] /\ data \in Seq(Seq(Lines))
  BY DEF FileInv, FilesTyped
<1>2. /\ entries' = entries /\ \A v \in Writers : v # w => writer'[v] = writer[v]
      /\ writer[w].pc # "sync" /\ writer'[w].pc # "sync"
  <2>1. CASE Lock(w)
    BY <1>1, <2>1 DEF Lock, At, Writing
  <2>2. CASE Shift(w)
    BY <1>1, <2>2 DEF Shift, At, Writing
  <2>3. CASE Move(w)
    BY <1>1, <2>3 DEF Move, At, Goto, Writing
  <2>4. CASE Open(w)
    BY <1>1, <2>4 DEF Open, At, Writing
  <2>. QED BY <2>1, <2>2, <2>3, <2>4
<1>3. Complete' = Complete
  BY <1>2 DEF Complete, At
<1>4. /\ Files \subseteq Files' /\ \A f \in Files : data'[f] = data[f]
  <2>1. CASE data' = data
    BY <2>1 DEF Files
  <2>2. CASE data' = Append(data, <<>>)
    <3>1. /\ DOMAIN data = 1..Len(data) /\ DOMAIN data' = 1..Len(data) + 1
          /\ Len(data) \in Nat /\ \A f \in 1..Len(data) : data'[f] = data[f]
      BY <1>1, <2>2
    <3>. QED BY <3>1 DEF Files
  <2>3. data' = data \/ data' = Append(data, <<>>)
    BY DEF Lock, Shift, Move, Open
  <2>. QED BY <2>1, <2>2, <2>3
<1>5. ASSUME NEW n \in Archives PROVE dir'[n] = dir[n]
  <2>1. n \in Names /\ n \notin 0..RotateCount
    BY NameFacts
  <2>2. CASE Shift(w)
    <3>1. writer[w].at \in 0..RotateCount /\ writer[w].at + 1 \in 0..RotateCount
      <4>1. writer[w].at > 0 /\ At(w, "shift") /\ writer[w].at \in Nat
        BY <1>1, <2>2 DEF Shift, Above, Writing
      <4>2. writer[w].at < RotateCount
        BY <4>1 DEF FileInv, WritersSound, WriterSound
      <4>. QED BY <4>1, <4>2, NameFacts
    <3>. QED BY <1>1, <2>1, <2>2, <3>1 DEF Shift, Renamed
  <2>3. CASE Move(w)
    <3>1. 0 \in 0..RotateCount /\ 1 \in 0..RotateCount
      BY NameFacts
    <3>. QED BY <1>1, <2>1, <2>3, <3>1 DEF Move, Renamed
  <2>4. CASE Open(w)
    <3>1. 0 \in 0..RotateCount
      BY NameFacts
    <3>. QED BY <1>1, <2>1, <2>4, <3>1 DEF Open
  <2>. QED BY <2>2, <2>3, <2>4 DEF Lock
<1>. QED BY <1>2, <1>3, <1>4, <1>5 DEF Clean

\* Whatever a writer does, what becomes readable is later than what was
\* complete before, and archives keep their names.
LEMMA PutStep ==
  ASSUME FileInv, NEW w \in Writers, Put(w)
  PROVE  /\ FileInv' /\ Complete <= Complete' /\ entries <= entries'
         /\ Files \subseteq Files'
         /\ \A f \in Files : \A e \in Clean(data', f) : e \in Clean(data, f) \/ e > Complete
         /\ \A n \in Archives : dir'[n] = dir[n]
<1>1. entries \in Nat /\ Complete \in Int /\ Complete \in {entries - 1, entries}
  BY DEF FileInv, FilesTyped, Complete
<1>2. CASE Lock(w) \/ Shift(w) \/ Move(w) \/ Open(w)
  <2>1. FileInv'
    BY <1>2, LockStep, ShiftStep, MoveStep, OpenStep
  <2>. QED BY <1>1, <1>2, <2>1, QuietSteps
<1>3. CASE Write(w)
  <2> DEFINE file == writer[w].file
             e == entries + 1
  <2>1. /\ FileInv' /\ Complete' = Complete
        /\ \A f \in Files : Clean(data', f) = Clean(data, f)
    <3>1. file = writer[w].file /\ e = entries + 1
      OBVIOUS
    <3> HIDE DEF file, e
    <3>. QED BY <1>3, <3>1, WriteStep
  <2>2. dir' = dir /\ entries' = entries + 1 /\ Files' = Files
    BY <1>3 DEF Write, FileInv, FilesTyped, Files
  <2>. QED BY <1>1, <2>1, <2>2
<1>4. CASE Sync(w)
  <2> DEFINE file == writer[w].file
  <2>1. /\ FileInv' /\ Complete' = entries /\ Complete = entries - 1 /\ Files' = Files
        /\ \A f \in Files : Clean(data', f) \subseteq Clean(data, f) \cup {entries}
    <3>1. file = writer[w].file
      OBVIOUS
    <3> HIDE DEF file
    <3>. QED BY <1>4, <3>1, SyncStep
  <2>2. dir' = dir /\ entries' = entries
    BY <1>4 DEF Sync
  <2>3. \A f \in Files : \A e \in Clean(data', f) : e \in Clean(data, f) \/ e > Complete
    BY <1>1, <2>1
  <2>. QED BY <1>1, <2>1, <2>2, <2>3
<1>5. CASE Die(w)
  <2>1. dir' = dir /\ entries' = entries /\ data' = data
    BY <1>5 DEF Die
  <2>2. FileInv' /\ Complete' = entries
    BY <1>5, DieStep
  <2>. QED BY <1>1, <2>1, <2>2 DEF Files
<1>. QED BY <1>2, <1>3, <1>4, <1>5 DEF Put

\* Entries are numbers.
LEMMA CleanNumbers ==
  ASSUME NEW files \in Seq(Seq(Lines)), NEW f \in DOMAIN files
  PROVE  Clean(files, f) \subseteq Nat
<1>1. files[f] \in Seq(Lines)
  OBVIOUS
<1>2. \A k \in DOMAIN files[f] : files[f][k] \in Lines
  BY <1>1
<1>. QED BY <1>2 DEF Clean, Lines

\* What parses is complete.
LEMMA CleanIsComplete ==
  ASSUME FileInv, NEW f \in Files
  PROVE  Clean(data, f) \subseteq 1..Complete /\ Parseable(f) = Clean(data, f)
         /\ Complete \in Int /\ Complete <= entries /\ entries \in Nat
<1>1. ASSUME NEW e \in Clean(data, f) PROVE e \in 1..Complete
  <2>1. PICK k \in DOMAIN data[f] : data[f][k].ended /\ e \in data[f][k].has
    BY DEF Clean
  <2>2. LineSound(f, k)
    BY DEF FileInv, LinesSound
  <2>. QED BY <2>1, <2>2 DEF LineSound
<1>2. Parseable(f) = Clean(data, f)
  BY DEF Parseable, Clean, Parses
<1>. QED BY <1>1, <1>2 DEF FileInv, FilesTyped, Complete

-----------------------------------------------------------------------------
(* Runs of the script *)

\* A step of the writers leaves what the scripts know true.
LEMMA ReplayKept ==
  ASSUME FileInv, ReplayInv, UNCHANGED <<script, topic, failed, archived>>,
         NEW w \in Writers, Put(w)
  PROVE  ReplayInv'
<1>1. /\ Complete <= Complete' /\ entries <= entries' /\ Files \subseteq Files'
      /\ \A f \in Files : \A e \in Clean(data', f) : e \in Clean(data, f) \/ e > Complete
      /\ \A n \in Archives : dir'[n] = dir[n]
      /\ FileInv'
  BY PutStep
<1>2. Complete \in Int /\ Complete' \in Int /\ entries \in Nat /\ entries' \in Nat
  BY <1>1 DEF FileInv, FilesTyped, Complete
<1>3. topic' \subseteq 1..entries' /\ failed' \subseteq 1..entries'
  BY <1>1, <1>2 DEF ReplayInv
<1>4. \A n \in Archives : archived'[n] <= Complete'
  BY <1>1, <1>2 DEF ReplayInv
<1>5. ASSUME NEW s \in Scripts PROVE ScriptSound(script[s])'
  <2> DEFINE r == script[s]
  <2>1. ScriptSound(r) /\ r \in Reading /\ script'[s] = r
    BY DEF ReplayInv
  <2>2. /\ r.upto \in Nat /\ r.upto <= Complete'
        /\ r.pc # "idle" => r.file \in Files'
    BY <1>1, <1>2, <2>1 DEF ScriptSound, Reading
  <2>3. ASSUME r.pc \in {"send", "flushed"}, r.full, NEW e \in Clean(data', r.file)
        PROVE  e \in r.loaded \/ e > r.upto
    <3>1. r.file \in Files /\ r.upto <= Complete
      BY <2>1, <2>3 DEF ScriptSound
    <3>2. CASE e \in Clean(data, r.file)
      BY <2>1, <2>3, <3>2 DEF ScriptSound
    <3>3. CASE e > Complete
      <4>1. e \in Nat
        <5>1. data' \in Seq(Seq(Lines)) /\ r.file \in DOMAIN data'
          BY <1>1, <3>1 DEF FileInv, FilesTyped, Files
        <5>. QED BY <2>3, <5>1, CleanNumbers
      <4>. QED BY <1>2, <2>2, <3>1, <3>3, <4>1
    <3>. QED BY <1>1, <2>3, <3>1, <3>2, <3>3
  <2> HIDE DEF r
  <2>. QED BY <2>1, <2>2, <2>3 DEF ScriptSound
<1>6. ASSUME NEW n \in Archives, dir[n] # None, NEW e \in Clean(data', dir[n])
      PROVE  e \in topic \/ e \in failed \/ e > archived[n]
  <2>1. dir[n] \in Files /\ archived[n] \in Nat /\ archived[n] <= Complete
    BY <1>6, NameFacts DEF FileInv, FilesTyped, ReplayInv
  <2>2. CASE e \in Clean(data, dir[n])
    BY <1>6, <2>2 DEF ReplayInv
  <2>3. CASE e > Complete
    <3>1. e \in Nat
      <4>1. data' \in Seq(Seq(Lines)) /\ dir[n] \in DOMAIN data'
        BY <1>1, <2>1 DEF FileInv, FilesTyped, Files
      <4>. QED BY <1>6, <4>1, CleanNumbers
    <3>. QED BY <1>2, <2>1, <2>3, <3>1
  <2>. QED BY <1>1, <1>6, <2>1, <2>2, <2>3
<1>. QED BY <1>1, <1>3, <1>4, <1>5, <1>6 DEF ReplayInv

\* A step of one script leaves the others as they are.
LEMMA OneScript ==
  ASSUME ReplayInv, FileInv, NEW s \in Scripts, NEW new \in Reading,
         script' = [script EXCEPT ![s] = new], ScriptSound(new)',
         UNCHANGED <<data, writer, entries>>, topic \subseteq topic', failed \subseteq failed'
  PROVE  script' \in [Scripts -> Reading] /\ \A r \in Scripts : ScriptSound(script[r])'
<1>1. script' \in [Scripts -> Reading] /\ script'[s] = new
      /\ \A r \in Scripts : r # s => script'[r] = script[r]
  BY DEF ReplayInv
<1>2. ASSUME NEW r \in Scripts PROVE ScriptSound(script[r])'
  <2> DEFINE t == script[r]
  <2>1. CASE r = s
    BY <1>1, <2>1 DEF ScriptSound
  <2>2. CASE r # s
    <3>1. ScriptSound(t) /\ script'[r] = t
      BY <1>1, <2>2 DEF ReplayInv
    <3>2. Complete' = Complete /\ Files' = Files
      BY DEF Complete, Files, At
    <3> HIDE DEF t
    <3>. QED BY <3>1, <3>2 DEF ScriptSound
  <2>. QED BY <2>1, <2>2
<1>. QED BY <1>1, <1>2

LEMMA FilesKept ==
  ASSUME FileInv, UNCHANGED <<dir, data, lock, writer, entries, torn, deaths>>
  PROVE  FileInv' /\ Complete' = Complete /\ Files' = Files
<1>1. Complete' = Complete /\ Files' = Files
  BY DEF Complete, Files, At
<1>2. FilesTyped' /\ Distinct' /\ InOrder(dir', data')
  BY <1>1 DEF FileInv, FilesTyped, Distinct
<1>3. ASSUME NEW w \in Writers PROVE WriterSound(w)'
  <2>1. WriterSound(w)
    BY DEF FileInv, WritersSound
  <2>. QED BY <1>1, <2>1 DEF WriterSound, At
<1>4. LinesSound' /\ SizesSound'
  BY LinesKept DEF FileInv, At
<1>. QED BY <1>1, <1>2, <1>3, <1>4 DEF FileInv, WritersSound

LEMMA StartStep ==
  ASSUME FileInv, ReplayInv, NEW s \in Scripts, Start(s)
  PROVE  FileInv' /\ ReplayInv'
<1>1. UNCHANGED <<dir, data, lock, writer, entries, torn, deaths>>
  BY DEF Start, fileVars
<1>2. PICK full \in BOOLEAN : script' = [script EXCEPT ![s].pc = "read", ![s].file = dir[0],
                                                    ![s].full = full]
  BY DEF Start
<1> DEFINE r == script[s]
<1>3. r \in Reading /\ ScriptSound(r) /\ dir[0] \in Files /\ dir[0] \in Nat
  <2>1. dir[0] \in Files /\ data \in Seq(Seq(Lines))
    <3>1. dir \in [Names -> Files \cup {None}] /\ data \in Seq(Seq(Lines))
      BY DEF FileInv, FilesTyped
    <3>2. 0 \in Names /\ dir[0] # None
      BY NameFacts DEF Start
    <3>. QED BY <3>1, <3>2
  <2>2. Files = 1..Len(data) /\ Len(data) \in Nat
    BY <2>1 DEF Files
  <2>. QED BY <2>1, <2>2 DEF ReplayInv
<1>4. PICK new : /\ new = [r EXCEPT !.pc = "read", !.file = dir[0], !.full = full]
                 /\ script' = [script EXCEPT ![s] = new]
  BY <1>2
<1>5. /\ new \in Reading /\ new.pc = "read" /\ new.file = dir[0] /\ new.upto = r.upto
      /\ new.loaded = r.loaded /\ new.due = r.due
  BY <1>3, <1>4 DEF Reading
<1>6. FileInv' /\ Complete' = Complete /\ Files' = Files
  BY <1>1, FilesKept
<1>7. ScriptSound(new)'
  BY <1>3, <1>5, <1>6 DEF ScriptSound
<1>8. topic' = topic /\ failed' = failed /\ archived' = archived
  BY DEF Start
<1>9. script' \in [Scripts -> Reading] /\ \A t \in Scripts : ScriptSound(script[t])'
  BY <1>1, <1>4, <1>5, <1>7, <1>8, OneScript
<1>. QED BY <1>1, <1>6, <1>8, <1>9 DEF ReplayInv

\* What a run reads is complete; without --limit it reads all of it.
LEMMA LoadStep ==
  ASSUME FileInv, ReplayInv, NEW s \in Scripts, Load(s)
  PROVE  FileInv' /\ ReplayInv'
<1> DEFINE r == script[s]
           E == Limited(Parseable(r.file), r.full)
<1>1. UNCHANGED <<dir, data, lock, writer, entries, torn, deaths>> /\ r.pc = "read"
  BY DEF Load, fileVars, Stage
<1>2. PICK new : /\ new = [r EXCEPT !.pc = "send", !.loaded = E, !.due = E, !.upto = Complete]
                 /\ script' = [script EXCEPT ![s] = new]
  BY DEF Load
<1>3. r \in Reading /\ ScriptSound(r)
  BY DEF ReplayInv
<1>4. r.file \in Files
  BY <1>1, <1>3 DEF ScriptSound
<1>5. /\ Parseable(r.file) = Clean(data, r.file) /\ Clean(data, r.file) \subseteq 1..Complete
      /\ Complete \in Int
  BY <1>4, CleanIsComplete
<1>6. E \subseteq Clean(data, r.file) /\ (r.full => E = Clean(data, r.file))
  BY <1>5 DEF Limited
<1>7. Complete \in Nat
  BY <1>3, <1>5 DEF ScriptSound, Reading
<1>8. E \subseteq 1..Complete /\ E \in SUBSET Nat
  BY <1>5, <1>6, <1>7
<1> HIDE DEF E
<1>9. /\ new \in Reading /\ new.pc = "send" /\ new.file = r.file /\ new.upto = Complete
      /\ new.loaded = E /\ new.due = E /\ new.full = r.full
  BY <1>2, <1>3, <1>7, <1>8 DEF Reading
<1> HIDE DEF r
<1>10. FileInv' /\ Complete' = Complete /\ Files' = Files
  BY <1>1, FilesKept
<1>11. new.full => \A e \in Clean(data', new.file) : e \in new.loaded
  BY <1>1, <1>6, <1>9
<1>12. ScriptSound(new)'
  BY <1>4, <1>7, <1>8, <1>9, <1>10, <1>11 DEF ScriptSound
<1>13. topic' = topic /\ failed' = failed /\ archived' = archived
  BY DEF Load
<1>14. script' \in [Scripts -> Reading] /\ \A t \in Scripts : ScriptSound(script[t])'
  BY <1>1, <1>2, <1>9, <1>12, <1>13, OneScript
<1>. QED BY <1>1, <1>10, <1>13, <1>14 DEF ReplayInv

\* After the flush everything read is on the topic or has failed.
LEMMA FlushStep ==
  ASSUME FileInv, ReplayInv, NEW s \in Scripts, Flush(s)
  PROVE  FileInv' /\ ReplayInv'
<1> DEFINE r == script[s]
<1>1. UNCHANGED <<dir, data, lock, writer, entries, torn, deaths>> /\ archived' = archived
      /\ r.pc = "send"
  BY DEF Flush, fileVars, Stage
<1>2. PICK lost \in SUBSET r.due, pc \in {"flushed", "raised"} :
        /\ topic' = topic \cup (r.due \ lost) /\ failed' = failed \cup lost
        /\ script' = [script EXCEPT ![s].pc = pc, ![s].due = {}]
  BY DEF Flush
<1>3. r \in Reading /\ ScriptSound(r)
  BY DEF ReplayInv
<1>4. PICK new : /\ new = [r EXCEPT !.pc = pc, !.due = {}]
                 /\ script' = [script EXCEPT ![s] = new]
  BY <1>2
<1>5. /\ new \in Reading /\ new.pc = pc /\ new.file = r.file /\ new.upto = r.upto
      /\ new.loaded = r.loaded /\ new.due = {} /\ new.full = r.full
  BY <1>3, <1>4 DEF Reading
<1> HIDE DEF r
<1>6. FileInv' /\ Complete' = Complete /\ Files' = Files
  BY <1>1, FilesKept
<1>7. /\ r.file \in Files /\ r.upto <= Complete /\ r.loaded \subseteq 1..r.upto
      /\ r.due = r.loaded /\ r.upto \in Nat
      /\ r.full => \A e \in Clean(data, r.file) : e \in r.loaded \/ e > r.upto
  BY <1>1, <1>3 DEF ScriptSound, Reading
<1>8. r.loaded \subseteq topic' \cup failed' /\ topic \subseteq topic' /\ failed \subseteq failed'
  BY <1>2, <1>7
<1>9. ScriptSound(new)'
  BY <1>1, <1>5, <1>6, <1>7, <1>8 DEF ScriptSound
<1>10. script' \in [Scripts -> Reading] /\ \A t \in Scripts : ScriptSound(script[t])'
  BY <1>1, <1>4, <1>5, <1>8, <1>9, OneScript
<1>11. r.due \subseteq 1..entries
  <2>1. Complete <= entries /\ Complete \in Int /\ entries \in Nat
    BY <1>7, CleanIsComplete
  <2>. QED BY <1>7, <2>1
<1>12. topic' \subseteq 1..entries' /\ failed' \subseteq 1..entries'
  BY <1>1, <1>2, <1>11 DEF ReplayInv
<1>13. \A n \in Archives : dir'[n] # None =>
         \A e \in Clean(data', dir'[n]) : e \in topic' \/ e \in failed' \/ e > archived'[n]
  BY <1>1, <1>8 DEF ReplayInv
<1>. QED BY <1>1, <1>6, <1>10, <1>12, <1>13 DEF ReplayInv

\* An archive of the file that was read has what the run accounts for; of one
\* that came under the name since, nothing is claimed.
LEMMA ArchiveStep ==
  ASSUME FileInv, ReplayInv, NEW s \in Scripts, Rename(s)
  PROVE  FileInv' /\ ReplayInv'
<1> DEFINE r == script[s]
<1>1. /\ UNCHANGED <<data, lock, writer, entries, torn, deaths>>
      /\ topic' = topic /\ failed' = failed /\ r.pc = "flushed"
  BY DEF Rename, Stage
<1>2. PICK new : new = [r EXCEPT !.pc = "done"] /\ script' = [script EXCEPT ![s] = new]
  BY DEF Rename
<1>3. r \in Reading /\ ScriptSound(r)
  BY DEF ReplayInv
<1>4. /\ new \in Reading /\ new.pc = "done" /\ new.file = r.file /\ new.upto = r.upto
      /\ new.loaded = r.loaded /\ new.due = r.due
  BY <1>2, <1>3 DEF Reading
<1>5. Complete' = Complete /\ Files' = Files
  BY <1>1 DEF Complete, Files, At
<1>6. ScriptSound(new)'
  BY <1>1, <1>3, <1>4, <1>5 DEF ScriptSound
<1>7. script' \in [Scripts -> Reading] /\ \A t \in Scripts : ScriptSound(script[t])'
  BY <1>1, <1>2, <1>4, <1>6, OneScript
<1>8. topic' \subseteq 1..entries' /\ failed' \subseteq 1..entries'
  BY <1>1 DEF ReplayInv
<1>9. CASE UNCHANGED <<dir, archived>>
  <2>1. FileInv'
    BY <1>1, <1>9, FilesKept
  <2>. QED BY <1>1, <1>5, <1>7, <1>8, <1>9, <2>1 DEF ReplayInv
<1>10. CASE ~UNCHANGED <<dir, archived>>
  <2>1. r.full /\ dir[0] # None
    BY <1>10 DEF Rename, MayArchive
  <2>2. PICK n \in Archives :
          /\ dir' = Renamed(0, n)
          /\ archived' = [archived EXCEPT ![n] = IF dir[0] = r.file THEN r.upto ELSE 0]
    BY <1>10 DEF Rename
  <2>3. FileInv'
    BY <1>1, <2>1, <2>2, RenameStep
  <2>4. dir'[n] = dir[0] /\ \A m \in Archives : m # n => dir'[m] = dir[m]
    <3>1. 0 \in 0..RotateCount - 1 /\ 0 \notin Archives /\ Archives \subseteq Names
      BY NameFacts
    <3>2. /\ dir'[n] = dir[0] /\ \A m \in Names : m # n /\ m # 0 => dir'[m] = dir[m]
      BY <1>1, <2>1, <2>2, <3>1, RenamedFacts DEF FileInv
    <3>. QED BY <3>1, <3>2
  <2>5. /\ r.upto \in Nat /\ r.upto <= Complete /\ archived \in [Archives -> Nat]
        /\ \A m \in Archives : archived[m] <= Complete
        /\ dir[0] \in Files
    BY <1>3, <2>1, NameFacts DEF ScriptSound, Reading, ReplayInv, FileInv, FilesTyped
  <2>6. /\ archived' \in [Archives -> Nat]
        /\ archived'[n] = IF dir[0] = r.file THEN r.upto ELSE 0
        /\ \A m \in Archives : m # n => archived'[m] = archived[m]
    BY <2>2, <2>5
  <2>7. 0 <= Complete /\ Clean(data, dir[0]) \subseteq 1..Complete
    BY <2>5, CleanIsComplete
  <2>8. \A m \in Archives : archived'[m] <= Complete'
    BY <1>5, <2>5, <2>6, <2>7
  <2>9. ASSUME NEW m \in Archives, dir'[m] # None, NEW e \in Clean(data', dir'[m])
        PROVE  e \in topic' \/ e \in failed' \/ e > archived'[m]
    <3>1. CASE m # n
      BY <1>1, <2>4, <2>6, <2>9, <3>1 DEF ReplayInv
    <3>2. CASE m = n /\ dir[0] # r.file
      BY <1>1, <2>4, <2>6, <2>7, <2>9, <3>2
    <3>3. CASE m = n /\ dir[0] = r.file
      BY <1>1, <1>3, <2>1, <2>4, <2>6, <2>9, <3>3 DEF ScriptSound
    <3>. QED BY <3>1, <3>2, <3>3
  <2>. QED BY <1>7, <1>8, <2>3, <2>6, <2>8, <2>9 DEF ReplayInv
<1>. QED BY <1>9, <1>10

-----------------------------------------------------------------------------
(* The invariant, and what it shows *)

LEMMA InvInit ==
  ASSUME Init
  PROVE  FileInv /\ ReplayInv
<1>1. /\ dir = [n \in Names |-> None] /\ data = <<>> /\ lock = None /\ entries = 0
      /\ writer = [w \in Writers |-> Rest] /\ torn = {} /\ deaths = 0
      /\ script = [s \in Scripts |-> Unread] /\ topic = {} /\ failed = {}
      /\ archived = [n \in Archives |-> 0]
  BY DEF Init, FileInit
<1>2. Files = {} /\ data \in Seq(Seq(Lines))
  BY <1>1 DEF Files
<1>3. Rest \in Writing /\ Rest.pc = "idle" /\ Rest.file = None
  BY DEF Rest, Writing
<1>4. FilesTyped
  BY <1>1, <1>2, <1>3, NameFacts DEF FilesTyped
<1>5. WritersSound
  BY <1>1, <1>3 DEF WritersSound, WriterSound, At
<1>6. Distinct /\ LinesSound /\ SizesSound
  BY <1>1, <1>2 DEF Distinct, LinesSound, SizesSound
<1>7. InOrder(dir, data)
  BY <1>1, NameFacts DEF InOrder
<1>8. Complete = 0
  BY <1>1, <1>3 DEF Complete, At
<1>9. /\ Unread \in Reading /\ Unread.pc = "idle" /\ Unread.upto = 0 /\ Unread.loaded = {}
      /\ Unread.due = {}
  BY DEF Unread, Reading
<1>10. \A s \in Scripts : ScriptSound(script[s])
  BY <1>1, <1>8, <1>9 DEF ScriptSound
<1>11. \A n \in Archives : dir[n] = None /\ archived[n] = 0
  BY <1>1, NameFacts
<1>12. script \in [Scripts -> Reading] /\ archived \in [Archives -> Nat]
  BY <1>1, <1>9
<1>13. ReplayInv
  BY <1>1, <1>8, <1>10, <1>11, <1>12 DEF ReplayInv
<1>. QED BY <1>4, <1>5, <1>6, <1>7, <1>13 DEF FileInv

LEMMA InvNext ==
  ASSUME FileInv, ReplayInv, [Next]_vars
  PROVE  FileInv' /\ ReplayInv'
<1>1. CASE UNCHANGED vars
  <2>1. /\ UNCHANGED <<dir, data, lock, writer, entries, torn, deaths>>
        /\ UNCHANGED <<script, topic, failed, archived>>
    BY <1>1 DEF vars, fileVars
  <2>2. FileInv' /\ Complete' = Complete /\ Files' = Files
    BY <2>1, FilesKept
  <2>3. ASSUME NEW s \in Scripts PROVE ScriptSound(script[s])'
    <3> DEFINE r == script[s]
    <3>1. ScriptSound(r) /\ script'[s] = r
      BY <2>1 DEF ReplayInv
    <3> HIDE DEF r
    <3>. QED BY <2>1, <2>2, <3>1 DEF ScriptSound
  <2>. QED BY <2>1, <2>2, <2>3 DEF ReplayInv
<1>2. CASE \E w \in Writers : Put(w) /\ UNCHANGED <<script, topic, failed, archived>>
  BY <1>2, PutStep, ReplayKept
<1>3. CASE \E s \in Scripts : Replay(s)
  BY <1>3, StartStep, LoadStep, FlushStep, ArchiveStep DEF Replay
<1>. QED BY <1>1, <1>2, <1>3 DEF Next

LEMMA InvAlways == Spec => [](FileInv /\ ReplayInv)
<1>1. Init => FileInv /\ ReplayInv
  BY InvInit
<1>2. (FileInv /\ ReplayInv) /\ [Next]_vars => (FileInv /\ ReplayInv)'
  BY InvNext
<1>. QED BY <1>1, <1>2, PTL DEF Spec

\* Whoever writes, rotates, renames and dies, and whenever: the rotated files
\* (_rotate_dlq_file, and its copy in the sink) are in order, none grows past
\* the limit by more than one entry, and a line that does not parse has lost
\* one whole entry at most.
THEOREM FilesAreSound == Spec => []FilesSound
<1>1. ASSUME FileInv, ReplayInv PROVE FilesSound
  <2>1. TypeOK
    <3>1. ASSUME NEW f \in Files
          PROVE  data[f] \in Seq([has : SUBSET (1..entries), whole : BOOLEAN, ended : BOOLEAN])
      <4>1. data[f] \in Seq(Lines)
        BY <1>1 DEF FileInv, FilesTyped, Files
      <4>2. ASSUME NEW k \in 1..Len(data[f])
            PROVE  data[f][k] \in [has : SUBSET (1..entries), whole : BOOLEAN, ended : BOOLEAN]
        <5>1. k \in DOMAIN data[f] /\ data[f][k] \in Lines
          BY <4>1
        <5>2. data[f][k].has \subseteq 1..entries
          BY <1>1, <5>1 DEF FileInv, LinesSound, LineSound
        <5>. QED BY <5>1, <5>2 DEF Lines
      <4>3. \A S : (\A k \in 1..Len(data[f]) : data[f][k] \in S) => data[f] \in Seq(S)
        BY <4>1
      <4>. QED BY <4>2, <4>3
    <3>2. ASSUME NEW w \in Writers PROVE writer[w].file \in Files \cup {None}
      <4>1. WriterSound(w) /\ writer[w] \in Writing
        BY <1>1 DEF FileInv, WritersSound, FilesTyped
      <4>. QED BY <4>1 DEF WriterSound, Writing, At
    <3>3. FileTypeOK
      BY <1>1, <3>1, <3>2 DEF FileInv, FilesTyped, FileTypeOK
    <3>4. ASSUME NEW s \in Scripts
          PROVE  /\ script[s].pc \in {"idle", "read", "send", "flushed", "raised", "done"}
                 /\ script[s].due \subseteq script[s].loaded
                 /\ script[s].loaded \subseteq 1..script[s].upto
      <4>1. ScriptSound(script[s]) /\ script[s] \in Reading
        BY <1>1 DEF ReplayInv
      <4>. QED BY <4>1 DEF ScriptSound, Reading
    <3>. QED BY <1>1, <3>3, <3>4 DEF TypeOK, ReplayInv
  <2>2. GenerationsInOrder
    BY <1>1, SizeFacts DEF FileInv, InOrder, GenerationsInOrder
  <2>3. SizeBounded
    BY <1>1, SizeFacts DEF FileInv, SizesSound, SizeBounded
  <2>4. DamageBounded
    BY <1>1 DEF FileInv, LinesSound, LineSound, DamageBounded
  <2>. QED BY <2>1, <2>2, <2>3, <2>4 DEF FilesSound
<1>. QED BY <1>1, InvAlways, PTL

\* What an archive of replay_dlq.py holds and the topic never got is accounted
\* for: its send failed, it came after the file was read, or its line is
\* damaged, whoever writes and however many scripts run.
THEOREM ArchivesAreAccounted == Spec => []ArchiveAccounted
<1>1. ASSUME FileInv, ReplayInv PROVE ArchiveAccounted
  <2> SUFFICES ASSUME NEW n \in Archives, dir[n] # None, NEW e \in Parseable(dir[n])
               PROVE  e \in topic \/ e \in failed \/ e > archived[n]
    BY DEF ArchiveAccounted
  <2>1. dir[n] \in Files
    BY <1>1, NameFacts DEF FileInv, FilesTyped
  <2>2. e \in Clean(data, dir[n])
    BY <1>1, <2>1, CleanIsComplete
  <2>. QED BY <1>1, <2>2 DEF ReplayInv
<1>. QED BY <1>1, InvAlways, PTL

\* Rotation drops the file with the last name only (os.replace onto a
\* generation that exists happens nowhere else), and what a replay renames
\* keeps a name.
THEOREM OnlyLastIsDropped == Spec => OnlyLastDropped
<1> DEFINE Kept == \A n \in 0..RotateCount - 1 :
                     dir[n] # None => \E m \in Names : dir'[m] = dir[n]
<1>1. ASSUME FileInv, ReplayInv, [Next]_vars PROVE [Kept]_dir
  <2>1. dir \in [Names -> Files \cup {None}] /\ 0..RotateCount - 1 \subseteq Names
    <3>1. dir \in [Names -> Files \cup {None}]
      BY <1>1 DEF FileInv, FilesTyped
    <3>2. \A n \in 0..RotateCount - 1 : n \in 0..RotateCount
      BY NameFacts
    <3>. QED BY <3>1, <3>2, NameFacts
  <2>2. ASSUME NEW from \in 0..RotateCount - 1, NEW to, dir[from] # None,
               to = from + 1 \/ (from = 0 /\ to \in Archives), dir' = Renamed(from, to),
               to \in 0..RotateCount - 1 => dir[to] = None
        PROVE  Kept
    <3>1. to \in Names /\ to # from
      <4>1. from + 1 \in 0..RotateCount /\ from + 1 # from
        BY NameFacts
      <4>2. 0 \in 0..RotateCount
        BY NameFacts
      <4>. QED BY <2>2, <4>1, <4>2, NameFacts
    <3>2. ASSUME NEW n \in 0..RotateCount - 1, dir[n] # None
          PROVE  \E m \in Names : dir'[m] = dir[n]
      <4>1. CASE n = from
        <5>1. dir'[to] = dir[n]
          BY <2>1, <2>2, <3>1, <4>1 DEF Renamed
        <5>. QED BY <3>1, <5>1
      <4>2. CASE n # from
        <5>1. n # to /\ n \in Names
          BY <2>1, <2>2, <3>2
        <5>2. dir'[n] = dir[n]
          BY <2>1, <2>2, <4>2, <5>1 DEF Renamed
        <5>. QED BY <5>1, <5>2
      <4>. QED BY <4>1, <4>2
    <3>. QED BY <3>2
  <2>3. ASSUME NEW w \in Writers, Shift(w) PROVE [Kept]_dir
    <3> DEFINE at == writer[w].at
    <3> HIDE DEF Kept
    <3>1. /\ at > 0 /\ At(w, "shift") /\ writer[w] \in Writing
          /\ dir' = IF dir[at] = None THEN dir ELSE Renamed(at, at + 1)
      BY <1>1, <2>3 DEF Shift, Above, FileInv, FilesTyped
    <3>2. /\ at \in Nat /\ at < RotateCount
          /\ at + 1 < RotateCount => dir[at + 1] = None
      BY <1>1, <3>1 DEF FileInv, WritersSound, WriterSound, Writing
    <3> HIDE DEF at
    <3>3. at \in 0..RotateCount - 1 /\ (at + 1 \in 0..RotateCount - 1 => dir[at + 1] = None)
      BY <3>2, NameFacts
    <3>4. CASE dir[at] # None
      <4>1. dir' = Renamed(at, at + 1)
        BY <3>1, <3>4
      <4>. QED BY <2>2, <3>3, <3>4, <4>1
    <3>. QED BY <3>1, <3>4
  <2>4. ASSUME NEW w \in Writers, Move(w) PROVE [Kept]_dir
    <3>1. /\ ~(writer[w].at > 0) /\ At(w, "shift") /\ writer[w] \in Writing
          /\ dir' = IF dir[0] = None THEN dir ELSE Renamed(0, 1)
      <4>1. writer[w] \in Writing
        BY <1>1 DEF FileInv, FilesTyped
      <4>. QED BY <2>4, <4>1 DEF Move, Above
    <3>2. writer[w].at = 0
      BY <3>1 DEF Writing
    <3>3. 1 < RotateCount => dir[1] = None
      BY <1>1, <3>1, <3>2 DEF FileInv, WritersSound, WriterSound
    <3>4. /\ 0 \in 0..RotateCount - 1 /\ 1 = 0 + 1
          /\ 1 \in 0..RotateCount - 1 => dir[1] = None
      BY <3>3, NameFacts
    <3>. QED BY <2>2, <3>1, <3>4
  <2>5. ASSUME NEW w \in Writers, Open(w) PROVE [Kept]_dir
    <3>1. dir' = IF dir[0] = None THEN [dir EXCEPT ![0] = Len(data) + 1] ELSE dir
      BY <2>5 DEF Open
    <3>2. CASE dir[0] = None
      <4>1. \A n \in 0..RotateCount - 1 : dir[n] # None => n \in Names /\ dir'[n] = dir[n]
        BY <2>1, <3>1, <3>2
      <4>. QED BY <4>1
    <3>. QED BY <3>1, <3>2
  <2>6. ASSUME NEW s \in Scripts, Rename(s) PROVE [Kept]_dir
    <3>1. CASE UNCHANGED dir
      BY <3>1
    <3>2. CASE ~UNCHANGED dir
      <4>1. PICK n \in Archives : dir[0] # None /\ dir' = Renamed(0, n)
        BY <2>6, <3>2 DEF Rename
      <4>2. /\ 0 \in 0..RotateCount - 1
            /\ n \in 0..RotateCount - 1 => dir[n] = None
        BY NameFacts
      <4>. QED BY <2>2, <4>1, <4>2
    <3>. QED BY <3>1, <3>2
  <2>7. ASSUME UNCHANGED dir PROVE [Kept]_dir
    BY <2>7
  <2>8. CASE \E w \in Writers : Put(w)
    <3>1. PICK w \in Writers : Put(w)
      BY <2>8
    <3>2. Lock(w) \/ Write(w) \/ Sync(w) \/ Die(w) => UNCHANGED dir
      BY DEF Lock, Write, Sync, Die
    <3>. QED BY <2>3, <2>4, <2>5, <2>7, <3>1, <3>2 DEF Put
  <2>9. CASE \E s \in Scripts : Replay(s)
    <3>1. PICK s \in Scripts : Replay(s)
      BY <2>9
    <3>2. Start(s) \/ Load(s) \/ Flush(s) => UNCHANGED dir
      BY DEF Start, Load, Flush, fileVars
    <3>. QED BY <2>6, <2>7, <3>1, <3>2 DEF Replay
  <2>10. CASE UNCHANGED vars
    BY <2>7, <2>10 DEF vars, fileVars
  <2>. QED BY <1>1, <2>8, <2>9, <2>10 DEF Next
<1>. QED BY <1>1, InvAlways, PTL DEF Spec, OnlyLastDropped
==============================================================================
