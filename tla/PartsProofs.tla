------------------------------ MODULE PartsProofs ------------------------------
(***************************************************************************)
(* Theorems about the smaller components, for any number of threads,        *)
(* requests, accounts, jobs, presses and promises: the save folders         *)
(* (Saves.tla), the front door's places (Doors.tla), the media jobs         *)
(* (MediaJobs.tla), a session's turns (Turn.tla), the phone's promises      *)
(* (Promises.tla) and its plans to meet (Plans.tla), a section each.        *)
(*                                                                          *)
(* Most of these properties speak of what is at rest or of a sum, and are   *)
(* no invariants of their own accord: the invariants say how far each piece *)
(* of work has got and what it has left behind there.                       *)
(***************************************************************************)
EXTENDS Saves, Doors, MediaJobs, Turn, Promises, Plans, FiniteSetTheorems, TLAPS

----------------------------------------------------------------------------
(* The save folders: the index is read and written under its lock, one      *)
(* thread's work leaves a folder's files in the order they were written,    *)
(* and the row in the index says what they were.                            *)
USE SavesConstants DEF SavesConstants

Row == [at : Times, auto : BOOLEAN]

(* Whose index lock, and what its holder read under it. *)
IndexLocked ==
    \A t \in Threads :
        /\ work[t].pc \in {"locked", "row"} => holder = t
        /\ work[t].pc = "files" => (Capped(work[t].kind) <=> holder = t)
        /\ holder = t =>
              /\ work[t].pc \in {"locked", "files", "row"} /\ work[t].seen = rows
              /\ work[t].pc \in {"files", "row"} => HasRoom(work[t])

(* A thread is where its work can be ... *)
WorkTold ==
    \A t \in Threads : work[t].pc # "idle" =>
        /\ work[t].do = "save" <=> work[t].kind # "delete"
        /\ work[t].do = "save" => work[t].at # 0 /\ work[t].at <= time
        /\ work[t].pc \in {"files", "memory", "row"} => work[t].do = "save"
        /\ work[t].pc = "unlink" => work[t].do = "delete"
        /\ work[t].pc = "memory" => work[t].kind = "autosave"

(* ... and no two work on one save. *)
OneEach ==
    \A t, u \in Threads :
        work[t].pc # "idle" /\ work[u].pc # "idle" /\ work[t].id = work[u].id => t = u

Deleting(i) == \E t \in Threads : work[t].pc = "unlink" /\ work[t].id = i

(* A thread has not written its files yet ... *)
Unwritten(w) ==
    \/ w.pc = "files"
    \/ w.pc \in {"lock", "locked"} /\ w.do = "save" /\ Capped(w.kind)

(* ... or has. *)
Written(w) ==
    \/ w.pc \in {"memory", "row"}
    \/ w.pc \in {"lock", "locked"} /\ w.do = "save" /\ ~Capped(w.kind)

(* What is on disk of a save, by the work under way on it. *)
FolderTold(i) ==
    /\ disk[i].save <= time /\ disk[i].bak <= time /\ disk[i].memory <= time
    /\ i \notin torn /\ ~Deleting(i) =>
          /\ disk[i].save = 0 => disk[i].bak = 0
          /\ disk[i].memory <= disk[i].save
    /\ \A t \in Threads : work[t].pc # "idle" /\ work[t].id = i =>
          /\ Unwritten(work[t]) => disk[i].save < work[t].at /\ disk[i].memory < work[t].at
          /\ Written(work[t]) => disk[i].save = work[t].at
          /\ work[t].pc \in {"lock", "locked"} /\ work[t].do = "delete" => disk[i] = NoFolder

(* The row of a save is what its folder holds, until its files change. *)
RowTold(i) ==
    i \notin unlisted \cup torn
        /\ (\A t \in Threads : work[t].pc # "idle" /\ work[t].id = i => Unwritten(work[t]))
    => rows[i].at = disk[i].save

SavesInv ==
    /\ SavesTypeOK /\ IndexLocked /\ WorkTold /\ OneEach
    /\ \A i \in Ids : FolderTold(i) /\ RowTold(i)

----------------------------------------------------------------------------
Work ==
    [pc : {"lock", "locked", "files", "memory", "row", "unlink"},
     do : {"save", "delete"}, id : Ids, kind : SaveKinds \cup {"delete"},
     at : Times, seen : [Ids -> Row]]

(* A thread about its work is typed. *)
LEMMA WorkTyped ==
    ASSUME SavesInv, NEW t \in Threads, work[t].pc # "idle"
    PROVE  work[t] \in Work /\ work[t] # ThreadIdle
BY DEF SavesInv, SavesTypeOK, Work, Row, ThreadIdle

(* A thread goes on with w, or has done. *)
Does(t, w) ==
    /\ w \in Work \cup {ThreadIdle}
    /\ work' \in [Threads -> {ThreadIdle} \cup Work]
    /\ work'[t] = w
    /\ \A u \in Threads : u # t => work'[u] = work[u]

LEMMA DoesAs ==
    ASSUME SavesInv, NEW t \in Threads, NEW w \in Work \cup {ThreadIdle},
           work' = [work EXCEPT ![t] = w]
    PROVE  Does(t, w)
BY DEF SavesInv, SavesTypeOK, Does, Work, Row

LEMMA DoesPlace ==
    ASSUME SavesInv, NEW t \in Threads, work[t].pc # "idle",
           NEW pc \in {"lock", "locked", "files", "memory", "row", "unlink"}, GoesTo(t, pc)
    PROVE  \E w \in Work :
              /\ Does(t, w)
              /\ w.pc = pc /\ w.do = work[t].do /\ w.id = work[t].id
              /\ w.kind = work[t].kind /\ w.at = work[t].at /\ w.seen = work[t].seen
<1> DEFINE w == [work[t] EXCEPT !.pc = pc]
<1>1. work[t] \in Work
  BY WorkTyped
<1>2. w \in Work /\ w.pc = pc /\ w.do = work[t].do /\ w.id = work[t].id
      /\ w.kind = work[t].kind /\ w.at = work[t].at /\ w.seen = work[t].seen
  BY <1>1 DEF Work
<1>3. work' = [work EXCEPT ![t] = w]
  BY <1>1 DEF GoesTo, Work, SavesInv, SavesTypeOK
<1> QED BY <1>2, <1>3, DoesAs

(* What the bound on the index keeps, it keeps as it was. *)
LEMMA BoundedKeeps ==
    ASSUME NEW index \in [Ids -> Row]
    PROVE  /\ Bounded(index) \in [Ids -> Row]
           /\ \A i \in Ids :
                 \/ Bounded(index)[i] = index[i]
                 \/ i \in Listed(index) \ Listed(Bounded(index))
<1>1. NoRow \in Row /\ NoRow.at = 0
  BY DEF NoRow, Row, Times
<1>2. \A i \in Ids : Bounded(index)[i] \in {index[i], NoRow}
  BY DEF Bounded
<1>3. \A i \in Ids : Bounded(index)[i] # index[i] => i \in Listed(index)
  BY DEF Bounded
<1>4. Bounded(index) \in [Ids -> Row]
  BY <1>1 DEF Bounded
<1> QED BY <1>1, <1>2, <1>3, <1>4 DEF Listed, Row

(* An idle thread is at no place of its work. *)
LEMMA ThreadIdleFact ==
    ThreadIdle.pc = "idle" /\ ThreadIdle \notin Work
BY DEF ThreadIdle, Work

LEMMA SaveBeginsKeeps ==
    ASSUME SavesInv, NEW t \in Threads, NEW i \in Ids, NEW kind \in SaveKinds,
           SaveBegins(t, i, kind)
    PROVE  SavesInv'
<1> DEFINE w == [pc |-> IF Capped(kind) THEN "lock" ELSE "files", do |-> "save",
                 id |-> i, kind |-> kind, at |-> time + 1, seen |-> rows]
<1>1. time' = time + 1 /\ time' \in Times /\ time \in Nat
      /\ UNCHANGED <<disk, rows, holder, unlisted, torn>>
  BY DEF SaveBegins, SavesInv, SavesTypeOK, Times
<1>2. Does(t, w) /\ w \in Work
  <2>1. w \in Work
    BY <1>1 DEF SaveBegins, SavesInv, SavesTypeOK, Work, Row
  <2> QED BY <2>1, DoesAs DEF SaveBegins
<1>3. work[t] = ThreadIdle /\ \A u \in Threads : work[u].pc # "idle" => work[u].id # i
  BY DEF SaveBegins, Busy
<1>4. kind # "delete" /\ (Capped(kind) <=> kind # "autosave")
  BY DEF SaveKinds, Capped
<1> HIDE DEF w
<1>5. /\ w.pc \in {"lock", "files"} /\ (w.pc = "files" <=> ~Capped(kind))
      /\ w.do = "save" /\ w.id = i /\ w.kind = kind /\ w.at = time + 1 /\ w.seen = rows
  BY DEF w
<1>6. SavesTypeOK'
  BY <1>1, <1>2 DEF SavesInv, SavesTypeOK, Does, Work, Row
<1>7. IndexLocked'
  BY <1>1, <1>2, <1>3, <1>5, ThreadIdleFact DEF SavesInv, IndexLocked, Does, HasRoom, Capped
<1>8. WorkTold'
  <2>1. w.at # 0 /\ w.at <= time'
    BY <1>1, <1>5
  <2>2. \A u \in Threads : work[u].pc # "idle" => work[u] \in Work
    BY WorkTyped
  <2>3. \A u \in Threads : work[u].pc # "idle" =>
           work[u].at \in Nat /\ (work[u].at <= time => work[u].at <= time')
    BY <1>1, <2>2 DEF Work, Times
  <2> QED BY <1>2, <1>4, <1>5, <2>1, <2>3, ThreadIdleFact DEF SavesInv, WorkTold, Does
<1>10. OneEach'
  BY <1>2, <1>3, <1>5, ThreadIdleFact DEF SavesInv, OneEach, Does
<1>9. ASSUME NEW j \in Ids PROVE FolderTold(j)' /\ RowTold(j)'
  <2>1. FolderTold(j) /\ RowTold(j) /\ disk[j] \in [save : Times, bak : Times, memory : Times]
    BY DEF SavesInv, SavesTypeOK
  <2>2. Deleting(j)' <=> Deleting(j)
    BY <1>2, <1>3, <1>5, ThreadIdleFact DEF Deleting, Does
  <2>3. FolderTold(j)'
    BY <1>1, <1>2, <1>3, <1>5, <2>1, <2>2, ThreadIdleFact DEF FolderTold, Does, Unwritten, Written, Times
  <2>4. RowTold(j)'
    BY <1>1, <1>2, <1>3, <1>5, <2>1, ThreadIdleFact DEF RowTold, Does, Unwritten
  <2> QED BY <2>3, <2>4
<1> QED BY <1>6, <1>7, <1>8, <1>9, <1>10 DEF SavesInv

LEMMA TakeLockKeeps ==
    ASSUME SavesInv, NEW t \in Threads, TakeLock(t)
    PROVE  SavesInv'
<1>1. work[t].pc = "lock" /\ work[t] \in Work /\ holder = Nobody /\ holder' = t
      /\ UNCHANGED <<disk, rows, time, unlisted, torn>>
  BY WorkTyped DEF TakeLock
<1>2. PICK w \in Work : /\ Does(t, w) /\ w.pc = "locked" /\ w.seen = rows
                        /\ w.do = work[t].do /\ w.id = work[t].id
                        /\ w.kind = work[t].kind /\ w.at = work[t].at
  <2> DEFINE w == [work[t] EXCEPT !.pc = "locked", !.seen = rows]
  <2>1. w \in Work /\ w.pc = "locked" /\ w.seen = rows /\ w.do = work[t].do
        /\ w.id = work[t].id /\ w.kind = work[t].kind /\ w.at = work[t].at
    BY <1>1 DEF Work, SavesInv, SavesTypeOK, Row
  <2>2. work' = [work EXCEPT ![t] = w]
    BY <1>1 DEF TakeLock, SavesInv, SavesTypeOK, Work, Row
  <2> QED BY <2>1, <2>2, DoesAs
<1>3. SavesTypeOK'
  BY <1>1, <1>2 DEF SavesInv, SavesTypeOK, Does, Work, Row
<1>4. IndexLocked'
  BY <1>1, <1>2 DEF SavesInv, IndexLocked, Does
<1>5. WorkTold' /\ OneEach'
  BY <1>1, <1>2 DEF SavesInv, WorkTold, OneEach, Does
<1>6. ASSUME NEW j \in Ids PROVE FolderTold(j)' /\ RowTold(j)'
  <2>1. FolderTold(j) /\ RowTold(j)
    BY DEF SavesInv
  <2>2. Deleting(j)' <=> Deleting(j)
    BY <1>1, <1>2 DEF Deleting, Does
  <2>3. FolderTold(j)'
    BY <1>1, <1>2, <2>1, <2>2 DEF FolderTold, Does, Unwritten, Written
  <2>4. RowTold(j)'
    BY <1>1, <1>2, <2>1 DEF RowTold, Does, Unwritten
  <2> QED BY <2>3, <2>4
<1> QED BY <1>3, <1>4, <1>5, <1>6 DEF SavesInv

LEMMA SaveCountedKeeps ==
    ASSUME SavesInv, NEW t \in Threads, SaveCounted(t)
    PROVE  SavesInv'
<1>1. work[t].pc = "locked" /\ work[t].do = "save" /\ work[t] \in Work /\ holder = t
      /\ UNCHANGED <<disk, rows, time, unlisted, torn>>
  BY WorkTyped DEF SaveCounted, SavesInv, IndexLocked
<1>2. CASE HasRoom(work[t])
  <2>1. PICK w \in Work : /\ Does(t, w) /\ w.seen = work[t].seen
                          /\ w.pc = (IF Capped(work[t].kind) THEN "files" ELSE "row")
                          /\ w.do = work[t].do /\ w.id = work[t].id
                          /\ w.kind = work[t].kind /\ w.at = work[t].at
    BY <1>1, <1>2, DoesPlace DEF SaveCounted
  <2>2. holder' = t /\ HasRoom(w)
    BY <1>1, <1>2, <2>1 DEF SaveCounted, HasRoom
  <2>3. SavesTypeOK'
    BY <1>1, <2>1, <2>2 DEF SavesInv, SavesTypeOK, Does, Work, Row
  <2>4. IndexLocked'
    BY <1>1, <2>1, <2>2 DEF SavesInv, IndexLocked, Does, HasRoom
  <2>5. WorkTold' /\ OneEach'
    BY <1>1, <2>1 DEF SavesInv, WorkTold, OneEach, Does
  <2>6. ASSUME NEW j \in Ids PROVE FolderTold(j)' /\ RowTold(j)'
    <3>1. FolderTold(j) /\ RowTold(j)
      BY DEF SavesInv
    <3>2. Deleting(j)' <=> Deleting(j)
      BY <1>1, <2>1 DEF Deleting, Does
    <3>3. FolderTold(j)'
      BY <1>1, <2>1, <3>1, <3>2 DEF FolderTold, Does, Unwritten, Written
    <3>4. RowTold(j)'
      BY <1>1, <2>1, <3>1 DEF RowTold, Does, Unwritten
    <3> QED BY <3>3, <3>4
  <2> QED BY <2>3, <2>4, <2>5, <2>6 DEF SavesInv
<1>3. CASE ~HasRoom(work[t])
  <2>1. Does(t, ThreadIdle) /\ holder' = Nobody
    BY <1>3, DoesAs DEF SaveCounted
  <2>2. Capped(work[t].kind)
    BY <1>3 DEF HasRoom
  <2>3. SavesTypeOK'
    BY <1>1, <2>1 DEF SavesInv, SavesTypeOK, Does, Work, Row
  <2>4. IndexLocked'
    BY <1>1, <2>1, ThreadIdleFact DEF SavesInv, IndexLocked, Does, HasRoom
  <2>5. WorkTold' /\ OneEach'
    BY <1>1, <2>1, ThreadIdleFact DEF SavesInv, WorkTold, OneEach, Does
  <2>6. ASSUME NEW j \in Ids PROVE FolderTold(j)' /\ RowTold(j)'
    <3>1. FolderTold(j) /\ RowTold(j)
      BY DEF SavesInv
    <3>2. Deleting(j)' <=> Deleting(j)
      BY <1>1, <2>1, ThreadIdleFact DEF Deleting, Does
    <3>3. FolderTold(j)'
      BY <1>1, <2>1, <3>1, <3>2, ThreadIdleFact DEF FolderTold, Does, Unwritten, Written
    <3>4. RowTold(j)'
      BY <1>1, <2>1, <2>2, <3>1, ThreadIdleFact DEF RowTold, Does, Unwritten
    <3> QED BY <3>3, <3>4
  <2> QED BY <2>3, <2>4, <2>5, <2>6 DEF SavesInv
<1> QED BY <1>2, <1>3

LEMMA WriteSaveKeeps ==
    ASSUME SavesInv, NEW t \in Threads, WriteSave(t)
    PROVE  SavesInv'
<1>1. work[t].pc = "files" /\ work[t] \in Work /\ work[t].do = "save"
      /\ work[t].id \in Ids /\ work[t].at \in Times \ {0} /\ work[t].at <= time
      /\ UNCHANGED <<rows, holder, time, unlisted, torn>>
  BY WorkTyped DEF WriteSave, SavesInv, WorkTold, Work
<1>2. PICK w \in Work : /\ Does(t, w) /\ w.seen = work[t].seen
                        /\ w.pc = (IF work[t].kind = "autosave" THEN "memory" ELSE "row")
                        /\ w.do = work[t].do /\ w.id = work[t].id
                        /\ w.kind = work[t].kind /\ w.at = work[t].at
  BY <1>1, DoesPlace DEF WriteSave
<1>3. /\ disk' \in [Ids -> [save : Times, bak : Times, memory : Times]]
      /\ disk'[w.id].save = w.at /\ disk'[w.id].memory = disk[w.id].memory
      /\ disk'[w.id].bak \in {disk[w.id].save, disk[w.id].bak}
      /\ \A j \in Ids : j # w.id => disk'[j] = disk[j]
  BY <1>1, <1>2 DEF WriteSave, SavesInv, SavesTypeOK
<1>4. SavesTypeOK'
  BY <1>1, <1>2, <1>3 DEF SavesInv, SavesTypeOK, Does, Work, Row
<1>5. IndexLocked'
  BY <1>1, <1>2 DEF SavesInv, IndexLocked, Does, HasRoom, Capped
<1>6. WorkTold' /\ OneEach'
  BY <1>1, <1>2 DEF SavesInv, WorkTold, OneEach, Does
<1>7. ASSUME NEW j \in Ids PROVE FolderTold(j)' /\ RowTold(j)'
  <2>1. FolderTold(j) /\ RowTold(j)
        /\ disk[j].save \in Nat /\ disk[j].bak \in Nat /\ disk[j].memory \in Nat
    BY DEF SavesInv, SavesTypeOK, Times
  <2>2. Deleting(j)' <=> Deleting(j)
    BY <1>1, <1>2 DEF Deleting, Does
  <2>3. CASE j = w.id
    <3>1. disk[j].memory < w.at /\ w.at # 0 /\ w.at <= time /\ w.at \in Nat
      BY <1>1, <1>2, <2>1, <2>3 DEF FolderTold, Unwritten, Times
    <3>2. \A u \in Threads : work'[u].pc # "idle" /\ work'[u].id = j => u = t
      BY <1>2, <1>6, <2>3 DEF OneEach, Does, Work
    <3>3. Written(w) /\ ~Unwritten(w)
          /\ ~(w.pc \in {"lock", "locked"} /\ w.do = "delete")
      BY <1>2 DEF Written, Unwritten
    <3>4. FolderTold(j)'
      BY <1>1, <1>2, <1>3, <2>1, <2>3, <3>1, <3>2, <3>3 DEF FolderTold, Does
    <3>5. RowTold(j)'
      BY <1>2, <2>3, <3>3 DEF RowTold, Does, Work
    <3> QED BY <3>4, <3>5
  <2>4. CASE j # w.id
    BY <1>1, <1>2, <1>3, <2>1, <2>2, <2>4 DEF FolderTold, RowTold, Does
  <2> QED BY <2>3, <2>4
<1> QED BY <1>4, <1>5, <1>6, <1>7 DEF SavesInv

LEMMA WriteMemoryKeeps ==
    ASSUME SavesInv, NEW t \in Threads, WriteMemory(t)
    PROVE  SavesInv'
<1>1. work[t].pc = "memory" /\ work[t] \in Work /\ work[t].do = "save"
      /\ work[t].id \in Ids /\ work[t].at \in Times /\ ~Capped(work[t].kind)
      /\ UNCHANGED <<rows, holder, time, unlisted, torn>>
  BY WorkTyped DEF WriteMemory, SavesInv, WorkTold, Work, Capped
<1>2. PICK w \in Work : /\ Does(t, w) /\ w.pc = "lock"
                        /\ w.do = work[t].do /\ w.id = work[t].id
                        /\ w.kind = work[t].kind /\ w.at = work[t].at
  BY <1>1, DoesPlace DEF WriteMemory
<1>3. /\ disk' \in [Ids -> [save : Times, bak : Times, memory : Times]]
      /\ disk'[w.id].save = disk[w.id].save /\ disk'[w.id].bak = disk[w.id].bak
      /\ disk'[w.id].memory = w.at
      /\ \A j \in Ids : j # w.id => disk'[j] = disk[j]
  <2>1. disk' = [disk EXCEPT ![w.id] = [disk[w.id] EXCEPT !.memory = w.at]]
    BY <1>2 DEF WriteMemory
  <2>2. w.id \in Ids /\ w.at \in Times
        /\ disk \in [Ids -> [save : Times, bak : Times, memory : Times]]
    BY <1>1, <1>2 DEF SavesInv, SavesTypeOK
  <2> QED BY <2>1, <2>2
<1>4. SavesTypeOK'
  BY <1>1, <1>2, <1>3 DEF SavesInv, SavesTypeOK, Does, Work, Row
<1>5. IndexLocked'
  BY <1>1, <1>2 DEF SavesInv, IndexLocked, Does
<1>6. WorkTold' /\ OneEach'
  BY <1>1, <1>2 DEF SavesInv, WorkTold, OneEach, Does
<1>7. ASSUME NEW j \in Ids PROVE FolderTold(j)' /\ RowTold(j)'
  <2>1. FolderTold(j) /\ RowTold(j)
        /\ disk[j].save \in Nat /\ disk[j].bak \in Nat /\ disk[j].memory \in Nat
    BY DEF SavesInv, SavesTypeOK, Times
  <2>2. Deleting(j)' <=> Deleting(j)
    BY <1>1, <1>2 DEF Deleting, Does
  <2>3. CASE j = w.id
    <3>1. disk[j].save = w.at
      BY <1>1, <1>2, <2>1, <2>3 DEF FolderTold, Written
    <3>2. \A u \in Threads : work'[u].pc # "idle" /\ work'[u].id = j => u = t
      BY <1>2, <1>6, <2>3 DEF OneEach, Does, Work
    <3>3. Written(w) /\ ~Unwritten(w)
          /\ ~(w.pc \in {"lock", "locked"} /\ w.do = "delete")
      BY <1>1, <1>2 DEF Written, Unwritten
    <3>4. FolderTold(j)'
      BY <1>1, <1>2, <1>3, <2>1, <2>2, <2>3, <3>1, <3>2, <3>3 DEF FolderTold, Does
    <3>5. RowTold(j)'
      BY <1>2, <2>3, <3>3 DEF RowTold, Does, Work
    <3> QED BY <3>4, <3>5
  <2>4. CASE j # w.id
    BY <1>1, <1>2, <1>3, <2>1, <2>2, <2>4 DEF FolderTold, RowTold, Does
  <2> QED BY <2>3, <2>4
<1> QED BY <1>4, <1>5, <1>6, <1>7 DEF SavesInv

(* The holder puts the index with one row changed: the others' rows stay, or *)
(* the bound has dropped them and they are known unlisted.                   *)
LEMMA PutKeeps ==
    ASSUME SavesInv, NEW t \in Threads, work[t].pc \in {"locked", "row"},
           NEW put \in Row, put.at = disk[work[t].id].save,
           PutIndex([work[t].seen EXCEPT ![work[t].id] = put]),
           work' = [work EXCEPT ![t] = ThreadIdle], UNCHANGED <<disk, time, torn>>
    PROVE  SavesInv'
<1> DEFINE i == work[t].id
           index == [rows EXCEPT ![i] = put]
<1>1. work[t] \in Work /\ i \in Ids /\ holder = t /\ work[t].seen = rows
      /\ rows \in [Ids -> Row]
  BY WorkTyped DEF SavesInv, SavesTypeOK, IndexLocked, Work, Row
<1>2. Does(t, ThreadIdle)
  BY DoesAs
<1>3. index \in [Ids -> Row] /\ index[i] = put
      /\ \A j \in Ids : j # i => index[j] = rows[j]
  BY <1>1
<1>4. rows' = Bounded(index) /\ holder' = Nobody
      /\ unlisted' = unlisted \cup (Listed(index) \ Listed(Bounded(index)))
  BY <1>1 DEF PutIndex
<1> HIDE DEF index
<1>5. SavesTypeOK'
  <2>1. Listed(index) \subseteq Ids
    BY DEF Listed
  <2> QED BY <1>2, <1>3, <1>4, <2>1, BoundedKeeps DEF SavesInv, SavesTypeOK, Does, Work, Row
<1>6. IndexLocked'
  BY <1>1, <1>2, <1>4, ThreadIdleFact DEF SavesInv, IndexLocked, Does
<1>7. WorkTold' /\ OneEach'
  BY <1>2, ThreadIdleFact DEF SavesInv, WorkTold, OneEach, Does
<1>8. ASSUME NEW j \in Ids PROVE FolderTold(j)' /\ RowTold(j)'
  <2>1. FolderTold(j) /\ RowTold(j)
    BY DEF SavesInv
  <2>2. Deleting(j)' <=> Deleting(j)
    BY <1>2, ThreadIdleFact DEF Deleting, Does
  <2>3. FolderTold(j)'
    BY <1>2, <2>1, <2>2, ThreadIdleFact DEF FolderTold, Does
  <2>4. rows'[j] = index[j] \/ j \in unlisted'
    BY <1>3, <1>4, BoundedKeeps
  <2>5. RowTold(j)'
    BY <1>2, <1>3, <1>4, <2>1, <2>4, ThreadIdleFact DEF RowTold, Does
  <2> QED BY <2>3, <2>5
<1> QED BY <1>5, <1>6, <1>7, <1>8 DEF SavesInv

LEMMA WriteRowKeeps ==
    ASSUME SavesInv, NEW t \in Threads, WriteRow(t)
    PROVE  SavesInv'
<1>1. work[t].pc = "row" /\ work[t] \in Work /\ work[t].id \in Ids /\ work[t].at \in Times
  BY WorkTyped DEF WriteRow, Work
<1>2. disk[work[t].id].save = work[t].at
  BY <1>1 DEF SavesInv, FolderTold, Written
<1> DEFINE put == [at |-> work[t].at, auto |-> work[t].kind # "manual"]
<1>3. put \in Row /\ put.at = work[t].at
  BY <1>1 DEF Row
<1> QED BY <1>1, <1>2, <1>3, PutKeeps DEF WriteRow

LEMMA DropRowKeeps ==
    ASSUME SavesInv, NEW t \in Threads, DropRow(t)
    PROVE  SavesInv'
<1>1. work[t].pc = "locked" /\ work[t].do = "delete" /\ work[t] \in Work /\ work[t].id \in Ids
  BY WorkTyped DEF DropRow, Work
<1>2. disk[work[t].id].save = 0
  BY <1>1 DEF SavesInv, FolderTold, NoFolder
<1>3. NoRow \in Row /\ NoRow.at = 0
  BY DEF Row, NoRow, Times
<1> QED BY <1>1, <1>2, <1>3, PutKeeps DEF DropRow

LEMMA DeleteBeginsKeeps ==
    ASSUME SavesInv, NEW t \in Threads, NEW i \in Ids, DeleteBegins(t, i)
    PROVE  SavesInv'
<1> DEFINE w == [pc |-> "unlink", do |-> "delete", id |-> i,
                 kind |-> "delete", at |-> 0, seen |-> rows]
<1>1. UNCHANGED <<disk, rows, holder, time, unlisted, torn>>
  BY DEF DeleteBegins
<1>2. Does(t, w) /\ w \in Work
  <2>1. w \in Work
    BY DEF SavesInv, SavesTypeOK, Work, Row, Times
  <2> QED BY <2>1, DoesAs DEF DeleteBegins
<1>3. work[t] = ThreadIdle /\ \A u \in Threads : work[u].pc # "idle" => work[u].id # i
  BY DEF DeleteBegins, Busy
<1>4. w.pc = "unlink" /\ w.do = "delete" /\ w.id = i /\ w.kind = "delete"
  OBVIOUS
<1> HIDE DEF w
<1>5. SavesTypeOK'
  BY <1>1, <1>2 DEF SavesInv, SavesTypeOK, Does, Work, Row
<1>6. IndexLocked'
  BY <1>1, <1>2, <1>3, <1>4, ThreadIdleFact DEF SavesInv, IndexLocked, Does
<1>7. WorkTold' /\ OneEach'
  BY <1>1, <1>2, <1>3, <1>4, ThreadIdleFact DEF SavesInv, WorkTold, OneEach, Does
<1>8. ASSUME NEW j \in Ids PROVE FolderTold(j)' /\ RowTold(j)'
  <2>1. FolderTold(j) /\ RowTold(j)
    BY DEF SavesInv
  <2>2. Deleting(j) => Deleting(j)'
    BY <1>2, <1>3, <1>4, ThreadIdleFact DEF Deleting, Does
  <2>3. FolderTold(j)'
    BY <1>1, <1>2, <1>3, <1>4, <2>1, <2>2, ThreadIdleFact DEF FolderTold, Does, Unwritten, Written
  <2>4. RowTold(j)'
    BY <1>1, <1>2, <1>3, <1>4, <2>1, ThreadIdleFact DEF RowTold, Does, Unwritten
  <2> QED BY <2>3, <2>4
<1> QED BY <1>5, <1>6, <1>7, <1>8 DEF SavesInv

LEMMA UnlinkKeeps ==
    ASSUME SavesInv, NEW t \in Threads, NEW file \in {"save", "bak", "memory"}, Unlink(t, file)
    PROVE  SavesInv'
<1> DEFINE i == work[t].id
<1>1. work[t].pc = "unlink" /\ work[t] \in Work /\ i \in Ids /\ work[t].do = "delete"
      /\ UNCHANGED <<rows, holder, work, time, unlisted, torn>>
  BY WorkTyped DEF Unlink, SavesInv, WorkTold, Work
<1>2. /\ disk' \in [Ids -> [save : Times, bak : Times, memory : Times]]
      /\ disk'[i].save \in {0, disk[i].save} /\ disk'[i].bak \in {0, disk[i].bak}
      /\ disk'[i].memory \in {0, disk[i].memory}
      /\ \A j \in Ids : j # i => disk'[j] = disk[j]
  <2>1. disk' = [disk EXCEPT ![i] = [disk[i] EXCEPT ![file] = 0]]
    BY DEF Unlink
  <2>2. disk \in [Ids -> [save : Times, bak : Times, memory : Times]] /\ 0 \in Times
    BY DEF SavesInv, SavesTypeOK, Times
  <2>3. disk[i] \in [save : Times, bak : Times, memory : Times]
    BY <1>1, <2>2
  <2>4. /\ [disk[i] EXCEPT ![file] = 0] \in [save : Times, bak : Times, memory : Times]
        /\ [disk[i] EXCEPT ![file] = 0].save \in {0, disk[i].save}
        /\ [disk[i] EXCEPT ![file] = 0].bak \in {0, disk[i].bak}
        /\ [disk[i] EXCEPT ![file] = 0].memory \in {0, disk[i].memory}
    <3>1. CASE file = "save"
      BY <2>2, <2>3, <3>1
    <3>2. CASE file = "bak"
      BY <2>2, <2>3, <3>2
    <3>3. CASE file = "memory"
      BY <2>2, <2>3, <3>3
    <3> QED BY <3>1, <3>2, <3>3
  <2> QED BY <1>1, <2>1, <2>2, <2>4
<1>3. SavesTypeOK'
  BY <1>1, <1>2 DEF SavesInv, SavesTypeOK
<1>4. IndexLocked' /\ WorkTold' /\ OneEach'
  BY <1>1 DEF SavesInv, IndexLocked, WorkTold, OneEach
<1>5. ASSUME NEW j \in Ids PROVE FolderTold(j)' /\ RowTold(j)'
  <2>1. FolderTold(j) /\ RowTold(j)
    BY DEF SavesInv
  <2>2. CASE j = i
    <3>1. Deleting(j)'
      BY <1>1, <2>2 DEF Deleting
    <3>2. \A u \in Threads : work[u].pc # "idle" /\ work[u].id = j => u = t
      BY <1>1, <2>2 DEF SavesInv, OneEach
    <3>3. ~Unwritten(work[t]) /\ ~Written(work[t])
      BY <1>1 DEF Unwritten, Written
    <3>4. 0 <= time
      BY DEF SavesInv, SavesTypeOK, Times
    <3>5. FolderTold(j)'
      BY <1>1, <1>2, <2>1, <2>2, <3>1, <3>2, <3>3, <3>4 DEF FolderTold
    <3>6. RowTold(j)'
      BY <1>1, <2>2, <3>3 DEF RowTold
    <3> QED BY <3>5, <3>6
  <2>3. CASE j # i
    BY <1>1, <1>2, <2>1, <2>3 DEF FolderTold, RowTold, Deleting
  <2> QED BY <2>2, <2>3
<1> QED BY <1>3, <1>4, <1>5 DEF SavesInv

LEMMA UnlinkedKeeps ==
    ASSUME SavesInv, NEW t \in Threads, Unlinked(t)
    PROVE  SavesInv'
<1>1. work[t].pc = "unlink" /\ work[t] \in Work /\ work[t].id \in Ids /\ work[t].do = "delete"
      /\ disk[work[t].id] = NoFolder
      /\ UNCHANGED <<disk, rows, holder, time, unlisted, torn>>
  BY WorkTyped DEF Unlinked, SavesInv, WorkTold, Work
<1>2. PICK w \in Work : /\ Does(t, w) /\ w.pc = "lock"
                        /\ w.do = work[t].do /\ w.id = work[t].id
                        /\ w.kind = work[t].kind /\ w.at = work[t].at
  BY <1>1, DoesPlace DEF Unlinked
<1>3. SavesTypeOK'
  BY <1>1, <1>2 DEF SavesInv, SavesTypeOK, Does, Work, Row
<1>4. IndexLocked'
  BY <1>1, <1>2 DEF SavesInv, IndexLocked, Does
<1>5. WorkTold' /\ OneEach'
  BY <1>1, <1>2 DEF SavesInv, WorkTold, OneEach, Does
<1>6. ASSUME NEW j \in Ids PROVE FolderTold(j)' /\ RowTold(j)'
  <2>1. FolderTold(j) /\ RowTold(j)
    BY DEF SavesInv
  <2>2. j # w.id => (Deleting(j)' <=> Deleting(j))
    BY <1>1, <1>2 DEF Deleting, Does
  <2>3. CASE j = w.id
    <3>1. disk[j].save = 0 /\ disk[j].bak = 0 /\ disk[j].memory = 0
      BY <1>1, <1>2, <2>3 DEF NoFolder
    <3>2. \A u \in Threads : work'[u].pc # "idle" /\ work'[u].id = j => u = t
      BY <1>2, <1>5, <2>3 DEF OneEach, Does, Work
    <3>3. ~Unwritten(w) /\ ~Written(w)
      BY <1>1, <1>2 DEF Unwritten, Written
    <3>4. FolderTold(j)'
      BY <1>1, <1>2, <2>1, <2>3, <3>1, <3>2, <3>3 DEF FolderTold, Does
    <3>5. RowTold(j)'
      BY <1>2, <2>3, <3>3 DEF RowTold, Does, Work
    <3> QED BY <3>4, <3>5
  <2>4. CASE j # w.id
    BY <1>1, <1>2, <2>1, <2>2, <2>4 DEF FolderTold, RowTold, Does
  <2> QED BY <2>3, <2>4
<1> QED BY <1>3, <1>4, <1>5, <1>6 DEF SavesInv

LEMMA ReindexKeeps ==
    ASSUME SavesInv, NEW t \in Threads, Reindex(t)
    PROVE  SavesInv'
<1> DEFINE found == [i \in Ids |-> IF Readable(disk[i]) = 0 THEN NoRow
                                   ELSE [at |-> Readable(disk[i]), auto |-> rows[i].auto]]
<1>1. holder = Nobody /\ rows' = Bounded(found)
      /\ unlisted' = Listed(found) \ Listed(Bounded(found))
      /\ UNCHANGED <<disk, holder, work, time, torn>>
  BY DEF Reindex
<1>2. found \in [Ids -> Row] /\ \A i \in Ids : found[i].at = Readable(disk[i])
  <2>1. \A i \in Ids : Readable(disk[i]) \in Times
    BY DEF SavesInv, SavesTypeOK, Readable
  <2>2. NoRow \in Row /\ NoRow.at = 0
    BY DEF NoRow, Row, Times
  <2>3. \A i \in Ids : rows[i].auto \in BOOLEAN
    BY DEF SavesInv, SavesTypeOK
  <2> QED BY <2>1, <2>2, <2>3 DEF Row
<1> HIDE DEF found
<1>3. SavesTypeOK'
  <2>1. Listed(found) \subseteq Ids
    BY DEF Listed
  <2> QED BY <1>1, <1>2, <2>1, BoundedKeeps DEF SavesInv, SavesTypeOK, Row
<1>4. IndexLocked' /\ WorkTold' /\ OneEach'
  BY <1>1 DEF SavesInv, IndexLocked, WorkTold, OneEach
<1>5. ASSUME NEW j \in Ids PROVE FolderTold(j)' /\ RowTold(j)'
  <2>1. FolderTold(j)
    BY DEF SavesInv
  <2>2. FolderTold(j)'
    BY <1>1, <2>1 DEF FolderTold, Deleting
  <2>3. ASSUME j \notin unlisted' \cup torn',
               \A u \in Threads : work'[u].pc # "idle" /\ work'[u].id = j => Unwritten(work'[u])
        PROVE  rows'[j].at = disk'[j].save
    <3>1. ~Deleting(j) /\ j \notin torn
      BY <1>1, <2>3 DEF Deleting, Unwritten
    <3>2. Readable(disk[j]) = disk[j].save
      BY <2>1, <3>1 DEF FolderTold, Readable
    <3>3. rows'[j] = found[j]
      BY <1>1, <1>2, <2>3, BoundedKeeps
    <3> QED BY <1>1, <1>2, <3>2, <3>3
  <2>4. RowTold(j)'
    BY <2>3 DEF RowTold
  <2> QED BY <2>2, <2>4
<1> QED BY <1>3, <1>4, <1>5 DEF SavesInv

LEMMA CrashKeeps ==
    ASSUME SavesInv, Crash
    PROVE  SavesInv'
<1>1. holder' = Nobody /\ UNCHANGED <<disk, rows, time>>
      /\ work' = [t \in Threads |-> ThreadIdle]
  BY DEF Crash
<1>2. \A t \in Threads : work'[t].pc = "idle"
  BY <1>1, ThreadIdleFact
<1>3. \A t \in Threads : work[t].pc # "idle" => work[t].id \in unlisted'
  BY ThreadIdleFact DEF Crash
<1>4. \A t \in Threads : work[t].pc # "idle" /\ work[t].do = "delete" => work[t].id \in torn'
  BY DEF Crash
<1>5. /\ unlisted \subseteq unlisted' /\ torn \subseteq torn'
      /\ unlisted' \subseteq Ids /\ torn' \subseteq Ids
  <2>1. \A t \in Threads : work[t].pc # "idle" => work[t].id \in Ids
    BY WorkTyped DEF Work
  <2>2. \A t \in Threads : work[t] # ThreadIdle => work[t].pc # "idle"
    BY DEF SavesInv, SavesTypeOK
  <2> QED BY <2>1, <2>2 DEF Crash, SavesInv, SavesTypeOK
<1>6. SavesTypeOK'
  BY <1>1, <1>5 DEF SavesInv, SavesTypeOK
<1>7. IndexLocked' /\ WorkTold' /\ OneEach'
  BY <1>1, <1>2 DEF IndexLocked, WorkTold, OneEach
<1>8. ASSUME NEW j \in Ids PROVE FolderTold(j)' /\ RowTold(j)'
  <2>1. FolderTold(j) /\ RowTold(j)
    BY DEF SavesInv
  <2>2. j \notin torn' => j \notin torn /\ ~Deleting(j)
    BY <1>4, <1>5 DEF Deleting, SavesInv, WorkTold
  <2>3. FolderTold(j)'
    BY <1>1, <1>2, <2>1, <2>2 DEF FolderTold
  <2>4. RowTold(j)'
    BY <1>1, <1>2, <1>3, <1>5, <2>1 DEF RowTold
  <2> QED BY <2>3, <2>4
<1> QED BY <1>6, <1>7, <1>8 DEF SavesInv

LEMMA FailsKeeps ==
    ASSUME SavesInv, NEW t \in Threads, Fails(t)
    PROVE  SavesInv'
<1> DEFINE i == work[t].id
<1>1. work[t].pc \in {"files", "memory", "row", "unlink"} /\ work[t] \in Work /\ i \in Ids
      /\ UNCHANGED <<disk, rows, time>>
      /\ holder' = (IF holder = t THEN Nobody ELSE holder)
      /\ unlisted' = unlisted \cup {i}
      /\ torn' = (IF work[t].do = "delete" THEN torn \cup {i} ELSE torn)
  BY WorkTyped DEF Fails, Work
<1>2. Does(t, ThreadIdle)
  BY DoesAs DEF Fails
<1>3. SavesTypeOK'
  BY <1>1, <1>2 DEF SavesInv, SavesTypeOK, Does, Work, Row
<1>4. IndexLocked'
  BY <1>1, <1>2, ThreadIdleFact DEF SavesInv, IndexLocked, Does
<1>5. WorkTold' /\ OneEach'
  BY <1>1, <1>2, ThreadIdleFact DEF SavesInv, WorkTold, OneEach, Does
<1>6. ASSUME NEW j \in Ids PROVE FolderTold(j)' /\ RowTold(j)'
  <2>1. FolderTold(j) /\ RowTold(j)
    BY DEF SavesInv
  <2>2. j \notin torn' /\ ~Deleting(j)' => j \notin torn /\ ~Deleting(j)
    BY <1>1, <1>2, ThreadIdleFact DEF Deleting, Does, SavesInv, WorkTold
  <2>3. FolderTold(j)'
    BY <1>1, <1>2, <2>1, <2>2, ThreadIdleFact DEF FolderTold, Does
  <2>4. RowTold(j)'
    BY <1>1, <1>2, <2>1, ThreadIdleFact DEF RowTold, Does
  <2> QED BY <2>3, <2>4
<1> QED BY <1>3, <1>4, <1>5, <1>6 DEF SavesInv

----------------------------------------------------------------------------
LEMMA SavesInitInv ==
    ASSUME SavesInit
    PROVE  SavesInv
<1>1. 0 \in Times /\ NoFolder.save = 0 /\ NoFolder.bak = 0 /\ NoFolder.memory = 0 /\ NoRow.at = 0
  BY DEF Times, NoFolder, NoRow
<1>2. \A t \in Threads : work[t].pc = "idle"
  BY ThreadIdleFact DEF SavesInit
<1>3. SavesTypeOK
  BY <1>1 DEF SavesInit, SavesTypeOK, NoFolder, NoRow
<1>4. IndexLocked /\ WorkTold /\ OneEach
  BY <1>2 DEF SavesInit, IndexLocked, WorkTold, OneEach
<1>5. \A i \in Ids : FolderTold(i) /\ RowTold(i)
  BY <1>1, <1>2 DEF SavesInit, FolderTold, RowTold
<1> QED BY <1>3, <1>4, <1>5 DEF SavesInv

LEMMA SavesNextKeeps ==
    ASSUME SavesInv, [SavesNext]_savesVars
    PROVE  SavesInv'
<1>1. CASE Crash
  BY <1>1, CrashKeeps
<1>2. ASSUME NEW t \in Threads, ThreadStep(t) PROVE SavesInv'
  BY <1>2, FailsKeeps, DeleteBeginsKeeps, SaveBeginsKeeps, TakeLockKeeps, SaveCountedKeeps,
     WriteSaveKeeps, WriteMemoryKeeps, WriteRowKeeps, UnlinkedKeeps, DropRowKeeps,
     ReindexKeeps, UnlinkKeeps DEF ThreadStep
<1>3. CASE UNCHANGED savesVars
  <2>1. SavesTypeOK' /\ IndexLocked' /\ WorkTold' /\ OneEach'
    BY <1>3 DEF savesVars, SavesInv, SavesTypeOK, IndexLocked, WorkTold, OneEach
  <2>2. \A i \in Ids : FolderTold(i)' /\ RowTold(i)'
    BY <1>3 DEF savesVars, SavesInv, FolderTold, RowTold, Deleting
  <2> QED BY <2>1, <2>2 DEF SavesInv
<1> QED BY <1>1, <1>2, <1>3 DEF SavesNext

LEMMA SavesInvWhole ==
    ASSUME SavesInv
    PROVE  SavesWhole
<1>1. RowsMatchFiles
  BY DEF SavesInv, RowTold, RowsMatchFiles, Busy
<1>2. MemoryNotAhead
  <2>1. ASSUME NEW i \in Ids \ torn, ~Busy(i) PROVE disk[i].memory <= Readable(disk[i])
    <3>1. disk[i].memory <= disk[i].save /\ (disk[i].save = 0 => disk[i].bak = 0)
      BY <2>1 DEF SavesInv, FolderTold, Deleting, Busy
    <3> QED BY <3>1 DEF Readable
  <2> QED BY <2>1 DEF MemoryNotAhead
<1>3. RoomKept
  BY DEF SavesInv, IndexLocked, RoomKept, HasRoom
<1> QED BY <1>1, <1>2, <1>3 DEF SavesWhole

(* However requests and crashes fall on a save folder, its index, files and  *)
(* limit agree (SaveStore).                                                 *)
THEOREM SavesStayWhole == SavesSpec => []SavesWhole
<1>1. SavesInit => SavesInv
  BY SavesInitInv
<1>2. SavesInv /\ [SavesNext]_savesVars => SavesInv'
  BY SavesNextKeeps
<1>3. SavesInv => SavesWhole
  BY SavesInvWhole
<1> QED BY <1>1, <1>2, <1>3, PTL DEF SavesSpec

HIDE SavesConstants DEF SavesConstants

----------------------------------------------------------------------------
(* The front door's places: what is counted is a set of requests, and an    *)
(* account's connections are what it holds less its pairings.               *)
Conn == Conns \cup {NoConn}
Hold == [polls : Nat, sockets : Nat, joined : BOOLEAN]
Req == [pc : {"held", "slot", "turn", "refused", "place"}, kind : HoldKinds \cup {"turn"},
        of : Accounts, conn : Conn]

Held(a, c, kind) ==
    {q \in In({"held"}) : request[q].of = a /\ request[q].conn = c /\ request[q].kind = kind}
HeldOf(a) == {q \in In({"held"}) : request[q].of = a}
InPool == In({"held", "turn", "place"})
InSlot == In({"slot", "turn", "refused"})
InSlotOf(a) == {q \in InSlot : request[q].of = a}

(* A finite set, and how many it has. *)
Counted(n, S) == IsFiniteSet(S) /\ n = Cardinality(S)

(* The sessions whose WebSocket has joined its poll. *)
Joined(a) == {p \in Connected(a) : p[2] = 1 /\ record[a][p[1]].joined}

DoorsTyped ==
    /\ request \in [Requests -> {Out} \cup Req]
    /\ record \in [Accounts -> [Conn -> Hold]]
    /\ turnsOf \in [Accounts -> Nat]

(* The places and the slots, and each record, count requests; only a poll or *)
(* a WebSocket is held.                                                      *)
AllCounted ==
    /\ Counted(inside, InPool) /\ Counted(turns, InSlot)
    /\ \A a \in Accounts :
          /\ Counted(turnsOf[a], InSlotOf(a))
          /\ \A c \in Conn :
                /\ Counted(record[a][c].polls, Held(a, c, "poll"))
                /\ Counted(record[a][c].sockets, Held(a, c, "socket"))
    /\ \A q \in In({"held"}) : request[q].kind \in HoldKinds

(* A pairing has both its sides, and is of a session. *)
PairsWhole ==
    \A a \in Accounts, c \in Conn : record[a][c].joined =>
        c # NoConn /\ record[a][c].polls >= 1 /\ record[a][c].sockets >= 1

(* What an account holds are its connections and, once more, its pairings. *)
HoldsAdded ==
    \A a \in Accounts :
        /\ IsFiniteSet(Connected(a)) /\ Connections(a) <= PerAccount
        /\ IsFiniteSet(HeldOf(a))
        /\ Cardinality(HeldOf(a)) = Connections(a) + Cardinality(Joined(a))

DoorsInv == DoorsTyped /\ AllCounted /\ PairsWhole /\ HoldsAdded

----------------------------------------------------------------------------
(* One more, or one fewer, in what is counted. *)
LEMMA CountedAdd ==
    ASSUME NEW n, NEW S, NEW x, Counted(n, S), x \notin S
    PROVE  n \in Nat /\ Counted(n + 1, S \cup {x})
BY FS_AddElement, FS_CardinalityType DEF Counted

LEMMA CountedDrop ==
    ASSUME NEW n, NEW S, NEW x, Counted(n, S), x \in S
    PROVE  n \in Nat /\ n >= 1 /\ Counted(n - 1, S \ {x})
<1>1. n \in Nat /\ n # 0
  BY FS_EmptySet, FS_CardinalityType DEF Counted
<1> QED BY <1>1, FS_RemoveElement DEF Counted

(* A request is out, or somewhere. *)
LEMMA ReqTyped ==
    ASSUME DoorsInv, NEW q \in Requests
    PROVE  /\ request[q] # Out => request[q] \in Req
           /\ Out.pc = "out" /\ (request[q].pc = "out" <=> request[q] = Out)
BY DEF DoorsInv, DoorsTyped, Out, Req

(* A request goes on as r. *)
BecomesReq(q, r) ==
    /\ r \in {Out} \cup Req
    /\ request' \in [Requests -> {Out} \cup Req]
    /\ request'[q] = r
    /\ \A p \in Requests : p # q => request'[p] = request[p]

LEMMA BecomesAs ==
    ASSUME DoorsInv, NEW q \in Requests, NEW r \in {Out} \cup Req, request' = [request EXCEPT ![q] = r]
    PROVE  BecomesReq(q, r)
BY DEF DoorsInv, DoorsTyped, BecomesReq

(* The record of one account's session becomes r. *)
Recorded(a, c, r) == record' = [record EXCEPT ![a][c] = r]

LEMMA RecordIs ==
    ASSUME DoorsInv, NEW a \in Accounts, NEW c \in Conn, NEW r \in Hold, Recorded(a, c, r)
    PROVE  /\ record' \in [Accounts -> [Conn -> Hold]] /\ record'[a][c] = r
           /\ \A b \in Accounts, d \in Conn : b # a \/ d # c => record'[b][d] = record[b][d]
           /\ \A b \in Accounts : b # a => Connected(b)' = Connected(b)
<1>1. record \in [Accounts -> [Conn -> Hold]]
  BY DEF DoorsInv, DoorsTyped
<1>2. record' \in [Accounts -> [Conn -> Hold]] /\ record'[a][c] = r
      /\ \A b \in Accounts, d \in Conn : b # a \/ d # c => record'[b][d] = record[b][d]
  BY <1>1 DEF Recorded
<1>3. ASSUME NEW b \in Accounts, b # a PROVE Connected(b)' = Connected(b)
  <2>1. \A d \in Conn : record'[b][d] = record[b][d]
    BY <1>2, <1>3
  <2> QED BY <2>1 DEF Connected, Conn
<1> QED BY <1>2, <1>3

(* A session's count grows by one, shrinks by one, or stays. *)
LEMMA CountFollows ==
    ASSUME DoorsInv, NEW a \in Accounts, NEW c \in Conn, NEW r \in Hold, Recorded(a, c, r),
           r.joined => r.polls >= 1 /\ r.sockets >= 1
    PROVE  LET n == Count(c, record[a][c])
               m == Count(c, r)
           IN  /\ n \in Nat /\ m \in Nat
               /\ m = n => Connected(a)' = Connected(a)
               /\ m = n + 1 => <<c, m>> \notin Connected(a)
                               /\ Connected(a)' = Connected(a) \cup {<<c, m>>}
               /\ m = n - 1 => <<c, n>> \in Connected(a)
                               /\ Connected(a)' = Connected(a) \ {<<c, n>>}
<1> DEFINE n == Count(c, record[a][c])
           m == Count(c, r)
<1>1. n = Count(c, record[a][c]) /\ m = Count(c, r)
  OBVIOUS
<1> HIDE DEF n, m
<1>2. record'[a][c] = r /\ \A d \in Conn : d # c => record'[a][d] = record[a][d]
  BY RecordIs
<1>3. n \in Nat /\ m \in Nat
  <2>1. record[a][c] \in Hold /\ (record[a][c].joined =>
           record[a][c].polls >= 1 /\ record[a][c].sockets >= 1)
    BY DEF DoorsInv, DoorsTyped, PairsWhole
  <2> QED BY <1>1, <2>1 DEF Count, Hold
<1>4. \A x : x \in Connected(a)' <=>
         \/ \E i \in 1..m : x = <<c, i>>
         \/ \E d \in Conn : d # c /\ \E i \in 1..Count(d, record[a][d]) : x = <<d, i>>
  <2>1. \A x : x \in Connected(a)' <=>
           \E d \in Conn : \E i \in 1..Count(d, record'[a][d]) : x = <<d, i>>
    BY DEF Connected, Conn
  <2> QED BY <1>1, <1>2, <2>1
<1>5. \A x : x \in Connected(a) <=>
         \/ \E i \in 1..n : x = <<c, i>>
         \/ \E d \in Conn : d # c /\ \E i \in 1..Count(d, record[a][d]) : x = <<d, i>>
  <2>1. \A x : x \in Connected(a) <=>
           \E d \in Conn : \E i \in 1..Count(d, record[a][d]) : x = <<d, i>>
    BY DEF Connected, Conn
  <2> QED BY <1>1, <2>1
<1>6. ASSUME m = n PROVE Connected(a)' = Connected(a)
  BY <1>4, <1>5, <1>6
<1>7. ASSUME m = n + 1
      PROVE  <<c, m>> \notin Connected(a) /\ Connected(a)' = Connected(a) \cup {<<c, m>>}
  <2>1. \A i : i \in 1..m <=> i \in 1..n \/ i = m
    BY <1>3, <1>7
  <2>2. m \notin 1..n
    BY <1>3, <1>7
  <2> QED BY <1>4, <1>5, <2>1, <2>2
<1>8. ASSUME m = n - 1
      PROVE  <<c, n>> \in Connected(a) /\ Connected(a)' = Connected(a) \ {<<c, n>>}
  <2>1. \A i : i \in 1..m <=> i \in 1..n /\ i # n
    BY <1>3, <1>8
  <2>2. n \in 1..n
    BY <1>3, <1>8
  <2> QED BY <1>4, <1>5, <2>1, <2>2
<1> QED BY <1>1, <1>3, <1>6, <1>7, <1>8

(* A session is among the pairings, once, when its record is joined. *)
LEMMA PairsIn ==
    ASSUME DoorsInv, NEW a \in Accounts
    PROVE  /\ \A c \in Conn : <<c, 1>> \in Joined(a) <=> record[a][c].joined
           /\ \A p \in Joined(a) : p = <<p[1], 1>> /\ p[1] \in Conn
           /\ IsFiniteSet(Joined(a)) /\ Cardinality(Joined(a)) \in Nat
           /\ Cardinality(Joined(a)) <= Connections(a) /\ Connections(a) \in Nat
<1>1. \A x : x \in Connected(a) <=>
         \E d \in Conn : \E i \in 1..Count(d, record[a][d]) : x = <<d, i>>
  BY DEF Connected, Conn
<1>2. ASSUME NEW c \in Conn, record[a][c].joined PROVE 1 \in 1..Count(c, record[a][c])
  <2>1. record[a][c] \in Hold /\ record[a][c].polls >= 1 /\ record[a][c].sockets >= 1
    BY <1>2 DEF DoorsInv, DoorsTyped, PairsWhole
  <2>2. Count(c, record[a][c]) \in Nat /\ Count(c, record[a][c]) >= 1
    BY <2>1 DEF Count, Hold
  <2> QED BY <2>2
<1>3. \A c \in Conn : <<c, 1>> \in Joined(a) <=> record[a][c].joined
  BY <1>1, <1>2 DEF Joined
<1>4. \A p \in Joined(a) : p = <<p[1], 1>> /\ p[1] \in Conn
  BY <1>1 DEF Joined
<1>5. IsFiniteSet(Connected(a)) /\ Joined(a) \subseteq Connected(a)
  BY DEF DoorsInv, HoldsAdded, Joined
<1> QED BY <1>3, <1>4, <1>5, FS_Subset, FS_CardinalityType DEF Connections

(* The pairings, by what becomes of one record. *)
LEMMA PairsChange ==
    ASSUME DoorsInv, NEW a \in Accounts, NEW c \in Conn, NEW r \in Hold,
           Recorded(a, c, r),
           r.joined => r.polls >= 1 /\ r.sockets >= 1
    PROVE  /\ \A b \in Accounts : b # a => Joined(b)' = Joined(b)
           /\ Joined(a)' = IF r.joined THEN Joined(a) \cup {<<c, 1>>} ELSE Joined(a) \ {<<c, 1>>}
<1>1. record \in [Accounts -> [Conn -> Hold]]
  BY DEF DoorsInv, DoorsTyped
<1>2. /\ record' \in [Accounts -> [Conn -> Hold]] /\ record'[a][c] = r
      /\ \A b \in Accounts, d \in Conn : b # a \/ d # c => record'[b][d] = record[b][d]
      /\ \A b \in Accounts : b # a => Connected(b)' = Connected(b)
  BY RecordIs
<1>3. \A b \in Accounts : \A x : x \in Connected(b) =>
         \E d \in Conn : x = <<d, x[2]>> /\ x[1] = d
  BY DEF Connected, Conn
<1>4. \A b \in Accounts : \A x : x \in Connected(b)' <=>
         \E d \in Conn : \E i \in 1..Count(d, record'[b][d]) : x = <<d, i>>
  BY DEF Connected, Conn
<1>5. \A b \in Accounts : b # a => Joined(b)' = Joined(b)
  <2> TAKE b \in Accounts
  <2> HAVE b # a
  <2>1. Connected(b)' = Connected(b) /\ \A d \in Conn : record'[b][d] = record[b][d]
    BY <1>2
  <2>2. \A p \in Connected(b) : record'[b][p[1]] = record[b][p[1]]
    BY <1>3, <2>1
  <2> QED BY <2>1, <2>2 DEF Joined
<1>6. \A d \in Conn : d # c => (<<d, 1>> \in Joined(a)' <=> <<d, 1>> \in Joined(a))
  <2>1. \A d \in Conn : d # c => (<<d, 1>> \in Connected(a)' <=> 1 \in 1..Count(d, record[a][d]))
    BY <1>2, <1>4
  <2>2. \A d \in Conn : <<d, 1>> \in Connected(a) <=> 1 \in 1..Count(d, record[a][d])
    BY DEF Connected, Conn
  <2> QED BY <1>2, <2>1, <2>2 DEF Joined
<1>7. <<c, 1>> \in Joined(a)' <=> r.joined
  <2>1. r.joined => 1 \in 1..Count(c, r)
    <3>1. r.joined => Count(c, r) \in Nat /\ Count(c, r) >= 1
      BY DEF Count, Hold
    <3> QED BY <3>1
  <2> QED BY <1>2, <1>4, <2>1 DEF Joined
<1>8. \A p \in Joined(a)' : p = <<p[1], 1>> /\ p[1] \in Conn
  BY <1>4 DEF Joined
<1>9. Joined(a)' = IF r.joined THEN Joined(a) \cup {<<c, 1>>} ELSE Joined(a) \ {<<c, 1>>}
  <2>1. \A p : p \in Joined(a)' <=>
           p \in (IF r.joined THEN Joined(a) \cup {<<c, 1>>} ELSE Joined(a) \ {<<c, 1>>})
    <3> TAKE p
    <3>1. CASE p = <<c, 1>>
      BY <1>7, <3>1
    <3>2. CASE p # <<c, 1>>
      <4>1. p \in Joined(a) => p = <<p[1], 1>> /\ p[1] \in Conn
        BY PairsIn
      <4> QED BY <1>6, <1>8, <3>2, <4>1
    <3> QED BY <3>1, <3>2
  <2> QED BY <2>1
<1> QED BY <1>5, <1>9

----------------------------------------------------------------------------
(* What a set becomes when only q may have come or gone. *)
Moved(then, now, q, in) ==
    /\ (q \in now <=> in) => then = now
    /\ q \notin now /\ in => then = now \cup {q}
    /\ q \in now /\ ~in => then = now \ {q}

(* A set that differs only in q is moved so. *)
LEMMA MovedIs ==
    ASSUME NEW then, NEW now, NEW q, NEW in \in BOOLEAN,
           q \in then <=> in, \A x : x # q => (x \in then <=> x \in now)
    PROVE  Moved(then, now, q, in)
BY DEF Moved

(* Where a request goes is where it is counted. *)
LEMMA PoolMoves ==
    ASSUME NEW q \in Requests, NEW r \in {Out} \cup Req, BecomesReq(q, r)
    PROVE  Moved(InPool', InPool, q, r.pc \in {"held", "turn", "place"})
BY DEF BecomesReq, InPool, In, Moved

LEMMA SlotsMove ==
    ASSUME NEW q \in Requests, NEW r \in {Out} \cup Req, BecomesReq(q, r)
    PROVE  Moved(InSlot', InSlot, q, r.pc \in {"slot", "turn", "refused"})
BY DEF BecomesReq, InSlot, In, Moved

LEMMA SlotsOfMove ==
    ASSUME NEW q \in Requests, NEW r \in {Out} \cup Req, BecomesReq(q, r), NEW a \in Accounts
    PROVE  Moved(InSlotOf(a)', InSlotOf(a), q, r.pc \in {"slot", "turn", "refused"} /\ r.of = a)
BY MovedIs DEF BecomesReq, InSlotOf, InSlot, In

LEMMA HoldsOfMove ==
    ASSUME NEW q \in Requests, NEW r \in {Out} \cup Req, BecomesReq(q, r), NEW a \in Accounts
    PROVE  Moved(HeldOf(a)', HeldOf(a), q, r.pc = "held" /\ r.of = a)
BY MovedIs DEF BecomesReq, HeldOf, In

LEMMA HeldMoves ==
    ASSUME NEW q \in Requests, NEW r \in {Out} \cup Req, BecomesReq(q, r),
           NEW a \in Accounts, NEW c \in Conn, NEW kind \in HoldKinds
    PROVE  Moved(Held(a, c, kind)', Held(a, c, kind), q,
                 r.pc = "held" /\ r.of = a /\ r.conn = c /\ r.kind = kind)
BY MovedIs DEF BecomesReq, Held, In

(* What the polls and sockets are does not change: nor do the connections. *)
LEMMA HoldsStay ==
    ASSUME DoorsInv, NEW q \in Requests, NEW r \in {Out} \cup Req, BecomesReq(q, r),
           request[q].pc # "held", r.pc # "held", UNCHANGED record
    PROVE  /\ \A a \in Accounts, c \in Conn :
                 /\ Counted(record'[a][c].polls, Held(a, c, "poll")')
                 /\ Counted(record'[a][c].sockets, Held(a, c, "socket")')
           /\ \A p \in In({"held"})' : request'[p].kind \in HoldKinds
           /\ PairsWhole' /\ HoldsAdded'
<1>1. \A a \in Accounts : q \notin HeldOf(a) /\ HeldOf(a)' = HeldOf(a)
  <2>1. \A a \in Accounts : q \notin HeldOf(a)
    BY DEF HeldOf, In
  <2> QED BY <2>1, HoldsOfMove DEF Moved
<1>2. \A a \in Accounts, c \in Conn, kind \in HoldKinds : Held(a, c, kind)' = Held(a, c, kind)
  <2>1. \A a \in Accounts, c \in Conn, kind \in HoldKinds : q \notin Held(a, c, kind)
    BY DEF Held, In
  <2> QED BY <2>1, HeldMoves DEF Moved
<1>3. \A a \in Accounts : Connected(a)' = Connected(a) /\ Joined(a)' = Joined(a)
  BY DEF Connected, Joined
<1>4. \A p \in In({"held"})' : request'[p].kind \in HoldKinds
  BY DEF BecomesReq, In, DoorsInv, AllCounted
<1> QED BY <1>1, <1>2, <1>3, <1>4 DEF DoorsInv, AllCounted, PairsWhole, HoldsAdded, HoldKinds, Connections

LEMMA EntersSlotKeeps ==
    ASSUME DoorsInv, NEW q \in Requests, NEW a \in Accounts, EntersSlot(q, a)
    PROVE  DoorsInv'
<1> DEFINE r == [pc |-> "slot", kind |-> "turn", of |-> a, conn |-> NoConn]
<1>1. request[q].pc = "out" /\ turns' = turns + 1 /\ UNCHANGED <<inside, record>>
      /\ turnsOf' = [turnsOf EXCEPT ![a] = turnsOf[a] + 1]
  BY ReqTyped DEF EntersSlot
<1>2. r \in Req /\ r.pc = "slot" /\ r.of = a /\ BecomesReq(q, r)
  <2>1. r \in Req
    BY DEF Req, Conn
  <2> QED BY <2>1, BecomesAs DEF EntersSlot
<1> HIDE DEF r
<1>3. q \notin InPool /\ q \notin InSlot /\ \A b \in Accounts : q \notin InSlotOf(b)
  BY <1>1 DEF InPool, InSlot, InSlotOf, In
<1>4. DoorsTyped'
  BY <1>1, <1>2 DEF DoorsInv, DoorsTyped, BecomesReq
<1>5. Counted(inside, InPool)' /\ Counted(turns, InSlot)'
  <2>1. InPool' = InPool /\ InSlot' = InSlot \cup {q}
    BY <1>2, <1>3, PoolMoves, SlotsMove DEF Moved
  <2> QED BY <1>1, <1>3, <2>1, CountedAdd DEF DoorsInv, AllCounted
<1>6. ASSUME NEW b \in Accounts PROVE Counted(turnsOf'[b], InSlotOf(b)')
  <2>1. InSlotOf(b)' = IF b = a THEN InSlotOf(b) \cup {q} ELSE InSlotOf(b)
    BY <1>2, <1>3, SlotsOfMove DEF Moved
  <2>2. turnsOf'[b] = IF b = a THEN turnsOf[b] + 1 ELSE turnsOf[b]
    BY <1>1 DEF DoorsInv, DoorsTyped
  <2>3. Counted(turnsOf[b], InSlotOf(b))
    BY DEF DoorsInv, AllCounted
  <2> QED BY <1>3, <2>1, <2>2, <2>3, CountedAdd
<1>7. request[q].pc # "held" /\ r.pc # "held"
  BY <1>1, <1>2
<1> QED BY <1>1, <1>2, <1>4, <1>5, <1>6, <1>7, HoldsStay DEF DoorsInv, AllCounted

LEMMA EntersPoolKeeps ==
    ASSUME DoorsInv, NEW q \in Requests, EntersPool(q)
    PROVE  DoorsInv'
<1> DEFINE r == [request[q] EXCEPT !.pc = IF inside < HoldLimit THEN "turn" ELSE "refused"]
<1>1. request[q].pc = "slot" /\ request[q] \in Req /\ UNCHANGED <<turns, turnsOf, record>>
      /\ inside' = IF inside < HoldLimit THEN inside + 1 ELSE inside
  BY ReqTyped DEF EntersPool
<1>2. r \in Req /\ r.pc = (IF inside < HoldLimit THEN "turn" ELSE "refused")
      /\ r.of = request[q].of /\ BecomesReq(q, r)
  <2>1. r \in Req /\ r.pc = (IF inside < HoldLimit THEN "turn" ELSE "refused")
        /\ r.of = request[q].of
    BY <1>1 DEF Req
  <2>2. request' = [request EXCEPT ![q] = r]
    BY DEF EntersPool
  <2> HIDE DEF r
  <2> QED BY <2>1, <2>2, BecomesAs
<1> HIDE DEF r
<1>3. q \notin InPool /\ q \in InSlot
      /\ \A b \in Accounts : q \in InSlotOf(b) <=> b = request[q].of
  BY <1>1 DEF InPool, InSlot, InSlotOf, In
<1>4. DoorsTyped'
  BY <1>1, <1>2 DEF DoorsInv, DoorsTyped, BecomesReq
<1>5. Counted(inside, InPool)'
  <2>1. InPool' = IF inside < HoldLimit THEN InPool \cup {q} ELSE InPool
    BY <1>2, <1>3, PoolMoves DEF Moved
  <2> QED BY <1>1, <1>3, <2>1, CountedAdd DEF DoorsInv, AllCounted
<1>6. InSlot' = InSlot /\ \A b \in Accounts : InSlotOf(b)' = InSlotOf(b)
  BY <1>2, <1>3, SlotsMove, SlotsOfMove DEF Moved
<1>7. request[q].pc # "held" /\ r.pc # "held"
  BY <1>1, <1>2
<1> QED BY <1>1, <1>2, <1>4, <1>5, <1>6, <1>7, HoldsStay DEF DoorsInv, AllCounted

LEMMA LeavesSlotKeeps ==
    ASSUME DoorsInv, NEW q \in Requests, LeavesSlot(q)
    PROVE  DoorsInv'
<1> DEFINE r == IF request[q].pc = "turn" THEN [request[q] EXCEPT !.pc = "place"] ELSE Out
           a == request[q].of
<1>1. request[q].pc \in {"turn", "refused"} /\ request[q] \in Req /\ UNCHANGED <<inside, record>>
      /\ turns' = turns - 1 /\ a \in Accounts
      /\ turnsOf' = [turnsOf EXCEPT ![a] = turnsOf[a] - 1]
  BY ReqTyped DEF LeavesSlot, Req
<1>2. r \in {Out} \cup Req /\ r.pc = (IF request[q].pc = "turn" THEN "place" ELSE "out")
      /\ BecomesReq(q, r)
  <2>1. r \in {Out} \cup Req /\ r.pc = (IF request[q].pc = "turn" THEN "place" ELSE "out")
    BY <1>1, ReqTyped DEF Req
  <2>2. request' = [request EXCEPT ![q] = r]
    BY DEF LeavesSlot
  <2> HIDE DEF r
  <2> QED BY <2>1, <2>2, BecomesAs
<1> HIDE DEF r
<1>3. (q \in InPool <=> request[q].pc = "turn") /\ q \in InSlot
      /\ \A b \in Accounts : q \in InSlotOf(b) <=> b = a
  BY <1>1 DEF InPool, InSlot, InSlotOf, In
<1>4. Counted(inside, InPool)' /\ Counted(turns, InSlot)'
  <2>1. InPool' = InPool /\ InSlot' = InSlot \ {q}
    BY <1>1, <1>2, <1>3, PoolMoves, SlotsMove DEF Moved
  <2> QED BY <1>1, <1>3, <2>1, CountedDrop DEF DoorsInv, AllCounted
<1>5. turnsOf[a] - 1 \in Nat /\ Counted(turnsOf[a] - 1, InSlotOf(a) \ {q})
  <2>1. turnsOf[a] \in Nat /\ turnsOf[a] >= 1 /\ Counted(turnsOf[a] - 1, InSlotOf(a) \ {q})
    BY <1>1, <1>3, CountedDrop DEF DoorsInv, AllCounted
  <2> QED BY <2>1
<1>6. DoorsTyped'
  BY <1>1, <1>2, <1>5 DEF DoorsInv, DoorsTyped, BecomesReq
<1>7. ASSUME NEW b \in Accounts PROVE Counted(turnsOf'[b], InSlotOf(b)')
  <2>1. InSlotOf(b)' = IF b = a THEN InSlotOf(b) \ {q} ELSE InSlotOf(b)
    BY <1>1, <1>2, <1>3, SlotsOfMove DEF Moved
  <2>2. turnsOf'[b] = IF b = a THEN turnsOf[b] - 1 ELSE turnsOf[b]
    BY <1>1 DEF DoorsInv, DoorsTyped
  <2>3. Counted(turnsOf[b], InSlotOf(b))
    BY DEF DoorsInv, AllCounted
  <2> QED BY <1>5, <2>1, <2>2, <2>3
<1>8. request[q].pc # "held" /\ r.pc # "held"
  BY <1>1, <1>2
<1> QED BY <1>1, <1>2, <1>4, <1>6, <1>7, <1>8, HoldsStay DEF DoorsInv, AllCounted

LEMMA LeavesPoolKeeps ==
    ASSUME DoorsInv, NEW q \in Requests, LeavesPool(q)
    PROVE  DoorsInv'
<1>1. request[q].pc = "place" /\ UNCHANGED <<turns, turnsOf, record>> /\ inside' = inside - 1
      /\ BecomesReq(q, Out) /\ Out.pc = "out"
  BY ReqTyped, BecomesAs DEF LeavesPool
<1>2. q \in InPool /\ q \notin InSlot /\ \A b \in Accounts : q \notin InSlotOf(b)
  BY <1>1 DEF InPool, InSlot, InSlotOf, In
<1>3. DoorsTyped'
  BY <1>1 DEF DoorsInv, DoorsTyped, BecomesReq
<1>4. Counted(inside, InPool)'
  <2>1. InPool' = InPool \ {q}
    BY <1>1, PoolMoves DEF Moved
  <2> QED BY <1>1, <1>2, <2>1, CountedDrop DEF DoorsInv, AllCounted
<1>5. InSlot' = InSlot /\ \A b \in Accounts : InSlotOf(b)' = InSlotOf(b)
  BY <1>1, <1>2, SlotsMove, SlotsOfMove DEF Moved
<1> QED BY <1>1, <1>3, <1>4, <1>5, HoldsStay DEF DoorsInv, AllCounted

(* A poll or a WebSocket comes or goes: the slots stay, the places and one   *)
(* record's counts follow it.                                                *)
LEMMA HoldMoves ==
    ASSUME DoorsInv, NEW q \in Requests, NEW r \in {Out} \cup Req, BecomesReq(q, r),
           NEW a \in Accounts, NEW c \in Conn, NEW kind \in HoldKinds,
           \/ request[q].pc = "out" /\ r.pc = "held"
              /\ r.of = a /\ r.conn = c /\ r.kind = kind
           \/ r.pc = "out" /\ request[q].pc = "held"
              /\ request[q].of = a /\ request[q].conn = c /\ request[q].kind = kind
    PROVE  /\ InSlot' = InSlot /\ \A b \in Accounts : InSlotOf(b)' = InSlotOf(b)
           /\ r.pc = "held" =>
                 /\ q \notin InPool /\ InPool' = InPool \cup {q}
                 /\ q \notin HeldOf(a) /\ HeldOf(a)' = HeldOf(a) \cup {q}
                 /\ q \notin Held(a, c, kind) /\ Held(a, c, kind)' = Held(a, c, kind) \cup {q}
           /\ r.pc = "out" =>
                 /\ q \in InPool /\ InPool' = InPool \ {q}
                 /\ q \in HeldOf(a) /\ HeldOf(a)' = HeldOf(a) \ {q}
                 /\ q \in Held(a, c, kind) /\ Held(a, c, kind)' = Held(a, c, kind) \ {q}
           /\ \A b \in Accounts : b # a => HeldOf(b)' = HeldOf(b)
           /\ \A b \in Accounts, d \in Conn, other \in HoldKinds :
                 b # a \/ d # c \/ other # kind => Held(b, d, other)' = Held(b, d, other)
           /\ \A p \in In({"held"})' : request'[p].kind \in HoldKinds
<1>1. q \notin InSlot /\ \A b \in Accounts : q \notin InSlotOf(b)
  BY DEF InSlot, InSlotOf, In
<1>2. (q \in InPool <=> request[q].pc = "held") /\ (q \in HeldOf(a) <=> request[q].pc = "held")
      /\ (q \in Held(a, c, kind) <=> request[q].pc = "held")
  BY DEF InPool, HeldOf, Held, In
<1>3. /\ \A b \in Accounts : b # a => q \notin HeldOf(b)
      /\ \A b \in Accounts, d \in Conn, other \in HoldKinds :
            b # a \/ d # c \/ other # kind => q \notin Held(b, d, other)
  BY DEF HeldOf, Held, In
<1>4. InSlot' = InSlot /\ \A b \in Accounts : InSlotOf(b)' = InSlotOf(b)
  BY <1>1, SlotsMove, SlotsOfMove DEF Moved
<1>5. /\ r.pc = "held" => InPool' = InPool \cup {q}
      /\ r.pc = "out" => InPool' = InPool \ {q}
  BY <1>2, PoolMoves DEF Moved
<1>6. /\ r.pc = "held" => HeldOf(a)' = HeldOf(a) \cup {q}
      /\ r.pc = "out" => HeldOf(a)' = HeldOf(a) \ {q}
      /\ \A b \in Accounts : b # a => HeldOf(b)' = HeldOf(b)
  BY <1>2, <1>3, HoldsOfMove DEF Moved
<1>7. /\ r.pc = "held" => Held(a, c, kind)' = Held(a, c, kind) \cup {q}
      /\ r.pc = "out" => Held(a, c, kind)' = Held(a, c, kind) \ {q}
  BY <1>2, HeldMoves DEF Moved
<1>8. \A b \in Accounts, d \in Conn, other \in HoldKinds :
         b # a \/ d # c \/ other # kind => Held(b, d, other)' = Held(b, d, other)
  BY <1>3, HeldMoves DEF Moved
<1>9. \A p \in In({"held"})' : request'[p].kind \in HoldKinds
  BY DEF BecomesReq, In, DoorsInv, AllCounted
<1> QED BY <1>1, <1>2, <1>3, <1>4, <1>5, <1>6, <1>7, <1>8, <1>9

(* The sums, by what becomes of the one record: one connection more or less, *)
(* or one pairing.                                                           *)
LEMMA SumsFollow ==
    ASSUME DoorsInv, NEW a \in Accounts, NEW c \in Conn, NEW r \in Hold,
           Recorded(a, c, r), NEW q,
           \A b \in Accounts : b # a => HeldOf(b)' = HeldOf(b),
           r.joined => c # NoConn /\ r.polls >= 1 /\ r.sockets >= 1,
           \/ /\ q \notin HeldOf(a) /\ HeldOf(a)' = HeldOf(a) \cup {q}
              /\ \/ /\ Count(c, r) = Count(c, record[a][c]) + 1 /\ Connections(a) < PerAccount
                    /\ (r.joined <=> record[a][c].joined)
                 \/ Count(c, r) = Count(c, record[a][c]) /\ r.joined /\ ~record[a][c].joined
           \/ /\ q \in HeldOf(a) /\ HeldOf(a)' = HeldOf(a) \ {q}
              /\ \/ Count(c, r) = Count(c, record[a][c]) - 1 /\ (r.joined <=> record[a][c].joined)
                 \/ Count(c, r) = Count(c, record[a][c]) /\ ~r.joined /\ record[a][c].joined
    PROVE  PairsWhole' /\ HoldsAdded'
<1> USE DoorsConstants DEF DoorsConstants
<1> DEFINE n == Count(c, record[a][c])
           m == Count(c, r)
<1>1. /\ record' \in [Accounts -> [Conn -> Hold]] /\ record'[a][c] = r
      /\ \A b \in Accounts, d \in Conn : b # a \/ d # c => record'[b][d] = record[b][d]
      /\ n \in Nat /\ m \in Nat
      /\ \A b \in Accounts : b # a => Connected(b)' = Connected(b)
      /\ m = n => Connected(a)' = Connected(a)
      /\ m = n + 1 => <<c, m>> \notin Connected(a) /\ Connected(a)' = Connected(a) \cup {<<c, m>>}
      /\ m = n - 1 => <<c, n>> \in Connected(a) /\ Connected(a)' = Connected(a) \ {<<c, n>>}
  BY RecordIs, CountFollows
<1>2. /\ \A b \in Accounts : b # a => Joined(b)' = Joined(b)
      /\ Joined(a)' = IF r.joined THEN Joined(a) \cup {<<c, 1>>} ELSE Joined(a) \ {<<c, 1>>}
      /\ <<c, 1>> \in Joined(a) <=> record[a][c].joined
  BY PairsChange, PairsIn
<1> HIDE DEF n, m
<1>3. PairsWhole'
  BY <1>1 DEF PairsWhole, DoorsInv
<1>4. /\ IsFiniteSet(Connected(a)) /\ Connections(a) \in Nat /\ Connections(a) <= PerAccount
      /\ IsFiniteSet(HeldOf(a)) /\ Cardinality(HeldOf(a)) \in Nat
      /\ Cardinality(HeldOf(a)) = Connections(a) + Cardinality(Joined(a))
      /\ IsFiniteSet(Joined(a)) /\ Cardinality(Joined(a)) \in Nat
  BY PairsIn, FS_CardinalityType DEF DoorsInv, HoldsAdded
<1>5. /\ IsFiniteSet(HeldOf(a)')
      /\ Cardinality(HeldOf(a)') = IF q \in HeldOf(a) THEN Cardinality(HeldOf(a)) - 1
                                                      ELSE Cardinality(HeldOf(a)) + 1
  BY <1>4, FS_AddElement, FS_RemoveElement
<1>6. /\ IsFiniteSet(Connected(a)')
      /\ m = n => Connections(a)' = Connections(a)
      /\ m = n + 1 => Connections(a)' = Connections(a) + 1
      /\ m = n - 1 => Connections(a)' = Connections(a) - 1
  <2>1. m = n \/ m = n + 1 \/ m = n - 1
    BY DEF n, m
  <2>2. CASE m = n
    BY <1>1, <1>4, <2>2 DEF Connections
  <2>3. CASE m = n + 1
    <3>1. IsFiniteSet(Connected(a) \cup {<<c, m>>})
          /\ Cardinality(Connected(a) \cup {<<c, m>>}) = Cardinality(Connected(a)) + 1
      BY <1>1, <1>4, <2>3, FS_AddElement
    <3> QED BY <1>1, <2>3, <3>1 DEF Connections
  <2>4. CASE m = n - 1
    <3>1. IsFiniteSet(Connected(a) \ {<<c, n>>})
          /\ Cardinality(Connected(a) \ {<<c, n>>}) = Cardinality(Connected(a)) - 1
      BY <1>1, <1>4, <2>4, FS_RemoveElement
    <3> QED BY <1>1, <2>4, <3>1 DEF Connections
  <2> QED BY <2>1, <2>2, <2>3, <2>4
<1>7. /\ (r.joined <=> record[a][c].joined) => Cardinality(Joined(a))' = Cardinality(Joined(a))
      /\ r.joined /\ ~record[a][c].joined =>
            Cardinality(Joined(a))' = Cardinality(Joined(a)) + 1
      /\ ~r.joined /\ record[a][c].joined =>
            Cardinality(Joined(a))' = Cardinality(Joined(a)) - 1
  <2>1. (r.joined <=> record[a][c].joined) => Joined(a)' = Joined(a)
    BY <1>2
  <2>2. <<c, 1>> \notin Joined(a) =>
           Cardinality(Joined(a) \cup {<<c, 1>>}) = Cardinality(Joined(a)) + 1
    BY <1>4, FS_AddElement
  <2>3. <<c, 1>> \in Joined(a) =>
           Cardinality(Joined(a) \ {<<c, 1>>}) = Cardinality(Joined(a)) - 1
    BY <1>4, FS_RemoveElement
  <2> QED BY <1>2, <2>1, <2>2, <2>3
<1>8. /\ Connections(a)' <= PerAccount
      /\ Cardinality(HeldOf(a)') = Connections(a)' + Cardinality(Joined(a))'
  BY <1>1, <1>4, <1>5, <1>6, <1>7 DEF n, m
<1>9. ASSUME NEW b \in Accounts, b # a
      PROVE  /\ IsFiniteSet(Connected(b)') /\ Connections(b)' <= PerAccount
             /\ IsFiniteSet(HeldOf(b)')
             /\ Cardinality(HeldOf(b)') = Connections(b)' + Cardinality(Joined(b)')
  BY <1>1, <1>2, <1>9 DEF DoorsInv, HoldsAdded, Connections
<1>10. HoldsAdded'
  BY <1>5, <1>6, <1>8, <1>9 DEF HoldsAdded
<1> QED BY <1>3, <1>10

(* What a record becomes as a WebSocket, or a poll, comes. *)
LEMMA TakenIs ==
    ASSUME NEW h \in Hold, NEW kind \in {"poll", "socket"}, NEW j \in BOOLEAN
    PROVE  LET k == Taken(h, kind, j)
           IN  /\ k \in Hold
               /\ k.polls = IF kind = "poll" THEN h.polls + 1 ELSE h.polls
               /\ k.sockets = IF kind = "socket" THEN h.sockets + 1 ELSE h.sockets
               /\ (k.joined <=> h.joined \/ (kind = "socket" /\ j))
<1> DEFINE k == Taken(h, kind, j)
<1>1. h.polls \in Nat /\ h.sockets \in Nat /\ h.joined \in BOOLEAN
  BY DEF Hold
<1>2. CASE kind = "poll"
  BY <1>1, <1>2 DEF Taken, Hold
<1>3. CASE kind = "socket"
  <2> DEFINE x == h.joined \/ j
             g == [h EXCEPT !.sockets = h.sockets + 1]
  <2>1. x \in BOOLEAN /\ x = (h.joined \/ j)
    OBVIOUS
  <2>2. g \in Hold /\ g.polls = h.polls /\ g.sockets = h.sockets + 1 /\ g.joined = h.joined
        /\ k = [g EXCEPT !.joined = x]
    BY <1>1, <1>3 DEF Hold, Taken
  <2> HIDE DEF x, g, k
  <2>3. k \in Hold /\ k.polls = h.polls /\ k.sockets = h.sockets + 1 /\ k.joined = x
    BY <1>1, <2>1, <2>2 DEF Hold
  <2> QED BY <1>3, <2>1, <2>3 DEF k
<1> QED BY <1>2, <1>3

(* ... and goes. *)
LEMMA GivenBackIs ==
    ASSUME NEW h \in Hold, NEW kind \in {"poll", "socket"},
           kind = "poll" => h.polls >= 1, kind = "socket" => h.sockets >= 1
    PROVE  LET k == GivenBack(h, kind)
           IN  /\ k \in Hold
               /\ k.polls = IF kind = "poll" THEN h.polls - 1 ELSE h.polls
               /\ k.sockets = IF kind = "socket" THEN h.sockets - 1 ELSE h.sockets
               /\ (k.joined <=> h.joined /\ k.polls # 0 /\ k.sockets # 0)
<1> DEFINE k == GivenBack(h, kind)
           left == IF kind = "socket" THEN [h EXCEPT !.sockets = @ - 1] ELSE [h EXCEPT !.polls = @ - 1]
           x == left.joined /\ left.polls # 0 /\ left.sockets # 0
<1>1. h.polls \in Nat /\ h.sockets \in Nat /\ h.joined \in BOOLEAN
  BY DEF Hold
<1>2. /\ left \in Hold /\ left.joined = h.joined
      /\ left.polls = IF kind = "poll" THEN h.polls - 1 ELSE h.polls
      /\ left.sockets = IF kind = "socket" THEN h.sockets - 1 ELSE h.sockets
  BY <1>1 DEF Hold
<1>3. k = [left EXCEPT !.joined = x]
  BY DEF GivenBack
<1>4. x \in BOOLEAN /\ (x <=> left.joined /\ left.polls # 0 /\ left.sockets # 0)
  OBVIOUS
<1> HIDE DEF x, left, k
<1>5. k \in Hold /\ k.polls = left.polls /\ k.sockets = left.sockets /\ k.joined = x
  BY <1>2, <1>3, <1>4 DEF Hold
<1> QED BY <1>2, <1>4, <1>5 DEF k

(* try_take and give_back. *)
LEMMA HoldsKeeps ==
    ASSUME DoorsInv, NEW q \in Requests, NEW a \in Accounts, NEW c \in Conn,
           NEW kind \in HoldKinds, Holds(q, a, c, kind)
    PROVE  DoorsInv'
<1> DEFINE was == record[a][c]
           becomes == Taken(was, kind, JoinsFree(a, c, kind))
           r == [pc |-> "held", kind |-> kind, of |-> a, conn |-> c]
<1>1. /\ request[q].pc = "out" /\ inside' = inside + 1 /\ UNCHANGED <<turns, turnsOf>>
      /\ Recorded(a, c, becomes)
      /\ JoinsFree(a, c, kind) \/ Connections(a) < PerAccount
  <2>1. request[q].pc = "out"
    BY ReqTyped DEF Holds
  <2>2. Recorded(a, c, becomes)
    BY DEF Holds, Recorded
  <2> QED BY <2>1, <2>2 DEF Holds
<1>2. r \in Req /\ r.pc = "held" /\ r.of = a /\ r.conn = c /\ r.kind = kind /\ BecomesReq(q, r)
  <2>1. r \in Req
    BY DEF Req
  <2> QED BY <2>1, BecomesAs DEF Holds
<1> HIDE DEF r
<1>3. was \in Hold /\ (was.joined => c # NoConn /\ was.polls >= 1 /\ was.sockets >= 1)
  BY DEF DoorsInv, DoorsTyped, PairsWhole
<1>4. kind \in {"poll", "socket"} /\ JoinsFree(a, c, kind) \in BOOLEAN
      /\ (JoinsFree(a, c, kind) <=> /\ kind = "socket" /\ c # NoConn /\ was.polls >= 1
                                   /\ was.sockets = 0 /\ ~was.joined)
  BY DEF HoldKinds, JoinsFree
<1> HIDE DEF was
<1>5. /\ becomes \in Hold
      /\ becomes.polls = IF kind = "poll" THEN was.polls + 1 ELSE was.polls
      /\ becomes.sockets = IF kind = "socket" THEN was.sockets + 1 ELSE was.sockets
      /\ (becomes.joined <=> was.joined \/ JoinsFree(a, c, kind))
  BY <1>3, <1>4, TakenIs
<1> HIDE DEF becomes
<1>6. /\ becomes.joined => c # NoConn /\ becomes.polls >= 1 /\ becomes.sockets >= 1
      /\ \/ Count(c, becomes) = Count(c, was) + 1 /\ Connections(a) < PerAccount
            /\ (becomes.joined <=> was.joined)
         \/ Count(c, becomes) = Count(c, was) /\ becomes.joined /\ ~was.joined
  <2>1. was.polls \in Nat /\ was.sockets \in Nat /\ was.joined \in BOOLEAN
    BY <1>3 DEF Hold
  <2>2. CASE JoinsFree(a, c, kind)
    <3>1. /\ c # NoConn /\ was.polls >= 1 /\ was.sockets = 0 /\ ~was.joined
          /\ becomes.polls = was.polls /\ becomes.sockets = 1 /\ becomes.joined
      BY <1>4, <1>5, <2>1, <2>2
    <3> QED BY <2>1, <3>1 DEF Count
  <2>3. CASE ~JoinsFree(a, c, kind)
    BY <1>1, <1>3, <1>4, <1>5, <2>1, <2>3 DEF Count
  <2> QED BY <2>2, <2>3
<1>7. /\ InSlot' = InSlot /\ \A b \in Accounts : InSlotOf(b)' = InSlotOf(b)
      /\ q \notin InPool /\ InPool' = InPool \cup {q}
      /\ q \notin HeldOf(a) /\ HeldOf(a)' = HeldOf(a) \cup {q}
      /\ q \notin Held(a, c, kind) /\ Held(a, c, kind)' = Held(a, c, kind) \cup {q}
      /\ \A b \in Accounts : b # a => HeldOf(b)' = HeldOf(b)
      /\ \A b \in Accounts, d \in Conn, other \in HoldKinds :
            b # a \/ d # c \/ other # kind => Held(b, d, other)' = Held(b, d, other)
      /\ \A p \in In({"held"})' : request'[p].kind \in HoldKinds
  BY <1>1, <1>2, HoldMoves
<1>8. PairsWhole' /\ HoldsAdded'
  BY <1>1, <1>5, <1>6, <1>7, SumsFollow DEF was
<1>9. /\ record' \in [Accounts -> [Conn -> Hold]] /\ record'[a][c] = becomes
      /\ \A b \in Accounts, d \in Conn : b # a \/ d # c => record'[b][d] = record[b][d]
  BY <1>1, <1>5, RecordIs
<1>10. DoorsTyped'
  BY <1>1, <1>2, <1>9 DEF DoorsInv, DoorsTyped, BecomesReq
<1>11. Counted(inside', InPool')
  BY <1>1, <1>7, CountedAdd DEF DoorsInv, AllCounted
<1>12. ASSUME NEW b \in Accounts, NEW d \in Conn
       PROVE  /\ Counted(record'[b][d].polls, Held(b, d, "poll")')
              /\ Counted(record'[b][d].sockets, Held(b, d, "socket")')
  <2>1. /\ Counted(record[b][d].polls, Held(b, d, "poll"))
        /\ Counted(record[b][d].sockets, Held(b, d, "socket"))
    BY DEF DoorsInv, AllCounted
  <2>2. CASE b # a \/ d # c
    BY <1>7, <1>9, <2>1, <2>2 DEF HoldKinds
  <2>3. CASE b = a /\ d = c /\ kind = "poll"
    <3>1. Held(b, d, "socket")' = Held(b, d, "socket")
      BY <1>7, <2>3 DEF HoldKinds
    <3>2. Counted(was.polls + 1, Held(b, d, "poll") \cup {q})
      BY <1>7, <2>1, <2>3, CountedAdd DEF was
    <3>3. was.sockets = record[b][d].sockets
      BY <2>3 DEF was
    <3> QED BY <1>5, <1>7, <1>9, <2>1, <2>3, <3>1, <3>2, <3>3
  <2>4. CASE b = a /\ d = c /\ kind = "socket"
    <3>1. Held(b, d, "poll")' = Held(b, d, "poll")
      BY <1>7, <2>4 DEF HoldKinds
    <3>2. Counted(was.sockets + 1, Held(b, d, "socket") \cup {q})
      BY <1>7, <2>1, <2>4, CountedAdd DEF was
    <3>3. was.polls = record[b][d].polls
      BY <2>4 DEF was
    <3> QED BY <1>5, <1>7, <1>9, <2>1, <2>4, <3>1, <3>2, <3>3
  <2> QED BY <1>4, <2>2, <2>3, <2>4
<1>13. AllCounted'
  BY <1>1, <1>7, <1>11, <1>12 DEF DoorsInv, AllCounted
<1> QED BY <1>8, <1>10, <1>13 DEF DoorsInv

LEMMA GivesBackKeeps ==
    ASSUME DoorsInv, NEW q \in Requests, GivesBack(q)
    PROVE  DoorsInv'
<1>20. request[q].pc = "held" /\ request[q] \in Req
  BY ReqTyped DEF GivesBack
<1>21. request[q].of \in Accounts /\ request[q].conn \in Conn /\ request[q].kind \in HoldKinds
  BY <1>20 DEF DoorsInv, AllCounted, In, Req
<1>22. PICK a \in Accounts, c \in Conn, kind \in HoldKinds :
         request[q].of = a /\ request[q].conn = c /\ request[q].kind = kind
  BY <1>21
<1> DEFINE was == record[a][c]
           becomes == GivenBack(was, kind)
<1>1. /\ inside' = inside - 1 /\ UNCHANGED <<turns, turnsOf>>
      /\ Recorded(a, c, becomes)
  BY <1>22 DEF GivesBack, Recorded
<1> HIDE DEF was, becomes
<1>2. Out \in {Out} \cup Req /\ Out.pc = "out" /\ BecomesReq(q, Out)
  BY ReqTyped, BecomesAs DEF GivesBack
<1>3. was \in Hold /\ (was.joined => c # NoConn /\ was.polls >= 1 /\ was.sockets >= 1)
  BY <1>1 DEF DoorsInv, DoorsTyped, PairsWhole, was
<1>4. /\ InSlot' = InSlot /\ \A b \in Accounts : InSlotOf(b)' = InSlotOf(b)
      /\ q \in InPool /\ InPool' = InPool \ {q}
      /\ q \in HeldOf(a) /\ HeldOf(a)' = HeldOf(a) \ {q}
      /\ q \in Held(a, c, kind) /\ Held(a, c, kind)' = Held(a, c, kind) \ {q}
      /\ \A b \in Accounts : b # a => HeldOf(b)' = HeldOf(b)
      /\ \A b \in Accounts, d \in Conn, other \in HoldKinds :
            b # a \/ d # c \/ other # kind => Held(b, d, other)' = Held(b, d, other)
      /\ \A p \in In({"held"})' : request'[p].kind \in HoldKinds
  <2>1. Out \in {Out} \cup Req
    OBVIOUS
  <2> QED BY <1>20, <1>22, <1>2, <2>1, HoldMoves
<1>5. /\ kind = "poll" => was.polls >= 1 /\ Counted(was.polls - 1, Held(a, c, "poll") \ {q})
      /\ kind = "socket" => was.sockets >= 1 /\ Counted(was.sockets - 1, Held(a, c, "socket") \ {q})
  <2>1. Counted(was.polls, Held(a, c, "poll")) /\ Counted(was.sockets, Held(a, c, "socket"))
    BY <1>1 DEF DoorsInv, AllCounted, was
  <2> QED BY <1>4, <2>1, CountedDrop
<1>6. kind \in {"poll", "socket"}
  BY <1>1 DEF HoldKinds
<1>7. /\ becomes \in Hold
      /\ becomes.polls = IF kind = "poll" THEN was.polls - 1 ELSE was.polls
      /\ becomes.sockets = IF kind = "socket" THEN was.sockets - 1 ELSE was.sockets
      /\ (becomes.joined <=> was.joined /\ becomes.polls # 0 /\ becomes.sockets # 0)
  BY <1>3, <1>5, <1>6, GivenBackIs DEF becomes
<1>8. /\ becomes.joined => c # NoConn /\ becomes.polls >= 1 /\ becomes.sockets >= 1
      /\ \/ Count(c, becomes) = Count(c, was) - 1 /\ (becomes.joined <=> was.joined)
         \/ Count(c, becomes) = Count(c, was) /\ ~becomes.joined /\ was.joined
  <2>1. was.polls \in Nat /\ was.sockets \in Nat /\ was.joined \in BOOLEAN
        /\ becomes.polls \in Nat /\ becomes.sockets \in Nat
    BY <1>3, <1>7 DEF Hold
  <2> QED BY <1>3, <1>5, <1>6, <1>7, <2>1 DEF Count
<1>9. PairsWhole' /\ HoldsAdded'
  <2>1. was = record[a][c]
    BY DEF was
  <2> QED BY <1>1, <1>4, <1>7, <1>8, <2>1, SumsFollow
<1>10. /\ record' \in [Accounts -> [Conn -> Hold]] /\ record'[a][c] = becomes
      /\ \A b \in Accounts, d \in Conn : b # a \/ d # c => record'[b][d] = record[b][d]
  BY <1>1, <1>7, RecordIs
<1>11. DoorsTyped'
  BY <1>1, <1>2, <1>10 DEF DoorsInv, DoorsTyped, BecomesReq
<1>12. Counted(inside', InPool')
  BY <1>1, <1>4, CountedDrop DEF DoorsInv, AllCounted
<1>13. ASSUME NEW b \in Accounts, NEW d \in Conn
       PROVE  /\ Counted(record'[b][d].polls, Held(b, d, "poll")')
              /\ Counted(record'[b][d].sockets, Held(b, d, "socket")')
  <2>1. /\ Counted(record[b][d].polls, Held(b, d, "poll"))
        /\ Counted(record[b][d].sockets, Held(b, d, "socket"))
    BY DEF DoorsInv, AllCounted
  <2>2. CASE b # a \/ d # c
    BY <1>4, <1>10, <2>1, <2>2 DEF HoldKinds
  <2>3. CASE b = a /\ d = c /\ kind = "poll"
    <3>1. Held(b, d, "socket")' = Held(b, d, "socket")
      BY <1>4, <2>3 DEF HoldKinds
    <3>2. was.sockets = record[b][d].sockets /\ record'[b][d] = becomes
      BY <1>10, <2>3 DEF was
    <3>3. Counted(was.polls - 1, Held(b, d, "poll")')
      BY <1>4, <1>5, <2>3
    <3> QED BY <1>7, <2>1, <2>3, <3>1, <3>2, <3>3
  <2>4. CASE b = a /\ d = c /\ kind = "socket"
    <3>1. Held(b, d, "poll")' = Held(b, d, "poll")
      BY <1>4, <2>4 DEF HoldKinds
    <3>2. was.polls = record[b][d].polls /\ record'[b][d] = becomes
      BY <1>10, <2>4 DEF was
    <3>3. Counted(was.sockets - 1, Held(b, d, "socket")')
      BY <1>4, <1>5, <2>4
    <3> QED BY <1>7, <2>1, <2>4, <3>1, <3>2, <3>3
  <2> QED BY <1>6, <2>2, <2>3, <2>4
<1>14. AllCounted'
  BY <1>1, <1>4, <1>12, <1>13 DEF DoorsInv, AllCounted
<1> QED BY <1>9, <1>11, <1>14 DEF DoorsInv

----------------------------------------------------------------------------
LEMMA DoorsInitInv ==
    ASSUME DoorsInit
    PROVE  DoorsInv
<1> USE DoorsConstants DEF DoorsConstants
<1>1. Out.pc = "out" /\ NoRecord.polls = 0 /\ NoRecord.sockets = 0 /\ ~NoRecord.joined
      /\ NoRecord \in Hold
  BY DEF Out, NoRecord, Hold
<1>2. \A q \in Requests : request[q].pc = "out"
  BY <1>1 DEF DoorsInit
<1>3. Counted(0, {}) /\ IsFiniteSet({}) /\ Cardinality({}) = 0
  BY FS_EmptySet DEF Counted
<1>4. InPool = {} /\ InSlot = {} /\ In({"held"}) = {} /\ \A a \in Accounts : InSlotOf(a) = {}
      /\ HeldOf(a) = {} /\ \A c \in Conn, kind \in HoldKinds : Held(a, c, kind) = {}
  BY <1>2 DEF InPool, InSlot, InSlotOf, HeldOf, Held, In
<1>5. DoorsTyped
  BY <1>1 DEF DoorsInit, DoorsTyped, Conn
<1>6. \A a \in Accounts, c \in Conn : record[a][c] = NoRecord
  BY DEF DoorsInit, Conn
<1>7. AllCounted
  BY <1>1, <1>3, <1>4, <1>6 DEF DoorsInit, AllCounted, HoldKinds
<1>8. PairsWhole
  BY <1>1, <1>6 DEF PairsWhole
<1>9. \A a \in Accounts : Connected(a) = {} /\ Joined(a) = {}
  <2>1. \A c \in Conn : Count(c, NoRecord) = 0
    BY <1>1 DEF Count
  <2>2. \A a \in Accounts : \A x : x \notin Connected(a)
    BY <1>6, <2>1 DEF Connected, Conn
  <2> QED BY <2>2 DEF Joined
<1>10. HoldsAdded
  BY <1>3, <1>4, <1>9 DEF HoldsAdded, Connections
<1> QED BY <1>5, <1>7, <1>8, <1>10 DEF DoorsInv

LEMMA DoorsNextKeeps ==
    ASSUME DoorsInv, [DoorsNext]_doorsVars
    PROVE  DoorsInv'
<1>1. ASSUME NEW q \in Requests,
             \/ GivesBack(q) \/ EntersPool(q) \/ LeavesSlot(q) \/ LeavesPool(q)
             \/ \E a \in Accounts : EntersSlot(q, a)
             \/ \E a \in Accounts, c \in Conns \cup {NoConn}, kind \in HoldKinds :
                   Holds(q, a, c, kind)
      PROVE  DoorsInv'
  BY <1>1, GivesBackKeeps, EntersPoolKeeps, LeavesSlotKeeps, LeavesPoolKeeps,
     EntersSlotKeeps, HoldsKeeps DEF Conn
<1>2. CASE UNCHANGED doorsVars
  <2>1. DoorsTyped' /\ PairsWhole'
    BY <1>2 DEF doorsVars, DoorsInv, DoorsTyped, PairsWhole
  <2>2. InPool' = InPool /\ InSlot' = InSlot /\ In({"held"})' = In({"held"})
    BY <1>2 DEF doorsVars, InPool, InSlot, In
  <2>3. /\ \A a \in Accounts : InSlotOf(a)' = InSlotOf(a) /\ HeldOf(a)' = HeldOf(a)
        /\ \A a \in Accounts, c \in Conn, kind \in HoldKinds : Held(a, c, kind)' = Held(a, c, kind)
    BY <1>2, <2>2 DEF doorsVars, InSlotOf, HeldOf, Held
  <2>4. \A a \in Accounts : Connected(a)' = Connected(a) /\ Joined(a)' = Joined(a)
    BY <1>2 DEF doorsVars, Connected, Joined
  <2>5. AllCounted'
    BY <1>2, <2>2, <2>3 DEF doorsVars, DoorsInv, AllCounted, HoldKinds
  <2>6. HoldsAdded'
    BY <2>3, <2>4 DEF DoorsInv, HoldsAdded, Connections
  <2> QED BY <2>1, <2>5, <2>6 DEF DoorsInv
<1> QED BY <1>1, <1>2 DEF DoorsNext

LEMMA DoorsInvKept ==
    ASSUME DoorsInv
    PROVE  PlacesKept
<1> USE DoorsConstants DEF DoorsConstants
<1>1. CountsTrue
  BY DEF CountsTrue, DoorsInv, AllCounted, Counted, InPool, InSlot, InSlotOf
<1>2. ASSUME NEW a \in Accounts
      PROVE  Connections(a) <= PerAccount
             /\ Cardinality({q \in In({"held"}) : request[q].of = a}) <= 2 * PerAccount
  <2>1. /\ Connections(a) \in Nat /\ Cardinality(Joined(a)) \in Nat
        /\ Cardinality(Joined(a)) <= Connections(a)
    BY PairsIn
  <2>2. Connections(a) <= PerAccount
        /\ Cardinality(HeldOf(a)) = Connections(a) + Cardinality(Joined(a))
    BY DEF DoorsInv, HoldsAdded
  <2>3. Cardinality(HeldOf(a)) <= 2 * PerAccount
    BY <2>1, <2>2
  <2> QED BY <2>2, <2>3 DEF HeldOf
<1> QED BY <1>1, <1>2 DEF PlacesKept, CapKept

(* No place or slot is lost or given back twice, and no account holds more   *)
(* than its connections (LongHolds, TurnSlots).                              *)
THEOREM DoorsKeepPlaces == DoorsSpec => []PlacesKept
<1>1. DoorsInit => DoorsInv
  BY DoorsInitInv
<1>2. DoorsInv /\ [DoorsNext]_doorsVars => DoorsInv'
  BY DoorsNextKeeps
<1>3. DoorsInv => PlacesKept
  BY DoorsInvKept
<1> QED BY <1>1, <1>2, <1>3, PTL DEF DoorsSpec

----------------------------------------------------------------------------
(* The media jobs: the queued jobs and the worker's one each carry the      *)
(* epoch they were asked in.                                                *)
(* A set of naturals that is not empty has a least element. *)
LEMMA LeastNat ==
    ASSUME NEW S \in SUBSET Nat, S # {}
    PROVE  \E m \in S : \A n \in S : m <= n
<1>1. IsWellFoundedOn(OpToRel(<, Nat), Nat)
  BY NatLessThanWellFounded
<1>2. PICK m \in S : \A n \in S : ~ <<n, m>> \in OpToRel(<, Nat)
  BY <1>1, WFMin
<1>3. \A n \in S : ~ (n < m)
  BY <1>2 DEF OpToRel
<1> QED BY <1>3

LEMMA LeastIsOne ==
    ASSUME NEW S \in SUBSET Nat, S # {}
    PROVE  Least(S) \in S
BY LeastNat DEF Least

Job == [key : Keys, epoch : Nat]
RunPlaces == {"picked", "polling", "collected", "writing", "ran"}
JobRun == [pc : RunPlaces \cup {"handing"}, key : Keys, epoch : Nat, attempts : Nat,
           status : {"none", "failed", "abandoned", "ready"}]

(* A job is queued once, and not while it runs; a resubmission noted is of a *)
(* running job.                                                              *)
OneRunEach ==
    /\ \A i, j \in DOMAIN jobs : jobs[i].key = jobs[j].key => i = j
    /\ \A i \in DOMAIN jobs : ~Running(jobs[i].key)
    /\ respec # 0 => worker.pc \in RunPlaces

(* What is queued, runs or has run is a key's newest submission, unless that *)
(* one is queued behind it.                                                  *)
EpochsTold ==
    /\ \A i \in DOMAIN jobs : jobs[i].epoch = newest[jobs[i].key]
    /\ worker.pc \in RunPlaces =>
          newest[worker.key] = (IF respec # 0 THEN respec ELSE worker.epoch)
    /\ worker.pc = "handing" =>
          worker.epoch = newest[worker.key] \/ Queued(worker.key) # {}

(* A key asked for is on its way, or served. *)
OnItsWay(k) ==
    newest[k] # 0 =>
        \/ Queued(k) # {} \/ Running(k)
        \/ worker.pc = "handing" /\ worker.key = k
        \/ handed[k] = newest[k]
        \/ worker.pc = "ended"

MediaTyped ==
    /\ jobs \in Seq(Job)
    /\ worker \in {WorkerIdle, [pc |-> "ended"]} \cup JobRun
    /\ respec \in Nat /\ newest \in [Keys -> Nat] /\ handed \in [Keys -> Nat]

MediaInv == MediaTyped /\ OneRunEach /\ EpochsTold /\ \A k \in Keys : OnItsWay(k)

LEMMA QueuedKeys ==
    ASSUME MediaInv
    PROVE  /\ DOMAIN jobs = 1..Len(jobs) /\ Len(jobs) \in Nat
           /\ \A i \in DOMAIN jobs : jobs[i] \in Job /\ jobs[i].key \in Keys /\ jobs[i].epoch \in Nat
<1>1. jobs \in Seq(Job)
  BY DEF MediaInv, MediaTyped
<1>2. DOMAIN jobs = 1..Len(jobs) /\ Len(jobs) \in Nat /\ \A i \in DOMAIN jobs : jobs[i] \in Job
  BY <1>1
<1> QED BY <1>2 DEF Job

LEMMA WorkerAt ==
    ASSUME MediaInv
    PROVE  /\ worker = WorkerIdle <=> worker.pc = "idle"
           /\ worker.pc \notin {"idle", "ended"} => worker \in JobRun
           /\ worker.pc \in {"idle", "ended"} \cup RunPlaces \cup {"handing"}
           /\ \A k : Running(k) <=> worker.pc \in RunPlaces /\ worker.key = k
BY DEF MediaInv, MediaTyped, WorkerIdle, JobRun, RunPlaces, Running

(* The run goes on to another place of its course. *)
LEMMA RunGoesOn ==
    ASSUME MediaInv, worker.pc \in RunPlaces, NEW w \in JobRun, w.pc \in RunPlaces,
           w.key = worker.key, w.epoch = worker.epoch, worker' = w,
           UNCHANGED <<jobs, respec, newest, handed>>
    PROVE  MediaInv'
<1>1. \A k \in Keys : Running(k)' <=> Running(k)
  BY DEF Running, RunPlaces
<1>2. \A k \in Keys : Queued(k)' = Queued(k)
  BY DEF Queued
<1>3. MediaTyped'
  BY DEF MediaInv, MediaTyped
<1>4. OneRunEach'
  BY <1>1, QueuedKeys DEF MediaInv, OneRunEach
<1>6. EpochsTold'
  BY <1>2, WorkerAt DEF MediaInv, EpochsTold, RunPlaces, JobRun
<1>5. ASSUME NEW k \in Keys PROVE OnItsWay(k)'
  BY <1>1, <1>2 DEF MediaInv, OnItsWay, RunPlaces
<1> QED BY <1>3, <1>4, <1>5, <1>6 DEF MediaInv

LEMMA BecomesKeeps ==
    ASSUME MediaInv, worker.pc \in RunPlaces, NEW pc \in RunPlaces,
           NEW status \in {"none", "failed", "abandoned", "ready"}, Becomes(pc, status)
    PROVE  MediaInv'
<1> DEFINE w == [worker EXCEPT !.pc = pc, !.status = status]
<1>1. worker \in JobRun
  BY WorkerAt DEF RunPlaces
<1>2. w \in JobRun /\ w.pc = pc /\ w.key = worker.key /\ w.epoch = worker.epoch
  BY <1>1 DEF JobRun
<1>3. worker' = w /\ UNCHANGED <<jobs, respec, newest, handed>>
  BY DEF Becomes
<1> HIDE DEF w
<1> QED BY <1>2, <1>3, RunGoesOn

LEMMA RunStepKeeps ==
    ASSUME MediaInv, SubmitPrompt \/ RunFails \/ ExecutionError \/ Abandon \/ Collect
                     \/ CheckSave \/ Store
    PROVE  MediaInv'
<1>1. CASE SubmitPrompt
  <2> DEFINE w == [worker EXCEPT !.pc = "polling", !.attempts = @ + 1]
  <2>1. worker \in JobRun /\ worker.pc \in RunPlaces
    BY <1>1, WorkerAt DEF SubmitPrompt, RunPlaces
  <2>2. w \in JobRun /\ w.pc = "polling" /\ w.key = worker.key /\ w.epoch = worker.epoch
    <3>1. worker.attempts \in Nat /\ worker.attempts + 1 \in Nat
      BY <2>1 DEF JobRun
    <3>2. "polling" \in RunPlaces \cup {"handing"}
      BY DEF RunPlaces
    <3> HIDE DEF RunPlaces
    <3> QED BY <2>1, <3>1, <3>2 DEF JobRun
  <2>3. worker' = w /\ UNCHANGED <<jobs, respec, newest, handed>>
    BY <1>1 DEF SubmitPrompt
  <2>4. w.pc \in RunPlaces
    BY <2>2 DEF RunPlaces
  <2> HIDE DEF w
  <2> QED BY <2>1, <2>2, <2>3, <2>4, RunGoesOn
<1>2. CASE RunFails
  BY <1>2, BecomesKeeps DEF RunFails, RunPlaces
<1>3. CASE ExecutionError
  BY <1>3, BecomesKeeps DEF ExecutionError, RunPlaces
<1>4. CASE Abandon
  BY <1>4, BecomesKeeps DEF Abandon, RunPlaces
<1>5. CASE Collect
  BY <1>5, BecomesKeeps DEF Collect, RunPlaces
<1>6. CASE CheckSave
  BY <1>6, BecomesKeeps DEF CheckSave, RunPlaces
<1>7. CASE Store
  <2> DEFINE w == [worker EXCEPT !.pc = "ran", !.status = "ready"]
  <2>1. worker \in JobRun /\ worker.pc \in RunPlaces
    BY <1>7, WorkerAt DEF Store, RunPlaces
  <2>2. w \in JobRun /\ w.pc = "ran" /\ w.key = worker.key /\ w.epoch = worker.epoch
    BY <2>1 DEF JobRun, RunPlaces
  <2>3. worker' = w /\ UNCHANGED <<jobs, respec, newest, handed>>
    BY <1>7 DEF Store
  <2>4. w.pc \in RunPlaces
    BY <2>2 DEF RunPlaces
  <2> HIDE DEF w
  <2> QED BY <2>1, <2>2, <2>3, <2>4, RunGoesOn
<1> QED BY <1>1, <1>2, <1>3, <1>4, <1>5, <1>6, <1>7

LEMMA RunOverKeeps ==
    ASSUME MediaInv, RunOver
    PROVE  MediaInv'
<1>1. worker.pc = "ran" /\ worker \in JobRun /\ respec' = 0 /\ UNCHANGED <<jobs, newest, handed>>
  BY WorkerAt DEF RunOver
<1>2. \A k \in Keys : Queued(k)' = Queued(k)
  BY <1>1 DEF Queued
<1>3. CASE worker.status = "abandoned"
  <2>1. worker' = [pc |-> "ended"]
    BY <1>3 DEF RunOver
  <2>2. worker'.pc = "ended"
    BY <2>1
  <2>3. MediaTyped'
    BY <1>1, <2>1 DEF MediaInv, MediaTyped
  <2>4. OneRunEach'
    BY <1>1, <2>2 DEF MediaInv, OneRunEach, Running
  <2>5. \A k \in Keys : OnItsWay(k)'
    BY <2>2 DEF OnItsWay
  <2>6. EpochsTold'
    BY <1>1, <2>2 DEF MediaInv, EpochsTold, RunPlaces
  <2> QED BY <2>3, <2>4, <2>5, <2>6 DEF MediaInv
<1>4. CASE worker.status # "abandoned"
  <2> DEFINE w == [worker EXCEPT !.pc = "handing", !.epoch = IF respec # 0 THEN respec ELSE @]
  <2>1. worker' = w
    BY <1>4 DEF RunOver
  <2>2. w \in JobRun /\ w.pc = "handing" /\ w.key = worker.key
        /\ w.epoch = (IF respec # 0 THEN respec ELSE worker.epoch)
    BY <1>1 DEF JobRun, MediaInv, MediaTyped
  <2> HIDE DEF w
  <2>3. MediaTyped'
    BY <1>1, <2>1, <2>2 DEF MediaInv, MediaTyped
  <2>4. OneRunEach'
    BY <1>1, <2>1, <2>2 DEF MediaInv, OneRunEach, Running
  <2>5. ASSUME NEW k \in Keys PROVE OnItsWay(k)'
    BY <1>1, <1>2, <2>1, <2>2 DEF MediaInv, OnItsWay, Running
  <2>6. EpochsTold'
    BY <1>1, <1>2, <2>1, <2>2 DEF MediaInv, EpochsTold, RunPlaces, JobRun
  <2> QED BY <2>3, <2>4, <2>5, <2>6 DEF MediaInv
<1> QED BY <1>3, <1>4

LEMMA HandOffKeeps ==
    ASSUME MediaInv, HandOff
    PROVE  MediaInv'
<1>1. worker.pc = "handing" /\ worker \in JobRun /\ worker' = WorkerIdle /\ worker'.pc = "idle"
      /\ handed' = [handed EXCEPT ![worker.key] = worker.epoch] /\ UNCHANGED <<jobs, respec, newest>>
  BY WorkerAt DEF HandOff, WorkerIdle
<1>2. \A k \in Keys : Queued(k)' = Queued(k)
  BY <1>1 DEF Queued
<1>3. handed' \in [Keys -> Nat] /\ handed'[worker.key] = worker.epoch
      /\ \A k \in Keys : k # worker.key => handed'[k] = handed[k]
  BY <1>1 DEF MediaInv, MediaTyped, JobRun
<1>4. MediaTyped'
  BY <1>1, <1>3 DEF MediaInv, MediaTyped
<1>5. OneRunEach'
  BY <1>1 DEF MediaInv, OneRunEach, Running, RunPlaces
<1>6. ASSUME NEW k \in Keys PROVE OnItsWay(k)'
  BY <1>1, <1>2, <1>3 DEF MediaInv, OnItsWay, EpochsTold, Running, JobRun
<1>7. EpochsTold'
  BY <1>1 DEF MediaInv, EpochsTold, RunPlaces
<1> QED BY <1>4, <1>5, <1>6, <1>7 DEF MediaInv

LEMMA SubmitKeeps ==
    ASSUME MediaInv, NEW k \in Keys, Submit(k)
    PROVE  MediaInv'
<1> DEFINE e == newest[k] + 1
<1>1. /\ e \in Nat /\ e # 0 /\ newest' \in [Keys -> Nat] /\ newest'[k] = e
      /\ \A c \in Keys : c # k => newest'[c] = newest[c]
      /\ UNCHANGED <<worker, handed>>
  BY DEF Submit, MediaInv, MediaTyped
<1> HIDE DEF e
<1>2. \A c \in Keys : Running(c)' <=> Running(c)
  BY <1>1 DEF Running
<1>3. CASE Running(k) /\ respec' = e /\ UNCHANGED jobs
  <2>1. Queued(k) = {} /\ worker.pc \in RunPlaces /\ worker.key = k
    BY <1>3, WorkerAt DEF MediaInv, OneRunEach, Queued
  <2>2. MediaTyped'
    BY <1>1, <1>3 DEF MediaInv, MediaTyped
  <2>3. OneRunEach'
    BY <1>1, <1>2, <1>3, <2>1, QueuedKeys DEF MediaInv, OneRunEach
  <2>4. EpochsTold'
    BY <1>1, <1>3, <2>1, QueuedKeys DEF MediaInv, EpochsTold, Queued, RunPlaces
  <2>5. ASSUME NEW c \in Keys PROVE OnItsWay(c)'
    BY <1>1, <1>2, <1>3 DEF MediaInv, OnItsWay, Queued
  <2> QED BY <2>2, <2>3, <2>4, <2>5 DEF MediaInv
<1>4. CASE /\ ~Running(k) /\ Queued(k) # {} /\ UNCHANGED respec
           /\ jobs' = [i \in DOMAIN jobs |-> IF i \in Queued(k) THEN [jobs[i] EXCEPT !.epoch = e]
                                                                ELSE jobs[i]]
  <2>1. DOMAIN jobs' = DOMAIN jobs
        /\ \A i \in DOMAIN jobs :
              /\ jobs'[i] \in Job /\ jobs'[i].key = jobs[i].key
              /\ jobs'[i].epoch = IF jobs[i].key = k THEN e ELSE jobs[i].epoch
    BY <1>1, <1>4, QueuedKeys DEF Job, Queued
  <2>2. jobs' \in Seq(Job)
    BY <2>1, <1>4, QueuedKeys
  <2>3. \A c \in Keys : Queued(c)' = Queued(c)
    BY <2>1 DEF Queued
  <2>4. MediaTyped'
    BY <1>1, <1>4, <2>2 DEF MediaInv, MediaTyped
  <2>5. OneRunEach'
    BY <1>1, <1>2, <1>4, <2>1, QueuedKeys DEF MediaInv, OneRunEach
  <2>6. EpochsTold'
    <3>1. \A i \in DOMAIN jobs' : jobs'[i].epoch = newest'[jobs'[i].key]
      BY <1>1, <2>1, QueuedKeys DEF MediaInv, EpochsTold
    <3>2. worker.pc \in RunPlaces \cup {"handing"} => worker.key \in Keys
      BY WorkerAt DEF RunPlaces, JobRun
    <3>3. worker.pc \in RunPlaces => worker.key # k
      BY <1>4, WorkerAt
    <3>4. worker.pc = "handing" => worker.epoch = newest'[worker.key] \/ Queued(worker.key)' # {}
      BY <1>1, <1>4, <2>3, <3>2 DEF MediaInv, EpochsTold
    <3> QED BY <1>1, <1>4, <3>1, <3>2, <3>3, <3>4 DEF MediaInv, EpochsTold
  <2>7. ASSUME NEW c \in Keys PROVE OnItsWay(c)'
    BY <1>1, <1>2, <1>4, <2>3 DEF MediaInv, OnItsWay
  <2> QED BY <2>4, <2>5, <2>6, <2>7 DEF MediaInv
<1>5. CASE /\ ~Running(k) /\ Queued(k) = {} /\ UNCHANGED respec
           /\ jobs' = Append(jobs, [key |-> k, epoch |-> e])
  <2> DEFINE job == [key |-> k, epoch |-> e]
  <2>1. job \in Job /\ job.key = k /\ job.epoch = e
    BY <1>1 DEF Job
  <2> HIDE DEF job
  <2>2. /\ jobs \in Seq(Job) /\ jobs' \in Seq(Job)
        /\ DOMAIN jobs' = DOMAIN jobs \cup {Len(jobs) + 1} /\ Len(jobs) + 1 \notin DOMAIN jobs
        /\ jobs'[Len(jobs) + 1] = job
        /\ \A i \in DOMAIN jobs : jobs'[i] = jobs[i]
    <3>1. jobs' = Append(jobs, job) /\ jobs \in Seq(Job)
      BY <1>5 DEF job, MediaInv, MediaTyped
    <3> QED BY <3>1, <2>1
  <2>3. \A c \in Keys : Queued(c)' = IF c = k THEN {Len(jobs) + 1} ELSE Queued(c)
    BY <1>5, <2>1, <2>2 DEF Queued
  <2>4. MediaTyped'
    BY <1>1, <1>5, <2>2 DEF MediaInv, MediaTyped
  <2>5. OneRunEach'
    <3>1. \A i \in DOMAIN jobs : jobs[i].key # k
      BY <1>5 DEF Queued
    <3> QED BY <1>1, <1>2, <1>5, <2>1, <2>2, <3>1, QueuedKeys DEF MediaInv, OneRunEach
  <2>6. EpochsTold'
    <3>1. \A i \in DOMAIN jobs : jobs[i].key # k
      BY <1>5 DEF Queued
    <3>2. \A i \in DOMAIN jobs' : jobs'[i].epoch = newest'[jobs'[i].key]
      BY <1>1, <2>1, <2>2, <3>1, QueuedKeys DEF MediaInv, EpochsTold
    <3> QED BY <1>1, <1>2, <1>5, <2>3, <3>2, WorkerAt DEF MediaInv, EpochsTold, RunPlaces, JobRun
  <2>7. ASSUME NEW c \in Keys PROVE OnItsWay(c)'
    BY <1>1, <1>2, <1>5, <2>3 DEF MediaInv, OnItsWay
  <2> QED BY <2>4, <2>5, <2>6, <2>7 DEF MediaInv
<1> QED BY <1>3, <1>4, <1>5 DEF Submit, SubmitAgain, e

LEMMA ChosenQueued ==
    ASSUME MediaInv, jobs # <<>>
    PROVE  Chosen \in DOMAIN jobs
<1> USE MediaConstants DEF MediaConstants
<1> DEFINE urgent == {PriorityOf[jobs[i].key] : i \in DOMAIN jobs}
<1>1. DOMAIN jobs # {} /\ DOMAIN jobs \subseteq Nat
  <2>1. Len(jobs) # 0
    BY DEF MediaInv, MediaTyped
  <2> QED BY <2>1, QueuedKeys
<1>2. \A i \in DOMAIN jobs : PriorityOf[jobs[i].key] \in Nat /\ OwnerOf[jobs[i].key] \in Nat
  <2>1. \A k \in Keys : PriorityOf[k] \in 0..2 /\ OwnerOf[k] \in Owners
    OBVIOUS
  <2>2. 0..2 \subseteq Nat /\ Owners \subseteq Nat
    OBVIOUS
  <2> HIDE MediaConstants
  <2> QED BY <2>1, <2>2, QueuedKeys
<1>3. PICK p \in urgent : \A q \in urgent : p <= q
  <2>1. urgent \in SUBSET Nat /\ urgent # {}
    BY <1>1, <1>2
  <2> QED BY <2>1, LeastNat
<1>4. Tier # {}
  BY <1>3 DEF Tier
<1>5. Waiting # {} /\ Waiting \in SUBSET Nat
  BY <1>2, <1>4 DEF Waiting, Tier
<1>6. NextAccount \in Waiting
  <2> DEFINE after == {a \in Waiting : a > last}
             from == IF last \in Waiting /\ after # {} THEN after ELSE Waiting
  <2>1. from \in SUBSET Nat /\ from # {} /\ from \subseteq Waiting
    BY <1>5
  <2>2. Least(from) \in from
    BY <2>1, LeastIsOne
  <2> QED BY <2>1, <2>2 DEF NextAccount
<1>7. {i \in Tier : OwnerOf[jobs[i].key] = NextAccount} # {}
  BY <1>6 DEF Waiting
<1>8. Chosen \in {i \in Tier : OwnerOf[jobs[i].key] = NextAccount}
  BY <1>1, <1>7, LeastIsOne DEF Chosen, Tier
<1> QED BY <1>8 DEF Tier

LEMMA PickKeeps ==
    ASSUME MediaInv, Pick
    PROVE  MediaInv'
<1> DEFINE n == Chosen
           run == [pc |-> "picked", key |-> jobs[n].key, epoch |-> jobs[n].epoch,
                   attempts |-> 0, status |-> "none"]
           Was(i) == IF i < n THEN i ELSE i + 1
<1>1. n \in 1..Len(jobs) /\ Len(jobs) \in Nat /\ DOMAIN jobs = 1..Len(jobs) /\ jobs[n] \in Job
      /\ jobs[n].key \in Keys /\ jobs[n].epoch \in Nat
  BY ChosenQueued, QueuedKeys DEF Pick
<1>2. /\ worker' = run /\ worker.pc = "idle" /\ UNCHANGED <<respec, newest, handed>>
      /\ jobs' = [i \in 1..(Len(jobs) - 1) |-> jobs[IF i < n THEN i ELSE i + 1]]
  BY WorkerAt DEF Pick
<1> HIDE DEF n
<1>3. run \in JobRun /\ run.pc = "picked" /\ run.key = jobs[n].key /\ run.epoch = jobs[n].epoch
  BY <1>1 DEF JobRun, RunPlaces
<1> HIDE DEF run
<1>4. respec = 0
  BY <1>2 DEF MediaInv, OneRunEach, RunPlaces
<1>5. /\ DOMAIN jobs' = 1..(Len(jobs) - 1)
      /\ \A i \in DOMAIN jobs' : Was(i) \in DOMAIN jobs \ {n} /\ jobs'[i] = jobs[Was(i)]
      /\ \A j \in DOMAIN jobs \ {n} : \E i \in DOMAIN jobs' : Was(i) = j
      /\ \A i, j \in DOMAIN jobs' : Was(i) = Was(j) => i = j
  <2>1. \A i \in 1..(Len(jobs) - 1) : Was(i) \in DOMAIN jobs \ {n}
    BY <1>1
  <2>2. \A j \in DOMAIN jobs \ {n} : \E i \in 1..(Len(jobs) - 1) : Was(i) = j
    <3> TAKE j \in DOMAIN jobs \ {n}
    <3>1. CASE j < n
      BY <1>1, <3>1
    <3>2. CASE j > n
      <4>1. j - 1 \in 1..(Len(jobs) - 1) /\ Was(j - 1) = j
        BY <1>1, <3>2
      <4> QED BY <4>1
    <3> QED BY <1>1, <3>1, <3>2
  <2>3. \A i, j \in 1..(Len(jobs) - 1) : Was(i) = Was(j) => i = j
    BY <1>1
  <2> QED BY <1>2, <2>1, <2>2, <2>3
<1> HIDE DEF Was
<1>6. \A c \in Keys : c # jobs[n].key /\ Queued(c) # {} => Queued(c)' # {}
  BY <1>5 DEF Queued
<1>7. MediaTyped'
  <2>1. jobs' \in Seq(Job)
    BY <1>1, <1>5, <1>2, QueuedKeys
  <2> QED BY <1>2, <1>3, <2>1 DEF MediaInv, MediaTyped
<1>8. OneRunEach'
  <2>1. \A i \in DOMAIN jobs' : jobs'[i].key # jobs[n].key
    BY <1>1, <1>5 DEF MediaInv, OneRunEach
  <2>2. \A i, j \in DOMAIN jobs' : jobs'[i].key = jobs'[j].key => i = j
    BY <1>5 DEF MediaInv, OneRunEach
  <2> QED BY <1>2, <1>3, <1>4, <2>1, <2>2 DEF OneRunEach, Running, RunPlaces
<1>9. EpochsTold'
  BY <1>1, <1>2, <1>3, <1>4, <1>5 DEF MediaInv, EpochsTold, RunPlaces
<1>10. ASSUME NEW c \in Keys PROVE OnItsWay(c)'
  <2>1. CASE c = jobs[n].key
    BY <1>2, <1>3, <2>1 DEF OnItsWay, Running
  <2>2. CASE c # jobs[n].key
    BY <1>2, <1>6, <2>2 DEF MediaInv, OnItsWay, Running
  <2> QED BY <2>1, <2>2
<1> QED BY <1>7, <1>8, <1>9, <1>10 DEF MediaInv

LEMMA MediaInitInv ==
    ASSUME MediaInit
    PROVE  MediaInv
<1>1. WorkerIdle.pc = "idle" /\ DOMAIN jobs = {} /\ jobs \in Seq(Job)
  BY DEF WorkerIdle, MediaInit
<1> QED BY <1>1 DEF MediaInit, MediaInv, MediaTyped, OneRunEach, EpochsTold, OnItsWay, RunPlaces

LEMMA MediaStays ==
    ASSUME MediaInv, UNCHANGED <<jobs, worker, respec, newest, handed>>
    PROVE  MediaInv'
BY DEF MediaInv, MediaTyped, OneRunEach, EpochsTold, OnItsWay, Running, Queued

LEMMA MediaNextKeeps ==
    ASSUME MediaInv, [MediaNext]_mediaVars
    PROVE  MediaInv'
<1>1. CASE WorkerStep
  BY <1>1, PickKeeps, RunStepKeeps, RunOverKeeps, HandOffKeeps DEF WorkerStep
<1>2. CASE \E k \in Keys : Submit(k)
  BY <1>2, SubmitKeeps
<1>3. CASE \/ NewDay \/ Stop \/ UNCHANGED mediaVars
           \/ \E a \in Owners : Charge(a) \/ DeleteSave(a) \/ DeleteMedia(a)
  BY <1>3, MediaStays DEF NewDay, Stop, Charge, DeleteSave, DeleteMedia, mediaVars
<1> QED BY <1>1, <1>2, <1>3 DEF MediaNext

LEMMA MediaInvServes ==
    ASSUME MediaInv
    PROVE  NewestServed
<1>1. ASSUME NEW k \in Keys, newest[k] # 0
      PROVE  \/ \E i \in Queued(k) : jobs[i].epoch = newest[k]
             \/ Running(k) /\ newest[k] = (IF respec # 0 THEN respec ELSE worker.epoch)
             \/ worker.pc = "handing" /\ worker.key = k /\ worker.epoch = newest[k]
             \/ handed[k] = newest[k]
             \/ worker.pc = "ended"
  <2>1. Queued(k) # {} => \E i \in Queued(k) : jobs[i].epoch = newest[k]
    BY DEF MediaInv, EpochsTold, Queued
  <2>2. Running(k) => newest[k] = (IF respec # 0 THEN respec ELSE worker.epoch)
    BY WorkerAt DEF MediaInv, EpochsTold
  <2> QED BY <1>1, <2>1, <2>2 DEF MediaInv, OnItsWay, EpochsTold
<1>2. ASSUME NEW k \in Keys
      PROVE  Cardinality(Queued(k)) + (IF Running(k) THEN 1 ELSE 0) <= 1
  <2>1. CASE Queued(k) = {}
    BY <2>1, FS_EmptySet
  <2>2. CASE Queued(k) # {}
    <3>1. PICK i \in Queued(k) : TRUE
      BY <2>2
    <3>2. Queued(k) = {i} /\ ~Running(k)
      BY <3>1 DEF MediaInv, OneRunEach, Queued
    <3>3. Cardinality(Queued(k)) = 1
      BY <3>2, FS_Singleton
    <3> QED BY <3>2, <3>3
  <2> QED BY <2>1, <2>2
<1> QED BY <1>1, <1>2 DEF NewestServed

(* Whoever asked last is answered, and no job runs twice (MediaJobWorker). *)
THEOREM MediaServesNewest == MediaSpec => []NewestServed
<1>1. MediaInit => MediaInv
  BY MediaInitInv
<1>2. MediaInv /\ [MediaNext]_mediaVars => MediaInv'
  BY MediaNextKeeps
<1>3. MediaInv => NewestServed
  BY MediaInvServes
<1> QED BY <1>1, <1>2, <1>3, PTL DEF MediaSpec

----------------------------------------------------------------------------
(* A session's turns.  The argument is the order of run_turn: a rollback    *)
(* gives back a snapshot, so ToldIsKept needs the snapshot to hold whatever *)
(* any narrator was told (ToldIsSnapped).  It does when it is taken, and    *)
(* nobody is told more while it may be used, because one turn runs at a     *)
(* time (OneTurn); what a tool call told in the stream is applied when the  *)
(* stream ends (HeardIsApplied), no rollback being possible before that.    *)
USE TurnConstants DEF TurnConstants, Phases

OneTurn == \A p \in Presses : stage[p] \in InTurn => turnLock = p

HeardIsApplied ==
    \A p \in Presses :
        /\ stage[p] \in {"new", "arrived", "worded", "waits", "ready", "locked",
                         "acted", "negotiated"} => heard[p] = {}
        /\ stage[p] = "tools" => heard[p] \subseteq applied

ToldIsSnapped ==
    \A p, q \in Presses : stage[p] = "drafting" => receipts[q] \subseteq before[p]

TurnInv == TurnTypeOK /\ OneTurn /\ HeardIsApplied /\ ToldIsSnapped /\ ToldIsKept

LEMMA TurnInitInv == TurnInit => TurnInv
<1> SUFFICES ASSUME TurnInit PROVE TurnInv  OBVIOUS
<1>1. TurnTypeOK
  <2>1. 0 \in 0..MaxRetries  OBVIOUS
  <2> QED BY <2>1 DEF TurnInit, TurnTypeOK, Stages
<1>2. OneTurn /\ HeardIsApplied /\ ToldIsSnapped /\ ToldIsKept
  BY DEF TurnInit, InTurn, OneTurn, HeardIsApplied, ToldIsSnapped, ToldIsKept
<1> QED BY <1>1, <1>2 DEF TurnInv

LEMMA TurnStill == TurnInv /\ UNCHANGED pressVars => TurnInv'
BY DEF TurnInv, TurnTypeOK, OneTurn, HeardIsApplied, ToldIsSnapped, ToldIsKept,
       pressVars, doorVars, playVars

----------------------------------------------------------------------------
(* A press that is not in a turn yet moves on: no effect is touched. *)
LEMMA PressMoves ==
    ASSUME TurnInv, NEW p \in Presses,
           NEW there \in {"arrived", "worded", "waits", "ready", "done"},
           stage[p] \in {"new", "arrived", "worded", "waits", "ready"}, To(p, there),
           stile' \in Presses \cup {NoPress, Voice},
           UNCHANGED <<gated, frame, phone_up, turnLock, playVars>>
    PROVE  TurnInv'
<1>1. TurnTypeOK'
  BY DEF TurnInv, TurnTypeOK, To, Stages, InTurn, playVars
<1>2. OneTurn'
  BY DEF TurnInv, TurnTypeOK, To, InTurn, OneTurn
<1>3. HeardIsApplied'
  BY DEF TurnInv, TurnTypeOK, To, HeardIsApplied, playVars
<1>4. ToldIsSnapped' /\ ToldIsKept'
  BY DEF TurnInv, TurnTypeOK, To, ToldIsSnapped, ToldIsKept, playVars
<1> QED BY <1>1, <1>2, <1>3, <1>4 DEF TurnInv

LEMMA PressComes ==
    ASSUME TurnInv, NEW p \in Presses, Comes(p)
    PROVE  TurnInv'
<1>1. CASE Arrives(p)        BY <1>1, PressMoves DEF Arrives, TurnInv, TurnTypeOK
<1>2. CASE ReadsSentence(p)  BY <1>2, PressMoves DEF ReadsSentence, TurnInv, TurnTypeOK
<1>3. CASE ReadsIntent(p)    BY <1>3, PressMoves DEF ReadsIntent, TurnInv, TurnTypeOK
<1>4. CASE Turnstile(p)      BY <1>4, PressMoves DEF Turnstile, TurnInv, TurnTypeOK
<1>5. CASE TriesLock(p)
  <2>1. CASE turnLock = NoPress /\ ~phone_up
    <3>1. turnLock' = p /\ stage[p] = "ready" /\ To(p, "locked")
          /\ UNCHANGED <<gated, frame, phone_up, stile, playVars>>
      BY <1>5, <2>1 DEF TriesLock
    <3>2. TurnTypeOK'
      BY <3>1 DEF TurnInv, TurnTypeOK, To, Stages, InTurn, playVars
    <3>3. OneTurn'
      BY <2>1, <3>1 DEF TurnInv, TurnTypeOK, To, InTurn, OneTurn
    <3>4. HeardIsApplied'
      BY <3>1 DEF TurnInv, TurnTypeOK, To, HeardIsApplied, playVars
    <3>5. ToldIsSnapped' /\ ToldIsKept'
      BY <3>1 DEF TurnInv, TurnTypeOK, To, ToldIsSnapped, ToldIsKept, playVars
    <3> QED BY <3>2, <3>3, <3>4, <3>5 DEF TurnInv
  <2>2. CASE ~(turnLock = NoPress /\ ~phone_up)
    BY <1>5, <2>2, PressMoves DEF TriesLock, FreesStile, TurnInv, TurnTypeOK
  <2> QED BY <2>1, <2>2
<1> QED BY <1>1, <1>2, <1>3, <1>4, <1>5 DEF Comes

----------------------------------------------------------------------------
(* A turn is let go: its lock is free and it drafts no more. *)
LEMMA TurnLetsGo ==
    ASSUME TurnInv, NEW p \in Presses, NEW there \in {"done", "failed"},
           stage[p] \in InTurn, LetsGo(p, there), frame' \in Nat,
           UNCHANGED <<gated, phone_up, applied, receipts, flying>>
    PROVE  TurnInv'
<1>1. TurnTypeOK'
  BY DEF TurnInv, TurnTypeOK, LetsGo, FreesStile, To, Stages, InTurn
<1>2. OneTurn'
  BY DEF TurnInv, TurnTypeOK, LetsGo, To, InTurn, OneTurn
<1>3. HeardIsApplied'
  BY DEF TurnInv, TurnTypeOK, LetsGo, To, HeardIsApplied
<1>4. ToldIsSnapped' /\ ToldIsKept'
  BY DEF TurnInv, TurnTypeOK, LetsGo, To, ToldIsSnapped, ToldIsKept
<1> QED BY <1>1, <1>2, <1>3, <1>4 DEF TurnInv

(* A turn before its mechanics phase applies something, or nothing. *)
LEMMA TurnApplies ==
    ASSUME TurnInv, NEW p \in Presses, NEW phase \in Phases,
           NEW there \in {"acted", "negotiated"},
           stage[p] \in {"locked", "acted"}, To(p, there),
           Applies(p, phase) \/ UNCHANGED <<applied, receipts>>,
           UNCHANGED <<doorVars, flying, heard, before, tries>>
    PROVE  TurnInv'
<1>1. /\ applied' \subseteq Presses \X Phases /\ applied \subseteq applied'
      /\ receipts' \in [Presses -> SUBSET (Presses \X Phases)]
      /\ \A q \in Presses : q # p => receipts'[q] = receipts[q]
      /\ \A q \in Presses : receipts'[q] \subseteq applied'
  BY DEF TurnInv, TurnTypeOK, ToldIsKept, Applies
<1>2. TurnTypeOK'
  BY <1>1 DEF TurnInv, TurnTypeOK, To, Stages, InTurn, doorVars
<1>3. OneTurn'
  BY DEF TurnInv, TurnTypeOK, To, InTurn, OneTurn, doorVars
<1>4. HeardIsApplied'
  BY <1>1 DEF TurnInv, TurnTypeOK, To, HeardIsApplied
<1>5. ToldIsSnapped'
  <2>1. turnLock = p
    BY DEF TurnInv, OneTurn, InTurn
  <2>2. \A q \in Presses : stage'[q] # "drafting"
    BY <2>1 DEF TurnInv, TurnTypeOK, OneTurn, InTurn, To
  <2> QED BY <2>2 DEF ToldIsSnapped
<1> QED BY <1>1, <1>2, <1>3, <1>4, <1>5 DEF TurnInv, ToldIsKept

(* The mechanics phase is over: the snapshot is taken of what is applied,   *)
(* and that holds what the narrator is told.                                *)
LEMMA TurnDrafts ==
    ASSUME TurnInv, NEW p \in Presses, stage[p] = "tools", To(p, "drafting"),
           \/ receipts' = [receipts EXCEPT ![p] = @ \cup heard[p]]
           \/ UNCHANGED receipts,
           before' = [before EXCEPT ![p] = applied],
           UNCHANGED <<doorVars, applied, flying, heard, tries>>
    PROVE  TurnInv'
<1>1. /\ receipts' \in [Presses -> SUBSET (Presses \X Phases)]
      /\ \A q \in Presses : receipts'[q] \subseteq applied
  BY DEF TurnInv, TurnTypeOK, ToldIsKept, HeardIsApplied
<1>2. TurnTypeOK'
  BY <1>1 DEF TurnInv, TurnTypeOK, To, Stages, InTurn, doorVars
<1>3. OneTurn'
  BY DEF TurnInv, TurnTypeOK, To, InTurn, OneTurn, doorVars
<1>4. HeardIsApplied'
  BY DEF TurnInv, TurnTypeOK, To, HeardIsApplied
<1>5. ToldIsSnapped'
  <2>1. turnLock = p
    BY DEF TurnInv, OneTurn, InTurn
  <2>2. \A q \in Presses : stage'[q] = "drafting" => q = p
    BY <2>1 DEF TurnInv, TurnTypeOK, OneTurn, InTurn, To
  <2>3. before'[p] = applied
    BY DEF TurnInv, TurnTypeOK
  <2> QED BY <1>1, <2>2, <2>3 DEF ToldIsSnapped
<1> QED BY <1>1, <1>2, <1>3, <1>4, <1>5 DEF TurnInv, ToldIsKept

----------------------------------------------------------------------------
LEMMA TurnRuns ==
    ASSUME TurnInv, NEW p \in Presses, Runs(p)
    PROVE  TurnInv'
<1> USE DEF doorVars, playVars
<1>1. CASE NotAdmitted(p)
  BY <1>1, TurnLetsGo DEF NotAdmitted, InTurn, TurnInv, TurnTypeOK
<1>2. CASE Acts(p)        BY <1>2, TurnApplies DEF Acts
<1>3. CASE Negotiates(p)  BY <1>3, TurnApplies DEF Negotiates
<1>4. CASE AsksTools(p)
  <2>1. TurnTypeOK'
    BY <1>4 DEF AsksTools, TurnInv, TurnTypeOK, To, Stages, InTurn
  <2>2. OneTurn' /\ HeardIsApplied'
    BY <1>4 DEF AsksTools, TurnInv, TurnTypeOK, To, InTurn, OneTurn, HeardIsApplied
  <2>3. ToldIsSnapped' /\ ToldIsKept'
    BY <1>4 DEF AsksTools, TurnInv, TurnTypeOK, To, ToldIsSnapped, ToldIsKept
  <2> QED BY <2>1, <2>2, <2>3 DEF TurnInv
<1>5. ASSUME NEW t \in Tools, CallsTool(p, t) PROVE TurnInv'
  <2>1. TurnTypeOK'
    BY <1>5 DEF CallsTool, TurnInv, TurnTypeOK
  <2>2. OneTurn' /\ HeardIsApplied' /\ ToldIsSnapped' /\ ToldIsKept'
    BY <1>5 DEF CallsTool, TurnInv, OneTurn, HeardIsApplied, ToldIsSnapped, ToldIsKept
  <2> QED BY <2>1, <2>2 DEF TurnInv
<1>6. ASSUME NEW t \in Tools, ToolLands(p, t) PROVE TurnInv'
  <2>1. TurnTypeOK'
    BY <1>6 DEF ToolLands, TurnInv, TurnTypeOK
  <2>2. OneTurn' /\ ToldIsSnapped' /\ ToldIsKept'
    BY <1>6 DEF ToolLands, TurnInv, OneTurn, ToldIsSnapped, ToldIsKept
  <2>3. HeardIsApplied'
    BY <1>6 DEF ToolLands, TurnInv, TurnTypeOK, HeardIsApplied
  <2> QED BY <2>1, <2>2, <2>3 DEF TurnInv
<1>7. CASE ToolsAnswered(p)  BY <1>7, TurnDrafts DEF ToolsAnswered
<1>8. CASE ToolsFailed(p)    BY <1>8, TurnDrafts DEF ToolsFailed
<1>9. CASE Redrafts(p)
  <2>1. applied' = before[p] /\ \A q \in Presses : receipts[q] \subseteq before[p]
    BY <1>9 DEF Redrafts, TurnInv, ToldIsSnapped
  <2>2. TurnTypeOK'
    BY <1>9 DEF Redrafts, TurnInv, TurnTypeOK
  <2>3. OneTurn' /\ ToldIsSnapped'
    BY <1>9 DEF Redrafts, TurnInv, OneTurn, ToldIsSnapped
  <2>4. HeardIsApplied'
    <3>1. \A q \in Presses : stage[q] # "tools"
      BY <1>9 DEF Redrafts, TurnInv, OneTurn, InTurn
    <3> QED BY <1>9, <3>1 DEF Redrafts, TurnInv, HeardIsApplied
  <2>5. ToldIsKept'
    BY <1>9, <2>1 DEF Redrafts, ToldIsKept
  <2> QED BY <2>2, <2>3, <2>4, <2>5 DEF TurnInv
<1>10. CASE Narrates(p)
  <2>1. applied \subseteq applied' /\ applied' \subseteq Presses \X Phases
    BY <1>10 DEF Narrates, TurnInv, TurnTypeOK
  <2>2. TurnTypeOK'
    BY <1>10, <2>1 DEF Narrates, TurnInv, TurnTypeOK, To, Stages, InTurn
  <2>3. OneTurn' /\ HeardIsApplied'
    BY <1>10, <2>1 DEF Narrates, TurnInv, TurnTypeOK, To, InTurn, OneTurn, HeardIsApplied
  <2>4. ToldIsSnapped' /\ ToldIsKept'
    BY <1>10, <2>1 DEF Narrates, TurnInv, TurnTypeOK, To, ToldIsSnapped, ToldIsKept
  <2> QED BY <2>2, <2>3, <2>4 DEF TurnInv
<1>11. CASE TurnDone(p)
  BY <1>11, TurnLetsGo DEF TurnDone, InTurn, TurnInv, TurnTypeOK
<1>12. CASE TurnRaises(p)
  BY <1>12, TurnLetsGo DEF TurnRaises, TurnInv, TurnTypeOK
<1> QED BY <1>1, <1>2, <1>3, <1>4, <1>5, <1>6, <1>7, <1>8, <1>9, <1>10, <1>11, <1>12
        DEF Runs

(* Who has no turn touches no effect. *)
LEMMA OthersMove ==
    ASSUME TurnInv, PhoneActs \/ VoiceCalls \/ VoiceAnswered
    PROVE  TurnInv'
<1>1. TurnTypeOK'
  BY DEF PhoneActs, VoiceCalls, VoiceAnswered, TurnInv, TurnTypeOK, playVars
<1>2. UNCHANGED <<turnLock, stage, playVars>>
  BY DEF PhoneActs, VoiceCalls, VoiceAnswered
<1>3. OneTurn' /\ HeardIsApplied' /\ ToldIsSnapped' /\ ToldIsKept'
  BY <1>2 DEF TurnInv, OneTurn, HeardIsApplied, ToldIsSnapped, ToldIsKept, playVars
<1> QED BY <1>1, <1>3 DEF TurnInv

----------------------------------------------------------------------------
(* The invariant: one turn at a time holds the effects, and its snapshot    *)
(* holds what was told.                                                     *)
THEOREM TurnInvariant == TurnSpec => []TurnInv
<1>1. TurnInit => TurnInv
  BY TurnInitInv
<1>2. TurnInv /\ [TurnNext]_pressVars => TurnInv'
  BY PressComes, TurnRuns, OthersMove, TurnStill DEF TurnNext
<1> QED BY <1>1, <1>2, PTL DEF TurnSpec

(* A turn's state keeps its types. *)
THEOREM TurnTypes == TurnSpec => []TurnTypeOK
<1>1. TurnInv => TurnTypeOK
  BY DEF TurnInv
<1> QED BY <1>1, TurnInvariant, PTL

(* What a narrator was told stays applied: no rollback takes it back, for   *)
(* any number of presses, tools and retries (mechanics.py, the ordering     *)
(* before StateTransaction).                                                *)
THEOREM ToldIsKeptHolds == TurnSpec => []ToldIsKept
<1>1. TurnInv => ToldIsKept
  BY DEF TurnInv
<1> QED BY <1>1, TurnInvariant, PTL

HIDE TurnConstants DEF TurnConstants, Phases

----------------------------------------------------------------------------
(* The promises: whatever is not dropped is judged and carried.             *)
(* What the rows keep, whoever wrote them: their types; the first n of them *)
(* are made; a person's promise and a player's have carriers of their own;  *)
(* what is open has one, unless it was dropped; and b, the broken promise   *)
(* still to be told, is on record.                                          *)
Theirs == {"promise_due", "initiate", "message"}

Sound(rs, n, cut, b) ==
    /\ rs \in [PromiseIds -> Rows] /\ n \in 0..MaxPromises
    /\ \A i \in PromiseIds :
          /\ rs[i].status = "unmade" <=> i > n
          /\ rs[i].carrier \in Theirs => rs[i].by = "person"
          /\ rs[i].carrier = "promise_close" => rs[i].by = "player"
          /\ rs[i].status = "open" => rs[i].carrier # "none" \/ i \in cut
          /\ b = i => rs[i].status = "broken"

(* The types of the rest. *)
OthersOK ==
    /\ asked \in {"none", "person", "player"} /\ broken \in PromiseIds \cup {NoPromise}
    /\ relation \in {"live", "faded", "ended"}
    /\ gone \in BOOLEAN /\ ghosted \in BOOLEAN /\ together \in BOOLEAN
    /\ dropped \subseteq PromiseIds

PromisesInv == OthersOK /\ Sound(row, made, dropped, broken)

(* One row changed to r, which is made if it was, closed if it was, and     *)
(* carried if it is open: the rows are as sound as before.                  *)
LEMMA OneRow ==
    ASSUME NEW rs, NEW n, NEW cut, NEW b, NEW j \in PromiseIds, NEW r \in Rows,
           Sound(rs, n, cut, b),
           r.status # "unmade", rs[j].status # "unmade",
           r.carrier \in Theirs => r.by = "person",
           r.carrier = "promise_close" => r.by = "player",
           r.status = "open" => r.carrier # "none",
           b = j => r.status = "broken"
    PROVE  Sound([rs EXCEPT ![j] = r], n, cut, b)
BY DEF Sound

(* make keeps them sound: the row that comes is the next one. *)
LEMMA MadeSound ==
    ASSUME NEW rs, NEW sides \in SUBSET {"person", "player"}, NEW cut, NEW b,
           Sound(rs, made, cut, b), MayMake(rs, sides)
    PROVE  Sound(row', made', cut, b)
<1>1. CASE made' = made /\ row' = rs
  BY <1>1
<1>2. ASSUME NEW by \in sides, made < MaxPromises, made' = made + 1,
             row' = [rs EXCEPT ![made + 1] = NewRow(by)]
      PROVE  Sound(row', made', cut, b)
  <2>1. made + 1 \in PromiseIds /\ made' \in 0..MaxPromises
    BY <1>2, PromisesConstants DEF Sound, PromiseIds
  <2>2. NewRow(by) \in Rows /\ NewRow(by).status = "open" /\ NewRow(by).by = by
        /\ NewRow(by).carrier = IF by = "person" THEN "promise_due" ELSE "promise_close"
    BY DEF NewRow, Rows, Carriers, QueueKinds
  <2>3. rs[made + 1].status = "unmade"
    BY <2>1 DEF Sound, PromiseIds
  <2> QED
    BY <1>2, <2>1, <2>2, <2>3 DEF Sound, Theirs, PromiseIds
<1> QED
  BY <1>1, <1>2 DEF MayMake

(* What the player's message keeps. *)
LEMMA KeptSound ==
    ASSUME NEW rs, NEW n, NEW cut, NEW b, Sound(rs, n, cut, b)
    PROVE  Sound(Kept(rs), n, cut, b)
<1>1. ASSUME NEW r \in Rows
      PROVE  /\ Closes(r, "kept") \in Rows
             /\ Closes(r, "kept").status = IF r.status = "open" THEN "kept" ELSE r.status
             /\ Closes(r, "kept").by = r.by /\ Closes(r, "kept").carrier = r.carrier
  BY DEF Closes, Rows, Closed
<1>2. rs \in [PromiseIds -> Rows]
  BY DEF Sound
<1>3. ASSUME NEW i \in PromiseIds
      PROVE  /\ Kept(rs)[i] \in Rows
             /\ Kept(rs)[i].status \in {rs[i].status, "kept"}
             /\ Kept(rs)[i].status # rs[i].status => rs[i].status = "open"
             /\ Kept(rs)[i].by = rs[i].by /\ Kept(rs)[i].carrier = rs[i].carrier
  BY <1>1, <1>2 DEF Kept
<1>4. Kept(rs) \in [PromiseIds -> Rows]
  BY <1>3 DEF Kept
<1> QED
  BY <1>2, <1>3, <1>4 DEF Sound

(* A row judged for good. *)
LEMMA SettledSound ==
    ASSUME PromisesInv, NEW j \in PromiseIds, NEW status \in Closed,
           row[j].carrier # "none", NEW b \in {broken, j},
           b = j => b = broken \/ (status = "broken" /\ row[j].status = "open")
    PROVE  Sound(Settles(j, status), made, dropped, b)
<1>1. row \in [PromiseIds -> Rows] /\ row[j] \in Rows
  BY DEF PromisesInv, Sound
<1> DEFINE r == [Closes(row[j], status) EXCEPT !.carrier = "none"]
<1>2. /\ r \in Rows /\ r.carrier = "none"
      /\ r.status = IF row[j].status = "open" THEN status ELSE row[j].status
  BY <1>1 DEF Closes, Rows, Closed, Carriers
<1>3. Settles(j, status) = [row EXCEPT ![j] = r]
  BY <1>1 DEF Settles
<1>4. r.status # "open"
  BY <1>2 DEF Closed
<1> HIDE DEF r
<1> QED
  BY <1>1, <1>2, <1>3, <1>4 DEF PromisesInv, Sound, Theirs, Closed

LEMMA SettledAlike ==
    ASSUME PromisesInv, NEW j \in PromiseIds, NEW status \in Closed,
           row[j].carrier # "none"
    PROVE  Sound(Settles(j, status), made, dropped, broken)
BY SettledSound

(* Events taken off the queue. *)
LEMMA CancelledSound ==
    ASSUME PromisesInv, NEW kinds \in SUBSET QueueKinds, NEW cut,
           dropped \subseteq cut,
           \A i \in PromiseIds : row[i].carrier \in kinds /\ row[i].status = "open" => i \in cut
    PROVE  Sound(Cancelled(kinds), made, cut, broken)
<1>1. row \in [PromiseIds -> Rows]
  BY DEF PromisesInv, Sound
<1>2. ASSUME NEW i \in PromiseIds
      PROVE  /\ Cancelled(kinds)[i] \in Rows
             /\ Cancelled(kinds)[i].status = row[i].status /\ Cancelled(kinds)[i].by = row[i].by
             /\ Cancelled(kinds)[i].carrier = IF row[i].carrier \in kinds THEN "none" ELSE row[i].carrier
  BY <1>1 DEF Cancelled, Rows, Carriers
<1>3. Cancelled(kinds) \in [PromiseIds -> Rows]
  BY <1>2 DEF Cancelled
<1> QED
  BY <1>1, <1>2, <1>3 DEF PromisesInv, Sound, Theirs

----------------------------------------------------------------------------
LEMMA PromisesInitInv == PromisesInit => PromisesInv
<1> SUFFICES ASSUME PromisesInit PROVE PromisesInv
  OBVIOUS
<1>1. Unmade \in Rows /\ Unmade.status = "unmade" /\ Unmade.carrier = "none"
  BY DEF Unmade, Rows, Carriers
<1>2. row \in [PromiseIds -> Rows] /\ \A i \in PromiseIds : row[i] = Unmade
  BY <1>1 DEF PromisesInit
<1>3. Sound(row, made, dropped, broken)
  BY <1>1, <1>2, PromisesConstants DEF PromisesInit, Sound, Theirs, PromiseIds, NoPromise
<1> QED
  BY <1>3 DEF PromisesInit, PromisesInv, OthersOK

(* What the player does, and what a reply promises or carries. *)
LEMMA TalkInv ==
    ASSUME PromisesInv,
           \/ PlayerWrites \/ Decides \/ Adopts
           \/ \E by \in {"person", "player"} : SignOff(by)
    PROVE  PromisesInv'
<1> USE DEF PromisesInv
<1>1. CASE PlayerWrites
  BY <1>1, KeptSound DEF PlayerWrites, OthersOK
<1>2. CASE Decides
  <2>1. Accepted \in SUBSET {"person", "player"}
    BY DEF Accepted, OthersOK
  <2>2. Sound(row', made', dropped, broken)
    BY <1>2, <2>1, MadeSound DEF Decides
  <2>3. Sound(row', made', dropped, broken')
    <3>1. CASE broken' = broken
      BY <2>2, <3>1
    <3>2. CASE broken' = NoPromise
      <4>1. \A i \in PromiseIds : broken' # i
        BY <3>2 DEF PromiseIds, NoPromise
      <4> QED
        BY <2>2, <4>1 DEF Sound
    <3> QED
      BY <1>2, <3>1, <3>2 DEF Decides
  <2>4. OthersOK'
    BY <1>2 DEF Decides, OthersOK
  <2> QED
    BY <1>2, <2>3, <2>4 DEF Decides
<1>3. CASE Adopts
  BY <1>3, MadeSound DEF Adopts, OthersOK
<1>4. ASSUME NEW by \in {"person", "player"}, SignOff(by)
      PROVE  PromisesInv'
  <2> DEFINE Chipped(i) == IF i > made THEN [row EXCEPT ![i] = NewRow(by)] ELSE row
  <2>1. PICK i \in PromiseIds :
          /\ \/ i = made + 1 /\ made' = i
             \/ Open(i, by) /\ row[i].phase # "after" /\ made' = made
          /\ \/ row' = Kept(Chipped(i)) /\ asked' = "none"
             \/ row' = [Chipped(i) EXCEPT ![i].status = "void"] /\ asked' = asked
    BY <1>4 DEF SignOff
  <2> DEFINE rs == Chipped(i)
  <2>2. /\ rs[i] \in Rows /\ rs[i].status = "open" /\ rs[i].by = by
        /\ Sound(rs, made', dropped, broken)
    <3>1. CASE i = made + 1 /\ made' = i
      <4>1. NewRow(by) \in Rows /\ NewRow(by).status = "open" /\ NewRow(by).by = by
            /\ NewRow(by).carrier = IF by = "person" THEN "promise_due" ELSE "promise_close"
        BY DEF NewRow, Rows, Carriers, QueueKinds
      <4>2. made \in Nat /\ i > made /\ rs = [row EXCEPT ![i] = NewRow(by)]
        BY <3>1, PromisesConstants DEF Sound
      <4> HIDE DEF rs
      <4> QED
        BY <3>1, <4>1, <4>2, PromisesConstants DEF Sound, Theirs, PromiseIds
    <3>2. CASE Open(i, by) /\ made' = made
      <4>1. ~(i > made) /\ rs = row
        BY <3>2 DEF Open, Sound
      <4> HIDE DEF rs
      <4> QED
        BY <3>2, <4>1 DEF Open, Sound
    <3> QED
      BY <2>1, <3>1, <3>2
  <2> DEFINE r == [rs[i] EXCEPT !.status = "void"]
  <2>3. r \in Rows /\ r.status = "void" /\ r.by = by /\ r.carrier = rs[i].carrier
    BY <2>2 DEF Rows, Closed
  <2>4. [rs EXCEPT ![i].status = "void"] = [rs EXCEPT ![i] = r]
    OBVIOUS
  <2>5. broken # i
    BY <2>2 DEF Sound
  <2>6. Sound([rs EXCEPT ![i] = r], made', dropped, broken)
    <3> HIDE DEF rs, r
    <3> QED
      BY <2>2, <2>3, <2>5, OneRow DEF Sound
  <2>7. Sound(Kept(rs), made', dropped, broken)
    BY <2>2, KeptSound
  <2>8. Sound(row', made', dropped, broken)
    BY <2>1, <2>4, <2>6, <2>7
  <2> QED
    BY <1>4, <2>1, <2>8 DEF SignOff, OthersOK
<1> QED
  BY <1>1, <1>2, <1>3, <1>4

(* What time, the queue, the voicing pass and a save do to one promise. *)
LEMMA JudgeInv ==
    ASSUME PromisesInv, NEW i \in PromiseIds, Judges(i)
    PROVE  PromisesInv'
<1> USE DEF PromisesInv
<1>1. row \in [PromiseIds -> Rows] /\ row[i] \in Rows
  BY DEF Sound
<1>2. CASE Passes(i)
  <2> DEFINE r == [row[i] EXCEPT !.phase = IF @ = "before" THEN "inside" ELSE "after"]
  <2>1. /\ r \in Rows /\ r.status = row[i].status /\ r.by = row[i].by
        /\ r.carrier = row[i].carrier
    BY <1>1 DEF Rows
  <2>2. row' = [row EXCEPT ![i] = r]
    BY <1>1, <1>2 DEF Passes
  <2>3. Sound(row', made, dropped, broken)
    <3> HIDE DEF r
    <3> QED
      BY <2>1, <2>2 DEF Sound
  <2> QED
    BY <1>2, <2>3 DEF Passes, OthersOK
<1>3. CASE PromiseDue(i)
  <2>1. CASE row[i].status = "open" /\ ~gone /\ relation = "live"
    <3> DEFINE r == [row[i] EXCEPT !.carrier = "initiate"]
               rs == [row EXCEPT ![i].carrier = "initiate"]
    <3>1. /\ r \in Rows /\ r.status = row[i].status /\ r.by = row[i].by
          /\ r.carrier = "initiate"
      BY <1>1 DEF Rows, Carriers, QueueKinds
    <3>2. rs = [row EXCEPT ![i] = r]
      BY <1>1
    <3>3. row[i].by = "person"
      BY <1>3 DEF PromiseDue, Sound, Theirs
    <3>4. Sound(rs, made, dropped, broken)
      <4> HIDE DEF r, rs
      <4> QED
        BY <2>1, <3>1, <3>2, <3>3, OneRow DEF Sound
    <3>5. Accepted \in SUBSET {"person", "player"}
      BY DEF Accepted, OthersOK
    <3>6. MayMake(rs, Accepted) /\ asked' = "none"
      BY <1>3, <2>1 DEF PromiseDue
    <3>7. Sound(row', made', dropped, broken)
      <4> HIDE DEF rs
      <4> QED
        BY <3>4, <3>5, <3>6, MadeSound
    <3> QED
      BY <1>3, <3>6, <3>7 DEF PromiseDue, OthersOK
  <2>2. CASE ~(row[i].status = "open" /\ ~gone /\ relation = "live")
    <3>1. Sound(Settles(i, "void"), made, dropped, broken)
      BY <1>3, SettledAlike DEF PromiseDue, Closed
    <3> QED
      BY <1>3, <2>2, <3>1 DEF PromiseDue, OthersOK
  <2> QED
    BY <2>1, <2>2
<1>4. CASE Lands(i)
  <2>1. CASE gone \/ ghosted
    <3>1. Sound(Settles(i, "void"), made, dropped, broken)
      BY <1>4, SettledAlike DEF Lands, Closed
    <3> QED
      BY <1>4, <2>1, <3>1 DEF Lands, OthersOK
  <2>2. CASE ~(gone \/ ghosted)
    <3> DEFINE r == [row[i] EXCEPT !.carrier = "message"]
    <3>1. /\ r \in Rows /\ r.status = row[i].status /\ r.by = row[i].by
          /\ r.carrier = "message"
      BY <1>1 DEF Rows, Carriers
    <3>2. row' = [row EXCEPT ![i] = r]
      BY <1>1, <1>4, <2>2 DEF Lands
    <3>3. Sound(row', made, dropped, broken)
      <4> HIDE DEF r
      <4> QED
        BY <1>4, <3>1, <3>2 DEF Lands, Sound, Theirs
    <3> QED
      BY <1>4, <2>2, <3>3 DEF Lands, OthersOK
  <2> QED
    BY <2>1, <2>2
<1>5. CASE Voiced(i)
  <2>1. \A status \in Closed : Sound(Settles(i, status), made, dropped, broken)
    BY <1>5, SettledAlike DEF Voiced
  <2> QED
    BY <1>5, <2>1 DEF Voiced, OthersOK, Closed
<1>6. CASE PromiseClose(i)
  <2> DEFINE over == gone \/ relation # "live"
  <2>1. /\ row' = Settles(i, IF over THEN "void" ELSE "broken")
        /\ broken' = IF row[i].status = "open" /\ ~over THEN i ELSE broken
        /\ row[i].carrier # "none"
    BY <1>6 DEF PromiseClose
  <2>2. Sound(row', made, dropped, broken')
    <3>1. CASE over
      <4>1. Sound(Settles(i, "void"), made, dropped, broken)
        BY <2>1, SettledAlike DEF Closed
      <4> QED
        BY <2>1, <3>1, <4>1
    <3>2. CASE ~over /\ row[i].status = "open"
      <4>1. Sound(Settles(i, "broken"), made, dropped, i)
        BY <2>1, <3>2, SettledSound DEF Closed
      <4> QED
        BY <2>1, <3>2, <4>1
    <3>3. CASE ~over /\ row[i].status # "open"
      <4>1. Sound(Settles(i, "broken"), made, dropped, broken)
        BY <2>1, SettledAlike DEF Closed
      <4> QED
        BY <2>1, <3>3, <4>1
    <3> QED
      BY <3>1, <3>2, <3>3
  <2> QED
    BY <1>6, <2>1, <2>2 DEF PromiseClose, OthersOK
<1>7. CASE Forgets(i)
  <2> DEFINE r == [row[i] EXCEPT !.status = "forgotten"]
  <2>1. /\ r \in Rows /\ r.status = "forgotten" /\ r.by = row[i].by
        /\ r.carrier = row[i].carrier
    BY <1>1 DEF Rows
  <2>2. row' = [row EXCEPT ![i] = r]
    BY <1>1, <1>7 DEF Forgets
  <2>3. Sound(row', made, dropped, broken)
    <3> HIDE DEF r
    <3> QED
      BY <1>7, <2>1, <2>2 DEF Forgets, Closed, Sound
  <2> QED
    BY <1>7, <2>3 DEF Forgets, OthersOK
<1> QED
  BY <1>2, <1>3, <1>4, <1>5, <1>6, <1>7 DEF Judges

(* Partings and reunions.  A ghost drops no open promise of theirs, because *)
(* none is; nor one of the player's, whose carrier it leaves.               *)
LEMMA PartingInv ==
    ASSUME PromisesInv,
           Unmatch \/ RelationEnds \/ Fades \/ TheyWrite \/ Ghosts \/ MeetsOrParts
    PROVE  PromisesInv'
<1> USE DEF PromisesInv
<1>1. CASE Unmatch
  BY <1>1, CancelledSound DEF Unmatch, OthersOK
<1>2. CASE RelationEnds
  <2>1. {"initiate"} \in SUBSET QueueKinds
    BY DEF QueueKinds
  <2> QED
    BY <1>2, <2>1, CancelledSound DEF RelationEnds, OthersOK
<1>3. CASE Fades
  BY <1>3 DEF Fades, OthersOK
<1>4. CASE TheyWrite
  BY <1>4 DEF TheyWrite, OthersOK
<1>5. CASE Ghosts
  <2>1. {"initiate"} \in SUBSET QueueKinds
    BY DEF QueueKinds
  <2>2. \A i \in PromiseIds : ~(row[i].carrier = "initiate" /\ row[i].status = "open")
    BY <1>5 DEF Ghosts, Open, Sound, Theirs
  <2>3. Sound(Cancelled({"initiate"}), made, dropped, broken)
    BY <2>1, <2>2, CancelledSound
  <2> QED
    BY <1>5, <2>3 DEF Ghosts, OthersOK
<1>6. CASE MeetsOrParts
  BY <1>6 DEF MeetsOrParts, OthersOK
<1> QED
  BY <1>1, <1>2, <1>3, <1>4, <1>5, <1>6

LEMMA PromisesStepInv == PromisesInv /\ [PromisesNext]_promisesVars => PromisesInv'
<1> SUFFICES ASSUME PromisesInv, [PromisesNext]_promisesVars PROVE PromisesInv'
  OBVIOUS
<1>1. CASE UNCHANGED promisesVars
  BY <1>1 DEF promisesVars, PromisesInv, OthersOK
<1> QED
  BY <1>1, TalkInv, JudgeInv, PartingInv DEF PromisesNext

LEMMA PromisesInvAlways == PromisesSpec => []PromisesInv
BY PromisesInitInv, PromisesStepInv, PTL DEF PromisesSpec

(* The rows, the queue and the person keep their types. *)
THEOREM PromisesTypes == PromisesSpec => []PromisesTypeOK
<1>1. PromisesInv => PromisesTypeOK
  BY DEF PromisesInv, OthersOK, Sound, PromisesTypeOK
<1> QED
  BY <1>1, PromisesInvAlways, PTL

(* However many promises the two make, through holds, ghosts, fades and     *)
(* reunions each that is open will be judged, unless the person was         *)
(* unmatched or it was ended; and a broken one is told from its record.     *)
THEOREM PromisesStandHolds == PromisesSpec => []PromisesStand
<1>1. PromisesInv => PromisesStand
  BY DEF PromisesInv, OthersOK, Sound, PromisesStand
<1> QED
  BY <1>1, PromisesInvAlways, PTL

----------------------------------------------------------------------------

(* The plans with one person: their events are a timed plan's; each step    *)
(* leaves the plan, ends it, makes one where none is in its way, or takes a *)
(* timed one further; and the player is idle with the phone down only where *)
(* somebody has looked round for who waits there.                           *)

(* The events of a plan are a timed plan's. *)
EventsTold == queue \cap PlanEvents # {} => Timed(plan)

(* Where the player is while the clock runs. *)
DoingTold ==
    /\ doing = "texting" => in_hand
    /\ doing = "talking" => scene # "none"

PlansInv == PlansTypeOK /\ EventsTold /\ DoingTold /\ PlansStand

----------------------------------------------------------------------------
(* A row that stands, and its fields. *)
OpenRows ==
    [status : {"open"}, place : Venues, when : Whens, arrived : BOOLEAN,
     late : BOOLEAN, over : BOOLEAN, after : BOOLEAN]

LEMMA RowIs ==
    ASSUME PlansTypeOK
    PROVE  /\ Stands(plan) => plan \in OpenRows
           /\ ~Stands(plan) => \E s \in {"none", "closed", "stood_up"} : plan = [status |-> s]
BY DEF PlansTypeOK, PlanRows, Stands, OpenRows

(* What a step makes of the plan and its events: nothing, ... *)
EventsStay(q) == queue' \cap PlanEvents = q \cap PlanEvents
PlanStays == plan' = plan /\ EventsStay(queue)

(* ... its end, ... *)
PlanOver == (\E s \in {"closed", "stood_up"} : plan' = [status |-> s]) /\ queue' \cap PlanEvents = {}

(* ... a new one, while none is in its way, ... *)
PlanMade ==
    \E at \in Venues, when \in Whens, with \in BOOLEAN, events \in SUBSET PlanEvents :
        /\ ~Blocked(when) /\ ~(at = "theirs" /\ household)
        /\ plan' = [status |-> "open", place |-> at, when |-> when, arrived |-> with,
                    late |-> FALSE, over |-> FALSE, after |-> standing \in Ended]
        /\ when = "soon" => events = {}
        /\ when = "timed" => "plan_lapse" \in events /\ (with \/ "plan_arrive" \in events)
        /\ EventsStay(queue \cup events)
        /\ UNCHANGED <<standing, household>>

(* ... or a timed one's course: they arrive, are past their patience, or    *)
(* will wait longer.                                                        *)
PlanGoesOn ==
    /\ Timed(plan) /\ plan' \in OpenRows
    /\ plan'.place = plan.place /\ plan'.when = plan.when /\ plan'.after = plan.after
    /\ plan.arrived => plan'.arrived
    /\ "plan_lapse" \in queue => "plan_lapse" \in queue'
    /\ "plan_arrive" \in queue => "plan_arrive" \in queue' \/ plan'.arrived
    /\ UNCHANGED <<standing, household>>

LEMMA MakesIs ==
    ASSUME PlansTypeOK, NEW q, q \cap PlanEvents = queue \cap PlanEvents, NEW at \in Venues, NEW when \in Whens,
           NEW with \in BOOLEAN, NEW by, Makes(q, at, when, with, by), UNCHANGED <<standing, household>>
    PROVE  PlanMade
<1>1. PICK events \in Scheduled(when, with, by) : queue' = q \cup events
  BY DEF Makes
<1>2. /\ events \subseteq PlanEvents
      /\ when = "soon" => events = {}
      /\ when = "timed" => "plan_lapse" \in events /\ (with \/ "plan_arrive" \in events)
  BY <1>1 DEF Scheduled, PlanEvents, Whens
<1>3. EventsStay(queue \cup events)
  BY <1>1 DEF EventsStay
<1> QED BY <1>2, <1>3 DEF Makes, PlanMade

LEMMA EndsIs ==
    ASSUME NEW s \in {"closed", "stood_up"}, PlanEnds(s)
    PROVE  PlanOver
BY DEF PlanEnds, PlanOver

LEMMA EpisodeIs == EpisodeEnds => PlanStays \/ PlanOver
BY EndsIs DEF EpisodeEnds, PlanStays, EventsStay

LEMMA MeetsIs ==
    ASSUME NEW here, MeetsHere(here)
    PROVE  /\ PlanStays \/ PlanOver
           /\ scene' = "none" => plan' = plan /\ ~Meetable(plan, here)
BY EndsIs DEF MeetsHere, PlanStays, EventsStay

(* A step is one of these. *)
LEMMA PlanBy ==
    ASSUME PlansInv, [PlansNext]_plansVars
    PROVE  PlanStays \/ PlanOver \/ PlanMade \/ PlanGoesOn
<1>0. PlansTypeOK /\ EventsTold
  BY DEF PlansInv
<1>a. ASSUME UNCHANGED plan, UNCHANGED queue PROVE PlanStays
  BY <1>a DEF PlanStays, EventsStay
<1>b. \A q : q \in Sent(queue) => q \cap PlanEvents = queue \cap PlanEvents
  BY DEF Sent, PlanEvents
<1>1. CASE PlanArrive
  <2>1. "plan_arrive" \in queue /\ plan' = [plan EXCEPT !.arrived = TRUE] /\ queue' = queue \ {"plan_arrive"}
        /\ UNCHANGED <<standing, household>>
    BY <1>1 DEF PlanArrive
  <2>2. Timed(plan) /\ plan \in OpenRows
    BY <1>0, <2>1, RowIs DEF EventsTold, PlanEvents, Timed
  <2> QED BY <2>1, <2>2 DEF PlanGoesOn, OpenRows
<1>2. CASE PatienceEnds
  <2>1. Timed(plan) /\ plan \in OpenRows
    BY <1>0, <1>2, RowIs DEF PatienceEnds, Timed
  <2> QED BY <1>2, <2>1 DEF PatienceEnds, PlanGoesOn, OpenRows
<1>3. CASE PlanGivenUp
  BY <1>3, EndsIs DEF PlanGivenUp
<1>4. CASE RequestLapses
  BY <1>4 DEF RequestLapses, PlanStays, EventsStay, PlanEvents
<1>5. CASE Reads
  <2> DEFINE rest == queue \ {"read"}
  <2>1. rest \cap PlanEvents = queue \cap PlanEvents
    BY DEF PlanEvents
  <2>2. asked_for.when \in Whens
    BY <1>0 DEF PlansTypeOK
  <2>3. \/ UNCHANGED plan /\ queue' = rest
        \/ \E at \in Venues : Makes(rest, at, asked_for.when, FALSE, "player")
    BY <1>5 DEF Reads
  <2>4. UNCHANGED <<standing, household>>
    BY <1>5 DEF Reads
  <2> HIDE DEF rest
  <2> QED BY <1>0, <2>1, <2>2, <2>3, <2>4, MakesIs DEF PlanStays, EventsStay
<1>6. CASE ChatEnds \/ SaysGoodnight \/ CallsItANight \/ StaysTheNight \/ Talked \/ AtHome
  <2>1. EpisodeEnds \/ (UNCHANGED plan /\ UNCHANGED queue)
    BY <1>6 DEF ChatEnds, SaysGoodnight, CallsItANight, StaysTheNight, Talked, AtHome, SceneEnds
  <2> QED BY <1>a, <2>1, EpisodeIs
<1>7. CASE Writes
  <2>1. CASE UNCHANGED plan /\ (UNCHANGED queue \/ queue' \in Sent(queue))
    BY <1>b, <2>1 DEF PlanStays, EventsStay
  <2>2. CASE Timed(plan) /\ plan' = [plan EXCEPT !.late = TRUE] /\ queue' \in Sent(queue \cup {"plan_lapse"})
    <3>1. plan \in OpenRows
      BY <1>0, <2>2, RowIs DEF Timed
    <3>2. queue \subseteq queue' /\ UNCHANGED <<standing, household>>
      BY <1>7, <2>2 DEF Sent, Writes, Texts
    <3> QED BY <2>2, <3>1, <3>2 DEF PlanGoesOn, OpenRows
  <2> QED BY <1>7, <2>1, <2>2 DEF Writes
<1>8. ASSUME NEW when \in Whens, AsksToMeet(when) PROVE PlanStays
  BY <1>b, <1>8 DEF AsksToMeet, PlanStays, EventsStay
<1>9. CASE Answers
  <2>1. asked_for.when \in Whens /\ UNCHANGED <<standing, household>>
    BY <1>0, <1>9 DEF PlansTypeOK, Answers, Texts
  <2>2. CASE UNCHANGED plan /\ queue' \in Sent(queue)
    BY <1>b, <2>2 DEF PlanStays, EventsStay
  <2>3. ASSUME NEW q \in Sent(queue \ {"request_lapse"}),
               (UNCHANGED plan /\ queue' = q) \/ Makes(q, "venue", asked_for.when, FALSE, "person")
        PROVE  PlanStays \/ PlanMade
    <3>1. q \cap PlanEvents = queue \cap PlanEvents
      BY DEF Sent, PlanEvents
    <3>2. "venue" \in Venues /\ FALSE \in BOOLEAN
      BY DEF Venues
    <3> QED BY <1>0, <2>1, <2>3, <3>1, <3>2, MakesIs DEF PlanStays, EventsStay
  <2> QED BY <1>9, <2>2, <2>3 DEF Answers
<1>10. CASE PutsDown \/ GetsThere \/ Spent \/ LooksRound
  <2>1. \/ \E here : MeetsHere(here)
        \/ UNCHANGED plan /\ UNCHANGED queue
        \/ PlanEnds("stood_up")
    BY <1>10 DEF PutsDown, GetsThere, Spent, LooksRound
  <2> QED BY <1>a, <2>1, MeetsIs, EndsIs
<1>11. CASE Approaches
  BY <1>a, <1>11, EndsIs DEF Approaches
<1>12. CASE AgainSoon
  <2>1. UNCHANGED <<standing, household>> /\ "soon" \in Whens
    BY <1>12 DEF AgainSoon, Whens
  <2> QED BY <1>0, <1>12, <2>1, MakesIs DEF AgainSoon
<1>13. ASSUME NEW to \in Places, GoesOn(to) PROVE PlanStays \/ PlanOver \/ PlanMade
  <2>1. UNCHANGED <<standing, household>> /\ "timed" \in Whens
    BY <1>13 DEF GoesOn, Whens
  <2>2. \/ UNCHANGED plan /\ UNCHANGED queue
        \/ to \in Venues /\ Makes(queue, to, "timed", TRUE, "player")
        \/ EpisodeEnds
    BY <1>13 DEF GoesOn
  <2> QED BY <1>0, <1>a, <2>1, <2>2, MakesIs, EpisodeIs
<1>14. CASE TheyUnmatch \/ TheyEnd
  <2>1. CASE Stands(plan)
    <3>1. plan' = [status |-> "closed"] /\ queue' \cap PlanEvents = {}
      BY <1>14, <2>1 DEF TheyUnmatch, TheyEnd
    <3> QED BY <3>1 DEF PlanOver
  <2>2. CASE ~Stands(plan)
    <3>1. queue \cap PlanEvents = {}
      BY <1>0, <2>2 DEF EventsTold, Timed
    <3>2. plan' = plan /\ queue' \subseteq queue
      BY <1>14, <2>2 DEF TheyUnmatch, TheyEnd
    <3> QED BY <3>1, <3>2 DEF PlanStays, EventsStay
  <2> QED BY <2>1, <2>2
<1>15. CASE MovesIn
  BY <1>a, <1>15, EndsIs DEF MovesIn
<1>16. ASSUME NEW when \in Whens, TheyAsk(when) PROVE PlanStays
  BY <1>16 DEF TheyAsk, PlanStays, EventsStay, PlanEvents
<1>17. CASE UNCHANGED plan /\ UNCHANGED queue
  BY <1>a, <1>17
<1> QED BY <1>1, <1>2, <1>3, <1>4, <1>5, <1>6, <1>7, <1>8, <1>9, <1>10, <1>11, <1>12, <1>13, <1>14, <1>15, <1>16, <1>17
        DEF PlansNext, PhoneVerbs, WorldVerbs, SceneVerbs, Texted, GoesByPhone, GoesOut, Spends, WithAnother, Talks,
            WalksThemHome, TheyFade, Reconnects, plansVars

(* What a step makes of the request. *)
LEMMA AskBy ==
    ASSUME PlansTypeOK, [PlansNext]_plansVars
    PROVE  \/ asked_for' = NoRequest
           \/ \E when \in Whens : asked_for' = [from |-> "player", when |-> when]
           \/ \E when \in Whens : /\ asked_for' = [from |-> "them", when |-> when]
                                  /\ when = "timed" => "request_lapse" \in queue'
           \/ /\ UNCHANGED asked_for /\ (standing = "gone" => standing' = "gone")
              /\ "request_lapse" \in queue => "request_lapse" \in queue' \/ standing' = "gone"
<1> DEFINE StillAsked(q) == "request_lapse" \in queue => "request_lapse" \in q
<1>a. /\ \A s : PlanEnds(s) => StillAsked(queue')
      /\ \A q : q \in Sent(queue) => StillAsked(q)
      /\ EpisodeEnds => StillAsked(queue')
  BY DEF PlanEnds, PlanEvents, Sent, EpisodeEnds
<1>b. \A here : MeetsHere(here) => StillAsked(queue')
  BY <1>a DEF MeetsHere
<1>c. \A at, when, with, by : Makes(queue, at, when, with, by) => StillAsked(queue')
  BY DEF Makes
<1>1. CASE RequestLapses
  BY <1>1 DEF RequestLapses
<1>2. CASE Reads
  <2>1. CASE asked_for' = NoRequest
    BY <2>1
  <2>2. CASE UNCHANGED asked_for /\ queue' = queue \ {"read"}
    BY <1>2, <2>2 DEF Reads
  <2> QED BY <1>2, <2>1, <2>2 DEF Reads
<1>3. ASSUME NEW when \in Whens, AsksToMeet(when)
      PROVE  \E w \in Whens : asked_for' = [from |-> "player", when |-> w]
  BY <1>3 DEF AsksToMeet
<1>4. CASE Answers
  <2>1. CASE asked_for' = NoRequest
    BY <2>1
  <2>2. CASE UNCHANGED asked_for /\ queue' \in Sent(queue)
    <3>1. StillAsked(queue') /\ UNCHANGED standing
      BY <1>a, <1>4, <2>2 DEF Answers, Texts
    <3> QED BY <2>2, <3>1
  <2> QED BY <1>4, <2>1, <2>2 DEF Answers
<1>5. ASSUME NEW when \in Whens, TheyAsk(when)
      PROVE  \E w \in Whens : /\ asked_for' = [from |-> "them", when |-> w]
                              /\ w = "timed" => "request_lapse" \in queue'
  BY <1>5 DEF TheyAsk
<1>6. CASE Writes
  <2>1. queue' = queue \/ queue' \in Sent(queue) \/ queue' \in Sent(queue \cup {"plan_lapse"})
    BY <1>6 DEF Writes
  <2>2. StillAsked(queue')
    BY <2>1 DEF Sent
  <2> QED BY <1>6, <2>2 DEF Writes, Texts
<1>7. CASE PlanArrive \/ PatienceEnds \/ PlanGivenUp \/ ChatEnds \/ MovesIn
  <2>1. StillAsked(queue')
    BY <1>a, <1>7 DEF PlanArrive, PatienceEnds, PlanGivenUp, ChatEnds, MovesIn
  <2> QED BY <1>7, <2>1 DEF PlanArrive, PatienceEnds, PlanGivenUp, ChatEnds, MovesIn
<1>8. CASE PutsDown \/ Spent \/ LooksRound \/ GetsThere \/ Approaches
  <2>1. StillAsked(queue')
    BY <1>a, <1>b, <1>8 DEF PutsDown, Spent, LooksRound, GetsThere, Approaches
  <2> QED BY <1>8, <2>1 DEF PutsDown, Spent, LooksRound, GetsThere, Approaches
<1>9. CASE AtHome \/ Talked \/ SaysGoodnight \/ CallsItANight \/ StaysTheNight
  <2>1. StillAsked(queue')
    BY <1>a, <1>9 DEF AtHome, Talked, SaysGoodnight, CallsItANight, StaysTheNight, SceneEnds
  <2> QED BY <1>9, <2>1 DEF AtHome, Talked, SaysGoodnight, CallsItANight, StaysTheNight
<1>10. CASE AgainSoon \/ \E to \in Places : GoesOn(to)
  <2>1. StillAsked(queue')
    BY <1>a, <1>c, <1>10 DEF AgainSoon, GoesOn
  <2> QED BY <1>10, <2>1 DEF AgainSoon, GoesOn
<1>11. CASE TheyUnmatch \/ TheyEnd
  BY <1>11 DEF TheyUnmatch, TheyEnd, PlanEvents
<1>12. CASE UNCHANGED <<asked_for, queue>> /\ (UNCHANGED standing \/ standing # "gone")
  BY <1>12
<1> QED BY <1>1, <1>2, <1>3, <1>4, <1>5, <1>6, <1>7, <1>8, <1>9, <1>10, <1>11, <1>12
        DEF PlansNext, PhoneVerbs, WorldVerbs, SceneVerbs, Texted, GoesByPhone, GoesOut, Spends, WithAnother, Talks,
            WalksThemHome, TheyFade, Reconnects, plansVars

(* The events queued are those of a plan, or were queued, or are the two    *)
(* others.                                                                  *)
LEMMA QueueBy ==
    ASSUME PlansTypeOK, [PlansNext]_plansVars
    PROVE  queue' \subseteq PlanEvents \cup {"read", "request_lapse"}
<1> DEFINE Known(q) == q \subseteq PlanEvents \cup {"read", "request_lapse"}
<1>0. Known(queue) /\ asked_for.when \in Whens
  BY DEF PlansTypeOK
<1>a. /\ \A s : PlanEnds(s) => Known(queue')
      /\ \A q : Known(q) => \A r \in Sent(q) : Known(r)
      /\ EpisodeEnds => Known(queue')
  BY <1>0 DEF PlanEnds, PlanEvents, Sent, EpisodeEnds
<1>b. \A here : MeetsHere(here) => Known(queue')
  BY <1>0, <1>a DEF MeetsHere
<1>c. ASSUME NEW q, Known(q), NEW at, NEW when \in Whens, NEW with, NEW by, Makes(q, at, when, with, by)
      PROVE  Known(queue')
  <2>1. PICK events \in Scheduled(when, with, by) : queue' = q \cup events
    BY <1>c DEF Makes
  <2>2. events \subseteq PlanEvents
    BY <2>1 DEF Scheduled, PlanEvents
  <2> QED BY <1>c, <2>1, <2>2
<1>1. CASE RequestLapses \/ PlanArrive
  BY <1>0, <1>1 DEF RequestLapses, PlanArrive
<1>2. CASE Reads
  <2>1. Known(queue \ {"read"})
    BY <1>0
  <2>2. \/ queue' = queue \ {"read"}
        \/ \E at \in Venues : Makes(queue \ {"read"}, at, asked_for.when, FALSE, "player")
    BY <1>2 DEF Reads
  <2>3. Known(queue')
    <3> HIDE DEF Known
    <3> QED BY <1>0, <1>c, <2>1, <2>2
  <2> QED BY <2>3
<1>3. CASE \E when \in Whens : AsksToMeet(when)
  BY <1>0, <1>a, <1>3 DEF AsksToMeet
<1>4. CASE Answers
  <2>1. Known(queue \ {"request_lapse"})
    BY <1>0
  <2>2. \/ queue' \in Sent(queue)
        \/ \E q \in Sent(queue \ {"request_lapse"}) :
              queue' = q \/ Makes(q, "venue", asked_for.when, FALSE, "person")
    BY <1>4 DEF Answers
  <2>3. \A q \in Sent(queue \ {"request_lapse"}) : Known(q)
    BY <1>a, <2>1
  <2>4. Known(queue')
    <3> HIDE DEF Known
    <3> QED BY <1>0, <1>a, <1>c, <2>2, <2>3
  <2> QED BY <2>4
<1>5. CASE \E when \in Whens : TheyAsk(when)
  BY <1>0, <1>5 DEF TheyAsk
<1>6. CASE Writes
  <2>1. queue' = queue \/ queue' \in Sent(queue) \/ queue' \in Sent(queue \cup {"plan_lapse"})
    BY <1>6 DEF Writes
  <2>2. Known(queue \cup {"plan_lapse"})
    BY <1>0 DEF PlanEvents
  <2> QED BY <1>0, <1>a, <2>1, <2>2
<1>7. CASE PatienceEnds \/ PlanGivenUp \/ ChatEnds \/ MovesIn
  BY <1>0, <1>a, <1>7 DEF PatienceEnds, PlanGivenUp, ChatEnds, MovesIn
<1>8. CASE PutsDown \/ Spent \/ LooksRound \/ GetsThere \/ Approaches
  BY <1>0, <1>a, <1>b, <1>8 DEF PutsDown, Spent, LooksRound, GetsThere, Approaches
<1>9. CASE AtHome \/ Talked \/ SaysGoodnight \/ CallsItANight \/ StaysTheNight
  BY <1>0, <1>a, <1>9 DEF AtHome, Talked, SaysGoodnight, CallsItANight, StaysTheNight, SceneEnds
<1>10. CASE AgainSoon \/ \E to \in Places : GoesOn(to)
  <2>1. \/ queue' = queue \/ EpisodeEnds
        \/ \E at, with, by : \E when \in Whens : Makes(queue, at, when, with, by)
    BY <1>10 DEF AgainSoon, GoesOn, Whens
  <2>2. Known(queue')
    <3> HIDE DEF Known
    <3> QED BY <1>0, <1>a, <1>c, <2>1
  <2> QED BY <2>2
<1>11. CASE TheyUnmatch \/ TheyEnd
  BY <1>0, <1>11 DEF TheyUnmatch, TheyEnd
<1>12. CASE UNCHANGED queue
  BY <1>0, <1>12
<1> QED BY <1>1, <1>2, <1>3, <1>4, <1>5, <1>6, <1>7, <1>8, <1>9, <1>10, <1>11, <1>12
        DEF PlansNext, PhoneVerbs, WorldVerbs, SceneVerbs, Texted, GoesByPhone, GoesOut, Spends, WithAnother, Talks,
            WalksThemHome, TheyFade, Reconnects, plansVars

(* Who leaves, and who moves in, closes the plan that would stand against   *)
(* it.                                                                      *)
LEMMA StandingBy ==
    ASSUME PlansTypeOK, [PlansNext]_plansVars
    PROVE  /\ standing' \in {"live", "over"} \cup Ended /\ household' \in BOOLEAN
           /\ standing' \in Ended => standing \in Ended \/ ~Stands(plan')
           /\ household' => household \/ ~(Stands(plan') /\ plan'.place = "theirs")
<1>0. standing \in {"live", "over"} \cup Ended /\ household \in BOOLEAN
  BY DEF PlansTypeOK
<1>1. CASE TheyUnmatch \/ TheyEnd
  <2>1. ~Stands(plan')
    BY <1>1 DEF TheyUnmatch, TheyEnd, Stands
  <2> QED BY <1>1, <2>1 DEF TheyUnmatch, TheyEnd, Ended
<1>2. CASE TheyFade \/ Reconnects
  <2>1. standing' \in {"live", "over"} /\ (household' = FALSE \/ household' = household)
    BY <1>2 DEF TheyFade, Reconnects
  <2>2. standing' \notin Ended
    BY <2>1 DEF Ended
  <2>3. household' \in BOOLEAN /\ (household' => household)
    <3>1. CASE household' = FALSE
      BY <3>1
    <3>2. CASE household' = household
      BY <1>0, <3>2
    <3> QED BY <2>1, <3>1, <3>2
  <2> QED BY <2>1, <2>2, <2>3
<1>3. CASE MovesIn
  <2>1. CASE Stands(plan) /\ plan.place = "theirs"
    <3>1. plan' = [status |-> "closed"]
      BY <1>3, <2>1 DEF MovesIn, PlanEnds
    <3> QED BY <1>0, <1>3, <3>1 DEF MovesIn, Stands
  <2>2. CASE ~(Stands(plan) /\ plan.place = "theirs")
    BY <1>0, <1>3, <2>2 DEF MovesIn, Stands
  <2> QED BY <2>1, <2>2
<1>4. CASE UNCHANGED <<standing, household>>
  BY <1>0, <1>4
<1>5. CASE PlanArrive \/ PatienceEnds \/ PlanGivenUp \/ RequestLapses \/ Reads \/ ChatEnds \/ Texted
           \/ \E when \in Whens : TheyAsk(when)
  BY <1>4, <1>5 DEF PlanArrive, PatienceEnds, PlanGivenUp, RequestLapses, Reads, ChatEnds, Texted, TheyAsk
<1>6. CASE PhoneVerbs
  BY <1>4, <1>6 DEF PhoneVerbs, Writes, Answers, PutsDown, AsksToMeet, GoesByPhone, Texts
<1>7. CASE WorldVerbs
  BY <1>4, <1>7 DEF WorldVerbs, GoesOut, GetsThere, Spends, Spent, Approaches, AtHome, WithAnother
<1>8. CASE SceneVerbs
  BY <1>4, <1>8 DEF SceneVerbs, Talks, Talked, LooksRound, SaysGoodnight, AgainSoon, CallsItANight,
                    WalksThemHome, StaysTheNight, GoesOn
<1> QED BY <1>1, <1>2, <1>3, <1>4, <1>5, <1>6, <1>7, <1>8 DEF PlansNext, plansVars

(* Where the player is, and what the clock runs for. *)
WhereOK ==
    /\ scene \in {"none", "them", "in", "other"} /\ place \in Places /\ in_hand \in BOOLEAN
    /\ doing \in Idle \cup Ways \cup {"texting", "spending", "talking", "ending", "walking"}

LEMMA DoingBy ==
    ASSUME PlansTypeOK, DoingTold, [PlansNext]_plansVars
    PROVE  WhereOK' /\ DoingTold'
<1>0. WhereOK /\ DoingTold
  BY DEF PlansTypeOK, WhereOK
<1>a. \A here : MeetsHere(here) => scene' \in {"none", "them", "other"}
  BY DEF MeetsHere
<1>b. /\ Venues \subseteq Places /\ "else" \in Places /\ "flat" \in Places
      /\ Places \subseteq Ways /\ AppWays \subseteq Ways
      /\ \A way \in Ways : EndOf[way] \in Places
  BY DEF Venues, Places, Ways, AppWays, EndOf
<1>c. \A way \in Ways : way \notin {"texting", "talking"}
  BY DEF Places, Ways, AppWays
<1>1. CASE UNCHANGED <<scene, place, in_hand, doing>>
  BY <1>0, <1>1 DEF WhereOK, DoingTold
<1>2. CASE PlanArrive \/ PatienceEnds \/ PlanGivenUp \/ RequestLapses \/ Reads \/ ChatEnds
           \/ (\E when \in Whens : TheyAsk(when))
           \/ TheyUnmatch \/ TheyEnd \/ TheyFade \/ Reconnects \/ MovesIn
  BY <1>1, <1>2 DEF PlanArrive, PatienceEnds, PlanGivenUp, RequestLapses, Reads, ChatEnds, TheyAsk,
                    TheyUnmatch, TheyEnd, TheyFade, Reconnects, MovesIn
<1>3. CASE Writes \/ Answers \/ (\E when \in Whens : AsksToMeet(when))
  <2>1. Texts
    BY <1>3 DEF Writes, Answers, AsksToMeet
  <2> QED BY <1>0, <2>1 DEF Texts, WhereOK, DoingTold
<1>4. CASE PutsDown
  <2>1. scene' \in {"none", "them", "in", "other"} /\ UNCHANGED place /\ in_hand' = FALSE /\ doing' = "idle"
    BY <1>0, <1>a, <1>4 DEF PutsDown, WhereOK
  <2> QED BY <1>0, <2>1 DEF WhereOK, DoingTold, Idle
<1>5. ASSUME NEW way \in AppWays, GoesByPhone(way) PROVE WhereOK' /\ DoingTold'
  BY <1>0, <1>b, <1>c, <1>5 DEF GoesByPhone, WhereOK, DoingTold
<1>6. ASSUME NEW to \in Places, GoesOut(to) PROVE WhereOK' /\ DoingTold'
  BY <1>0, <1>b, <1>c, <1>6 DEF GoesOut, WhereOK, DoingTold
<1>7. CASE GetsThere
  <2>1. scene' \in {"none", "them", "other"} /\ place' \in Places /\ UNCHANGED in_hand /\ doing' \in Idle
    BY <1>a, <1>b, <1>7 DEF GetsThere, Idle
  <2> QED BY <1>0, <2>1 DEF WhereOK, DoingTold, Idle
<1>8. CASE Spends
  <2>1. UNCHANGED <<scene, in_hand>> /\ place' \in Places /\ doing' = "spending"
    BY <1>0, <1>b, <1>8 DEF Spends, WhereOK
  <2> QED BY <1>0, <2>1 DEF WhereOK, DoingTold
<1>9. CASE Spent
  <2>1. scene' \in {"none", "them", "other"} /\ place' \in Places /\ UNCHANGED in_hand /\ doing' = "idle"
    BY <1>0, <1>a, <1>b, <1>9 DEF Spent, WhereOK
  <2> QED BY <1>0, <2>1 DEF WhereOK, DoingTold, Idle
<1>10. CASE Approaches \/ AtHome \/ WithAnother
  <2>1. scene' \in {"them", "in", "other"} /\ UNCHANGED <<place, in_hand>> /\ doing' = "idle"
    BY <1>10 DEF Approaches, AtHome, WithAnother
  <2> QED BY <1>0, <2>1 DEF WhereOK, DoingTold, Idle
<1>11. CASE Talks
  BY <1>0, <1>11 DEF Talks, Together, WhereOK, DoingTold
<1>12. CASE Talked
  <2>1. scene' \in {scene, "none"} /\ UNCHANGED <<place, in_hand>> /\ doing' \in {"idle", "ending", "flat"}
    BY <1>12 DEF Talked
  <2> QED BY <1>0, <1>b, <2>1 DEF WhereOK, DoingTold, Idle
<1>13. CASE LooksRound
  <2>1. scene' \in {"none", "them", "other"} /\ UNCHANGED <<place, in_hand>> /\ doing' = "idle"
    BY <1>a, <1>13 DEF LooksRound
  <2> QED BY <1>0, <2>1 DEF WhereOK, DoingTold, Idle
<1>14. CASE SaysGoodnight \/ AgainSoon \/ CallsItANight
  <2>1. scene' = "none" /\ UNCHANGED <<place, in_hand>> /\ doing' \in {"ending", "flat"}
    BY <1>14 DEF SaysGoodnight, AgainSoon, CallsItANight
  <2> QED BY <1>0, <1>b, <2>1 DEF WhereOK, DoingTold
<1>15. CASE WalksThemHome
  BY <1>0, <1>15 DEF WalksThemHome, WhereOK, DoingTold
<1>16. CASE StaysTheNight
  <2>1. scene' \in {scene, "in"} /\ scene # "none" /\ UNCHANGED <<place, in_hand>> /\ doing' = "talking"
    BY <1>16 DEF StaysTheNight, Together
  <2> QED BY <1>0, <2>1 DEF WhereOK, DoingTold
<1>17. ASSUME NEW to \in Places, GoesOn(to) PROVE WhereOK' /\ DoingTold'
  <2>1. scene' = "none" /\ UNCHANGED <<place, in_hand>> /\ doing' \in {to, "ending"}
    BY <1>17 DEF GoesOn
  <2> QED BY <1>0, <1>b, <1>c, <1>17, <2>1 DEF WhereOK, DoingTold
<1>18. CASE Texted
  BY <1>0, <1>18 DEF Texted, WhereOK, DoingTold, Idle
<1> QED BY <1>1, <1>2, <1>3, <1>4, <1>5, <1>6, <1>7, <1>8, <1>9, <1>10, <1>11, <1>12, <1>13, <1>14, <1>15, <1>16,
          <1>17, <1>18
        DEF PlansNext, PhoneVerbs, WorldVerbs, SceneVerbs, plansVars

(* The player is idle again, the phone down and nobody with them, only      *)
(* where nobody could be met.                                               *)
LEMMA MetBy ==
    ASSUME PlansTypeOK, DoingTold, [PlansNext]_plansVars
    PROVE  \/ doing' # "idle" \/ in_hand' \/ scene' # "none"
           \/ ~Meetable(plan', place')
           \/ UNCHANGED <<plan, scene, place, in_hand, doing>>
<1>0. DoingTold /\ in_hand \in BOOLEAN
  BY DEF PlansTypeOK
<1>a. ASSUME NEW s, s # "open", plan' = [status |-> s] PROVE ~Meetable(plan', place')
  BY <1>a DEF Meetable, Timed, Stands
<1>b. \A s \in {"closed", "stood_up"} : PlanEnds(s) => ~Meetable(plan', place')
  BY <1>a DEF PlanEnds
<1>c. EpisodeEnds => UNCHANGED plan \/ ~Meetable(plan', place')
  BY <1>b DEF EpisodeEnds
<1>d. ASSUME MeetsHere(place') PROVE scene' # "none" \/ ~Meetable(plan', place')
  BY <1>d DEF MeetsHere
<1>1. CASE PlanArrive \/ PatienceEnds \/ Reads
  BY <1>1 DEF PlanArrive, PatienceEnds, Reads, ClockRuns, Idle
<1>2. CASE PlanGivenUp \/ RequestLapses \/ ChatEnds \/ MovesIn \/ (\E when \in Whens : TheyAsk(when))
           \/ TheyFade \/ Reconnects
  BY <1>b, <1>c, <1>2 DEF PlanGivenUp, RequestLapses, ChatEnds, MovesIn, TheyAsk, TheyFade, Reconnects
<1>3. CASE TheyUnmatch \/ TheyEnd
  <2>1. plan' = [status |-> "closed"] \/ plan' = plan
    BY <1>3 DEF TheyUnmatch, TheyEnd
  <2> QED BY <1>a, <1>3, <2>1 DEF TheyUnmatch, TheyEnd
<1>4. CASE Writes \/ Answers \/ (\E when \in Whens : AsksToMeet(when))
  BY <1>4 DEF Writes, Answers, AsksToMeet, Texts
<1>5. CASE PutsDown
  <2>1. CASE scene = "none"
    <3>1. MeetsHere(place')
      BY <1>5, <2>1 DEF PutsDown
    <3> QED BY <1>d, <3>1
  <2>2. CASE scene # "none"
    BY <1>5, <2>2 DEF PutsDown
  <2> QED BY <2>1, <2>2
<1>6. CASE (\E way \in AppWays : GoesByPhone(way)) \/ (\E to \in Places : GoesOut(to))
  BY <1>6 DEF GoesByPhone, GoesOut, AppWays, Places
<1>7. CASE GetsThere
  BY <1>b, <1>d, <1>7 DEF GetsThere
<1>8. CASE Spent \/ LooksRound
  <2>1. MeetsHere(place')
    BY <1>8 DEF Spent, LooksRound
  <2> QED BY <1>d, <2>1
<1>9. CASE Approaches \/ AtHome \/ WithAnother
  BY <1>9 DEF Approaches, AtHome, WithAnother
<1>10. CASE Spends \/ Talks \/ SaysGoodnight \/ AgainSoon \/ CallsItANight \/ WalksThemHome \/ StaysTheNight
  BY <1>10 DEF Spends, Talks, SaysGoodnight, AgainSoon, CallsItANight, WalksThemHome, StaysTheNight
<1>11. CASE Talked
  <2>1. doing' # "idle" \/ scene' = scene
    BY <1>11 DEF Talked
  <2> QED BY <1>0, <1>11, <2>1 DEF Talked, DoingTold
<1>12. CASE \E to \in Places : GoesOn(to)
  BY <1>12 DEF GoesOn, Places
<1>13. CASE Texted
  BY <1>0, <1>13 DEF Texted, DoingTold
<1>14. CASE UNCHANGED plansVars
  BY <1>14 DEF plansVars
<1> QED BY <1>1, <1>2, <1>3, <1>4, <1>5, <1>6, <1>7, <1>8, <1>9, <1>10, <1>11, <1>12, <1>13, <1>14
        DEF PlansNext, PhoneVerbs, WorldVerbs, SceneVerbs

----------------------------------------------------------------------------
(* What a step makes of the plan keeps what is said of it. *)
LEMMA PlanTold ==
    ASSUME PlansInv, [PlansNext]_plansVars
    PROVE  plan' \in PlanRows /\ EventsTold' /\ PlanComesToAnEnd'
<1>0. plan \in PlanRows /\ EventsTold /\ PlanComesToAnEnd
  BY DEF PlansInv, PlansTypeOK, PlansStand
<1>a. "plan_lapse" \in PlanEvents /\ "plan_arrive" \in PlanEvents /\ OpenRows \subseteq PlanRows
  BY DEF PlanEvents, PlanRows, OpenRows
<1>1. CASE PlanStays
  BY <1>0, <1>a, <1>1 DEF PlanStays, EventsStay, EventsTold, PlanComesToAnEnd, Timed, Stands
<1>2. CASE PlanOver
  <2>1. PICK s \in {"closed", "stood_up"} : plan' = [status |-> s]
    BY <1>2 DEF PlanOver
  <2>2. plan' \in PlanRows
    BY <2>1 DEF PlanRows
  <2>3. ~Timed(plan')
    BY <2>1 DEF Timed, Stands
  <2> QED BY <1>2, <2>2, <2>3 DEF PlanOver, EventsTold, PlanComesToAnEnd, Timed, Stands
<1>3. CASE PlanMade
  <2>1. PICK at \in Venues, when \in Whens, with \in BOOLEAN, events \in SUBSET PlanEvents :
            /\ ~Blocked(when)
            /\ plan' = [status |-> "open", place |-> at, when |-> when, arrived |-> with,
                        late |-> FALSE, over |-> FALSE, after |-> standing \in Ended]
            /\ when = "soon" => events = {}
            /\ when = "timed" => "plan_lapse" \in events /\ (with \/ "plan_arrive" \in events)
            /\ EventsStay(queue \cup events)
    BY <1>3 DEF PlanMade
  <2>2. plan' \in OpenRows /\ plan'.status = "open" /\ plan'.when = when /\ plan'.arrived = with
    BY <2>1 DEF OpenRows
  <2>3. queue \cap PlanEvents = {}
    BY <1>0, <2>1 DEF Blocked, EventsTold
  <2>4. queue' \cap PlanEvents = events
    BY <2>1, <2>3 DEF EventsStay
  <2>5. CASE when = "soon"
    <3>1. ~Timed(plan') /\ queue' \cap PlanEvents = {}
      BY <2>1, <2>2, <2>4, <2>5 DEF Timed
    <3> QED BY <1>a, <2>2, <3>1 DEF EventsTold, PlanComesToAnEnd, Timed, Stands
  <2>6. CASE when = "timed"
    <3>1. Timed(plan') /\ "plan_lapse" \in queue' /\ (plan'.arrived \/ "plan_arrive" \in queue')
      BY <1>a, <2>1, <2>2, <2>4, <2>6 DEF Timed, Stands
    <3> QED BY <1>a, <2>2, <3>1 DEF EventsTold, PlanComesToAnEnd, Timed, Stands
  <2> QED BY <2>5, <2>6 DEF Whens
<1>4. CASE PlanGoesOn
  <2>1. Timed(plan') /\ plan' \in PlanRows
    BY <1>a, <1>4 DEF PlanGoesOn, OpenRows, Timed, Stands
  <2> QED BY <1>0, <1>4, <2>1 DEF PlanGoesOn, EventsTold, PlanComesToAnEnd, Timed, Stands
<1> QED BY <1>1, <1>2, <1>3, <1>4, PlanBy

(* ... and of who left, and who moved in. *)
LEMMA PlanOfThoseLeft ==
    ASSUME PlansInv, [PlansNext]_plansVars
    PROVE  CalledOff' /\ (Stands(plan') /\ plan'.place = "theirs" => ~household')
<1>0. /\ PlansTypeOK /\ CalledOff /\ (Stands(plan) /\ plan.place = "theirs" => ~household)
      /\ plan \in PlanRows
  BY DEF PlansInv, PlansTypeOK, PlansStand
<1>a. /\ standing' \in Ended => standing \in Ended \/ ~Stands(plan')
      /\ household' => household \/ ~(Stands(plan') /\ plan'.place = "theirs")
  BY <1>0, StandingBy
<1> SUFFICES ASSUME Stands(plan')
             PROVE  (standing' \in Ended => plan'.after) /\ (plan'.place = "theirs" => ~household')
  BY DEF CalledOff, Stands
<1>1. CASE PlanStays
  BY <1>0, <1>a, <1>1 DEF PlanStays, CalledOff
<1>2. CASE PlanOver
  BY <1>2 DEF PlanOver, Stands
<1>3. CASE PlanMade
  <2>1. PICK at \in Venues, when \in Whens, with \in BOOLEAN :
            /\ ~(at = "theirs" /\ household)
            /\ plan' = [status |-> "open", place |-> at, when |-> when, arrived |-> with,
                        late |-> FALSE, over |-> FALSE, after |-> standing \in Ended]
            /\ UNCHANGED <<standing, household>>
    BY <1>3 DEF PlanMade
  <2>2. plan'.place = at /\ plan'.after = (standing \in Ended)
    BY <2>1
  <2> QED BY <2>1, <2>2
<1>4. CASE PlanGoesOn
  BY <1>0, <1>4 DEF PlanGoesOn, CalledOff, Timed
<1> QED BY <1>1, <1>2, <1>3, <1>4, PlanBy

LEMMA PlansStep ==
    ASSUME PlansInv, [PlansNext]_plansVars
    PROVE  PlansInv'
<1>0. PlansTypeOK /\ DoingTold /\ AskComesToAnEnd /\ MetHere
  BY DEF PlansInv, PlansStand
<1>1. plan' \in PlanRows /\ EventsTold' /\ PlanComesToAnEnd'
  BY PlanTold
<1>2. CalledOff' /\ (Stands(plan') /\ plan'.place = "theirs" => ~household')
  BY PlanOfThoseLeft
<1>3. WhereOK' /\ DoingTold'
  BY <1>0, DoingBy
<1>4. /\ asked_for' \in [from : {"nobody", "player", "them"}, when : Whens]
      /\ AskComesToAnEnd'
  <2>0. asked_for \in [from : {"nobody", "player", "them"}, when : Whens]
    BY <1>0 DEF PlansTypeOK
  <2>1. CASE asked_for' = NoRequest
    BY <2>1 DEF NoRequest, Whens, AskComesToAnEnd
  <2>2. ASSUME NEW when \in Whens, asked_for' = [from |-> "player", when |-> when]
        PROVE  <1>4!:
    BY <2>2 DEF AskComesToAnEnd
  <2>3. ASSUME NEW when \in Whens, asked_for' = [from |-> "them", when |-> when],
               when = "timed" => "request_lapse" \in queue'
        PROVE  <1>4!:
    BY <2>3 DEF AskComesToAnEnd
  <2>4. CASE /\ UNCHANGED asked_for /\ (standing = "gone" => standing' = "gone")
             /\ "request_lapse" \in queue => "request_lapse" \in queue' \/ standing' = "gone"
    BY <1>0, <2>0, <2>4 DEF AskComesToAnEnd
  <2> QED BY <1>0, <2>1, <2>2, <2>3, <2>4, AskBy
<1>5. queue' \subseteq PlanEvents \cup {"read", "request_lapse"}
  BY <1>0, QueueBy
<1>6. standing' \in {"live", "over"} \cup Ended /\ household' \in BOOLEAN
  BY <1>0, StandingBy
<1>7. PlansTypeOK'
  BY <1>1, <1>3, <1>4, <1>5, <1>6 DEF PlansTypeOK, WhereOK
<1>8. MetHere'
  BY <1>0, MetBy DEF MetHere
<1> QED BY <1>1, <1>2, <1>3, <1>4, <1>7, <1>8 DEF PlansInv, PlansStand, Stands

LEMMA PlansStart == PlansInit => PlansInv
<1> SUFFICES ASSUME PlansInit PROVE PlansInv
  OBVIOUS
<1>1. plan = [status |-> "none"] /\ queue = {} /\ asked_for = [from |-> "nobody", when |-> "soon"]
      /\ standing = "live" /\ household = FALSE /\ scene = "none" /\ place = "flat" /\ in_hand = TRUE
      /\ doing = "idle"
  BY DEF PlansInit, NoPlan, NoRequest
<1>2. ~Stands(plan) /\ ~Timed(plan)
  BY <1>1 DEF Stands, Timed
<1>3. plan \in PlanRows
  BY <1>1 DEF PlanRows
<1>4. PlansTypeOK
  BY <1>1, <1>3 DEF PlansTypeOK, Whens, Places, Idle
<1>5. EventsTold /\ DoingTold
  BY <1>1 DEF EventsTold, DoingTold
<1>6. PlansStand
  BY <1>1, <1>2 DEF PlansStand, PlanComesToAnEnd, AskComesToAnEnd, CalledOff, MetHere
<1> QED BY <1>4, <1>5, <1>6 DEF PlansInv

(* The invariant of the plans, at every step of a verb. *)
THEOREM PlansInvHolds == PlansSpec => []PlansInv
BY PlansStart, PlansStep, PTL DEF PlansSpec

(* The plans are well formed: their rows, requests and queued events, where *)
(* the player is and what the clock runs for.                               *)
THEOREM PlansTypes == PlansSpec => []PlansTypeOK
BY PlansInvHolds, PTL DEF PlansInv

(* A timed plan and an ask for tonight will come to an end; who left keeps  *)
(* no plan made before; nobody waits unmet where the player is with the     *)
(* phone down; and no plan stands at the old home of who moved in.          *)
THEOREM PlansStandHolds == PlansSpec => []PlansStand
BY PlansInvHolds, PTL DEF PlansInv
=============================================================================
