--------------------------------- MODULE Saves ---------------------------------
(***************************************************************************)
(* One save folder, engine/persistence/saves.py (SaveStore): each run's      *)
(* save.json (with the .bak of the one before) and memory.json, and the      *)
(* index the load menu is read from, written by several threads under the    *)
(* folder's index lock, with a crash at any moment.  Every file is replaced  *)
(* whole (atomic.py); the three of one save are not.                         *)
(*                                                                          *)
(* The content of a file, and the `updated_at' of a row, is the TIME of the  *)
(* save it belongs to, 0 for none.  One thread at a time works on one save   *)
(* id (the run's turn lock, store.py).                                      *)
(* A definition commented `Slip:' is no part of the model: it is a likely    *)
(* mistake in the one after it, kept to show which property would notice.    *)
(***************************************************************************)
EXTENDS Naturals, FiniteSets

CONSTANTS
    Ids,        \* save ids
    Threads,    \* request threads
    Nobody,     \* no thread: the index lock is free
    Room,       \* hosting.max_saves_per_story
    Limit,      \* saves.index_max_entries
    MaxTime     \* bound: saves begun

ASSUME SavesConstants ==
    /\ Nobody \notin Threads
    /\ Room \in Nat \ {0} /\ Limit \in Nat \ {0} /\ MaxTime \in Nat

VARIABLES
    disk,      \* each id's folder
    rows,      \* index.json
    holder,    \* who has the index lock
    work,      \* what each thread is doing
    time,      \* saves begun so far
    unlisted,  \* ids whose row a crash, or the index's bound, may have cost
    torn       \* ids whose delete a crash cut short

savesVars == <<disk, rows, holder, work, time, unlisted, torn>>

Times == 0..MaxTime
ThreadIdle == [pc |-> "idle"]
NoFolder == [save |-> 0, bak |-> 0, memory |-> 0]
NoRow == [at |-> 0, auto |-> TRUE]

(* A run's first save, its autosaves, and the player's own (api/saves.py):   *)
(* only an autosave carries the ledger, and only the others are limited.     *)
SaveKinds == {"create", "autosave", "manual"}
Capped(kind) == kind # "autosave"

Busy(i) == \E t \in Threads : work[t].pc # "idle" /\ work[t].id = i

Listed(index) == {i \in Ids : index[i].at # 0}

GoesTo(t, pc) == work' = [work EXCEPT ![t].pc = pc]

----------------------------------------------------------------------------
SavesInit ==
    /\ disk = [i \in Ids |-> NoFolder]
    /\ rows = [i \in Ids |-> NoRow]
    /\ holder = Nobody
    /\ work = [t \in Threads |-> ThreadIdle]
    /\ time = 0
    /\ unlisted = {} /\ torn = {}

(* What reading save.json gives: the .bak stands in for one that is gone.    *)
Readable(folder) == IF folder.save # 0 THEN folder.save ELSE folder.bak

(* _write_index: at most Limit rows, a manual save's always among them, then *)
(* the newest autosaves.                                                     *)
Bounded(index) ==
    LET autos  == {i \in Listed(index) : index[i].auto}
        manual == Listed(index) \ autos
        newer(i) == {j \in autos : index[j].at > index[i].at}
    IN  [i \in Ids |-> IF i \in autos /\ Cardinality(newer(i)) + Cardinality(manual) >= Limit
                       THEN NoRow ELSE index[i]]

(* The index is written and its lock dropped; the rows the bound drops.      *)
PutIndex(index) ==
    /\ rows' = Bounded(index)
    /\ holder' = Nobody
    /\ unlisted' = unlisted \cup (Listed(index) \ Listed(Bounded(index)))

----------------------------------------------------------------------------
(* save: an autosave writes its files first, then its row; a save that may   *)
(* add a row counts, writes its files and its row under the lock.            *)
SaveBegins(t, i, kind) ==
    /\ work[t] = ThreadIdle /\ ~Busy(i) /\ time < MaxTime
    /\ kind = "create" => disk[i] = NoFolder /\ i \notin torn
    /\ kind = "autosave" => Readable(disk[i]) # 0
    /\ time' = time + 1
    /\ work' = [work EXCEPT ![t] =
                   [pc |-> IF Capped(kind) THEN "lock" ELSE "files", do |-> "save",
                    id |-> i, kind |-> kind, at |-> time + 1, seen |-> rows]]
    /\ UNCHANGED <<disk, rows, holder, unlisted, torn>>

(* Slip: the index read before the lock was taken is the one written. *)
TakeLockStale(t) ==
    /\ work[t].pc = "lock" /\ holder = Nobody
    /\ holder' = t
    /\ GoesTo(t, "locked")
    /\ UNCHANGED <<disk, rows, time, unlisted, torn>>

(* The index lock, and the index read under it. *)
TakeLock(t) ==
    /\ work[t].pc = "lock" /\ holder = Nobody
    /\ holder' = t
    /\ work' = [work EXCEPT ![t].pc = "locked", ![t].seen = rows]
    /\ UNCHANGED <<disk, rows, time, unlisted, torn>>

(* SaveRoomFull: no room for a new row, nothing is written. *)
HasRoom(w) ==
    \/ ~Capped(w.kind)
    \/ w.id \in Listed(w.seen)
    \/ Cardinality(Listed(w.seen)) < Room

SaveCounted(t) ==
    /\ work[t].pc = "locked" /\ work[t].do = "save"
    /\ IF HasRoom(work[t])
       THEN /\ GoesTo(t, IF Capped(work[t].kind) THEN "files" ELSE "row")
            /\ UNCHANGED holder
       ELSE work' = [work EXCEPT ![t] = ThreadIdle] /\ holder' = Nobody
    /\ UNCHANGED <<disk, rows, time, unlisted, torn>>

(* save.json is replaced, the one before kept as .bak ... *)
WriteSave(t) ==
    /\ work[t].pc = "files"
    /\ disk' = [disk EXCEPT ![work[t].id].save = work[t].at,
                            ![work[t].id].bak =
                                IF disk[work[t].id].save # 0 THEN disk[work[t].id].save ELSE @]
    /\ GoesTo(t, IF work[t].kind = "autosave" THEN "memory" ELSE "row")
    /\ UNCHANGED <<rows, holder, time, unlisted, torn>>

(* ... then memory.json. *)
WriteMemory(t) ==
    /\ work[t].pc = "memory"
    /\ disk' = [disk EXCEPT ![work[t].id].memory = work[t].at]
    /\ GoesTo(t, "lock")
    /\ UNCHANGED <<rows, holder, time, unlisted, torn>>

(* The row, and the lock is dropped. *)
WriteRow(t) ==
    /\ work[t].pc = "row"
    /\ PutIndex([work[t].seen EXCEPT ![work[t].id] =
                    [at |-> work[t].at, auto |-> work[t].kind # "manual"]])
    /\ work' = [work EXCEPT ![t] = ThreadIdle]
    /\ UNCHANGED <<disk, time, torn>>

----------------------------------------------------------------------------
(* delete: the folder's files one by one, then the row. *)
DeleteBegins(t, i) ==
    /\ work[t] = ThreadIdle /\ ~Busy(i)
    /\ disk[i] # NoFolder \/ i \in Listed(rows)
    /\ work' = [work EXCEPT ![t] = [pc |-> "unlink", do |-> "delete", id |-> i,
                                    kind |-> "delete", at |-> 0, seen |-> rows]]
    /\ UNCHANGED <<disk, rows, holder, time, unlisted, torn>>

Unlink(t, file) ==
    /\ work[t].pc = "unlink"
    /\ disk[work[t].id][file] # 0
    /\ disk' = [disk EXCEPT ![work[t].id][file] = 0]
    /\ UNCHANGED <<rows, holder, work, time, unlisted, torn>>

Unlinked(t) ==
    /\ work[t].pc = "unlink" /\ disk[work[t].id] = NoFolder
    /\ GoesTo(t, "lock")
    /\ UNCHANGED <<disk, rows, holder, time, unlisted, torn>>

DropRow(t) ==
    /\ work[t].pc = "locked" /\ work[t].do = "delete"
    /\ PutIndex([work[t].seen EXCEPT ![work[t].id] = NoRow])
    /\ work' = [work EXCEPT ![t] = ThreadIdle]
    /\ UNCHANGED <<disk, time, torn>>

(* reindex, under the lock: what is readable on disk, newest first, bounded. *)
Reindex(t) ==
    /\ work[t] = ThreadIdle /\ holder = Nobody
    /\ LET found == [i \in Ids |-> IF Readable(disk[i]) = 0 THEN NoRow
                                   ELSE [at |-> Readable(disk[i]), auto |-> rows[i].auto]]
       IN  /\ rows' = Bounded(found)
           /\ unlisted' = Listed(found) \ Listed(Bounded(found))
    /\ UNCHANGED <<disk, holder, work, time, torn>>

(* The process dies: what was under way is cut where it was. *)
Crash ==
    /\ \E t \in Threads : work[t] # ThreadIdle
    /\ work' = [t \in Threads |-> ThreadIdle]
    /\ holder' = Nobody
    /\ unlisted' = unlisted \cup {work[t].id : t \in {u \in Threads : work[u] # ThreadIdle}}
    /\ torn' = torn \cup {work[t].id : t \in {u \in Threads : work[u].pc # "idle" /\ work[u].do = "delete"}}
    /\ UNCHANGED <<disk, rows, time>>

(* A file that cannot be written or removed: the caller is told, the lock is *)
(* dropped, and what was written stays.                                      *)
Fails(t) ==
    /\ work[t].pc \in {"files", "memory", "row", "unlink"}
    /\ work' = [work EXCEPT ![t] = ThreadIdle]
    /\ holder' = IF holder = t THEN Nobody ELSE holder
    /\ unlisted' = unlisted \cup {work[t].id}
    /\ torn' = IF work[t].do = "delete" THEN torn \cup {work[t].id} ELSE torn
    /\ UNCHANGED <<disk, rows, time>>

ThreadStep(t) ==
    \/ Fails(t)
    \/ \E i \in Ids : DeleteBegins(t, i) \/ \E kind \in SaveKinds : SaveBegins(t, i, kind)
    \/ TakeLock(t) \/ SaveCounted(t) \/ WriteSave(t) \/ WriteMemory(t) \/ WriteRow(t)
    \/ Unlinked(t) \/ DropRow(t) \/ Reindex(t)
    \/ \E file \in {"save", "bak", "memory"} : Unlink(t, file)

SavesNext == Crash \/ \E t \in Threads : ThreadStep(t)

SavesSpec == SavesInit /\ [][SavesNext]_savesVars

----------------------------------------------------------------------------
(* The files, the index, the lock and the threads have the types of the code's. *)
SavesTypeOK ==
    /\ disk \in [Ids -> [save : Times, bak : Times, memory : Times]]
    /\ rows \in [Ids -> [at : Times, auto : BOOLEAN]]
    /\ holder \in Threads \cup {Nobody}
    /\ work \in [Threads -> {ThreadIdle} \cup
          [pc : {"lock", "locked", "files", "memory", "row", "unlink"},
           do : {"save", "delete"}, id : Ids, kind : SaveKinds \cup {"delete"},
           at : Times, seen : [Ids -> [at : Times, auto : BOOLEAN]]]]
    /\ time \in Times
    /\ unlisted \subseteq Ids /\ torn \subseteq Ids

(* A save nobody is writing is listed with what is on disk, and a row has a  *)
(* save: two threads' rows never cost each other, only a crash does.         *)
RowsMatchFiles ==
    \A i \in Ids \ (unlisted \cup torn) : ~Busy(i) => rows[i].at = disk[i].save

(* What a run is loaded with never remembers what its state has not lived:   *)
(* a crash between the files leaves the memory behind, not ahead.            *)
MemoryNotAhead ==
    \A i \in Ids \ torn : ~Busy(i) => disk[i].memory <= Readable(disk[i])

(* Two saves at once do not both take the last place: the room a limited     *)
(* save counted is still there when it writes.                               *)
RoomKept ==
    \A t \in Threads :
        work[t].pc \in {"files", "row"} /\ Capped(work[t].kind) =>
            work[t].id \in Listed(rows) \/ Cardinality(Listed(rows)) < Room

(* However threads and crashes fall, the folder is a set of runs the player  *)
(* can list and load.                                                        *)
SavesWhole == RowsMatchFiles /\ MemoryNotAhead /\ RoomKept
=============================================================================
