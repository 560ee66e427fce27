------------------------------ MODULE Sessions ------------------------------
(***************************************************************************)
(* The live runs of one hosted account in one worker: the session store     *)
(* (engine/session/store.py), the guard every turn runs under               *)
(* (engine/scenes/default_scene.py, run_guarded), the saves a turn, a phone *)
(* action, a timer and a release make (default_state.py, _autosave;         *)
(* social/saves.py), and the admin who ends, disables, deletes and purges   *)
(* an account (hosting/admin/users.py, hosting/worker_ops.py).              *)
(*                                                                          *)
(* A run is a session id together with the save it autosaves into.  A build *)
(* is one GameSession object of a run, numbered by its epoch: resuming a    *)
(* run makes a new build of it.  What a build remembers is the set of plays *)
(* (turns and phone actions) it contains.  An action is what a thread does  *)
(* under one hold of the store's guard, or between two looks at what others *)
(* may change.  Other accounts meet this one only as SessionConflict, which *)
(* changes nothing.                                                         *)
(***************************************************************************)
EXTENDS Integers, FiniteSets

CONSTANTS
    Runs,          \* session ids
    Requests,      \* threads that serve this account's requests
    Saver,         \* the thread of the phone's DirtySaver
    Keeper,        \* a thread that sweeps idle runs, or flushes before a stop
    NoSave,        \* what the disk holds for a run without a save
    MaxBuilds,     \* bound on epochs
    MaxPlays       \* bound on plays

Builds == 1 .. MaxBuilds
Plays == 1 .. MaxPlays
Threads == Requests \cup {Saver, Keeper}

(* A turn lock is free, held by a thread, or kept for good by a release.    *)
Free == "free"
Kept == "kept"

(* A session id is a string: never the 0 that stands for no run. *)
ASSUME SessionConstants ==
    /\ MaxBuilds \in Nat /\ MaxPlays \in Nat
    /\ 0 \notin Runs
    /\ \A P \in SUBSET (1 .. MaxPlays) : NoSave # P
    /\ Free \notin Threads /\ Kept \notin Threads

VARIABLES
    phone,     \* whether the worker's story declares paths.social
    live,      \* SessionStore._sessions: the build live under a run's id, or 0
    epoch,     \* _EPOCHS: how many builds there were
    sess,      \* what each build keeps
    lock,      \* its turn lock
    queued,    \* DirtySaver._queued: live builds with an entry in its heap
    disk,      \* the save of each run
    open,      \* owner_open: the account is there and not disabled
    plays,     \* how many plays there were
    thread,    \* what each thread does
    admin      \* what the admin's request does

vars == <<phone, live, epoch, sess, lock, queued, disk, open, plays, thread, admin>>

-----------------------------------------------------------------------------
(* at: the place a thread is at; op: its request; on: the build it works    *)
(* on; new: the build it made; run: whose save it resumes; got: what it     *)
(* loaded; how: which of the three saves it makes; then: where it goes once *)
(* its lock is released.                                                    *)
Idle == [at |-> "idle", op |-> "none", on |-> 0, new |-> 0, run |-> 0,
         got |-> {}, how |-> "none", then |-> "idle"]

Places == {"idle", "in", "found", "playing", "marking", "checking", "writing", "after",
           "release", "hook", "start", "load", "build", "stamp", "away",
           "media", "first", "delete"}

Unbuilt == [run |-> 0, mem |-> {}, dirty |-> FALSE, ending |-> FALSE]

AdminIdle == [at |-> "idle", todo |-> {}, busy |-> FALSE, purge |-> FALSE, again |-> FALSE]

IsLive(b) == b \in Builds /\ sess[b].run \in Runs /\ live[sess[b].run] = b
LiveBuilds == {live[r] : r \in Runs} \ {0}

Go(t, place) == thread' = [thread EXCEPT ![t].at = place]
GoIdle(t) == thread' = [thread EXCEPT ![t] = Idle]

(* A thread goes on where it was bound for; a build's thread turns to the   *)
(* build it made.                                                           *)
GoOn(t) ==
    LET me == thread[t] IN
    IF me.then = "idle" THEN GoIdle(t)
    ELSE thread' = [thread EXCEPT ![t].at = me.then, ![t].then = "idle",
                                  ![t].on = IF me.new # 0 THEN me.new ELSE me.on]

(* To the lock's release; a flush at a run's release holds a lock that is   *)
(* never given back.                                                        *)
LeaveFor(t, place) ==
    LET me == thread[t] IN
    thread' = [thread EXCEPT ![t] =
                  IF place = "idle" /\ me.op # "create"
                  THEN [Idle EXCEPT !.at = "release", !.on = me.on]
                  ELSE [me EXCEPT !.at = "release", !.how = "none", !.then = place]]
Leave(t) == IF lock[thread[t].on] = t THEN LeaveFor(t, thread[t].then) ELSE GoOn(t)

(* Runs a player can name: not those whose create has not answered yet.     *)
Known(r) == \A t \in Threads : ~(thread[t].op = "create" /\ thread[t].run = r)

(* A new session id is nobody's.                                            *)
Unused(r) ==
    /\ disk[r] = NoSave
    /\ \A b \in Builds : sess[b].run # r
    /\ \A t \in Threads : thread[t].run # r

Init ==
    /\ phone \in BOOLEAN
    /\ live = [r \in Runs |-> 0]
    /\ epoch = 0
    /\ sess = [b \in Builds |-> Unbuilt]
    /\ lock = [b \in Builds |-> Free]
    /\ queued = {}
    /\ \E saved \in SUBSET Runs :
         disk = [r \in Runs |-> IF r \in saved THEN {} ELSE NoSave]
    /\ open \in BOOLEAN
    /\ plays = 0
    /\ thread = [t \in Threads |-> Idle]
    /\ admin = AdminIdle

-----------------------------------------------------------------------------
(* The turn lock: run_guarded, owner_write, the saver and the flushes take  *)
(* it without waiting, and release_turn is the one way it is let go.        *)

(* SessionStore.end, the body under the guard: the run is taken out of the  *)
(* store holding its lock, which nobody gives back.                         *)
CanEnd(r) == live[r] # 0 /\ lock[live[r]] = Free
End(r) ==
    /\ lock' = [lock EXCEPT ![live[r]] = Kept]
    /\ live' = [live EXCEPT ![r] = 0]
    /\ queued' = queued \ {live[r]}

(* The gate lets a request in while its account is open; what it is about   *)
(* is looked up only then.                                                  *)
LetIn(t, r, op) ==
    /\ thread[t].at = "idle" /\ t \in Requests
    /\ open
    /\ op = "action" => phone
    /\ IF op = "create" THEN Unused(r) ELSE Known(r)
    /\ thread' = [thread EXCEPT ![t] = [Idle EXCEPT !.at = "in", !.op = op, !.run = r]]
    /\ UNCHANGED <<live, epoch, sess, lock, queued, disk, open, plays, admin>>

(* It finds its run in the store (require), or does not.                    *)
FindRun(t) ==
    LET b == live[thread[t].run] IN
    /\ thread[t].at = "in" /\ thread[t].op \in {"turn", "action", "write"}
    /\ IF b = 0 THEN GoIdle(t)
       ELSE thread' = [thread EXCEPT ![t].at = "found", ![t].on = b]
    /\ UNCHANGED <<live, epoch, sess, lock, queued, disk, open, plays, admin>>

(* What a thread does first once it has the lock.                           *)
Begins(op) == IF op \in {"turn", "action"} THEN "playing" ELSE "checking"
SaveOf(op) == CASE op = "write" -> "owner" [] op = "turn" -> "autosave" [] OTHER -> "now"

TakeLock(t) ==
    LET b == thread[t].on IN
        /\ thread[t].at = "found"
        /\ lock[b] = Free
        /\ lock' = [lock EXCEPT ![b] = t]
        /\ IF thread[t].op \in {"saving", "flushing"} /\ ~sess[b].dirty
           THEN LeaveFor(t, "idle")
           ELSE thread' = [thread EXCEPT ![t].at = Begins(thread[t].op), ![t].how = SaveOf(thread[t].op)]
        /\ UNCHANGED <<live, epoch, sess, queued, disk, open, plays, admin>>

(* Slip: the saver gives up a busy run. *)
LockTakenDropped(t) ==
    /\ thread[t].at = "found"
    /\ GoIdle(t)
    /\ UNCHANGED <<live, epoch, sess, lock, queued, disk, open, plays, admin>>

(* The lock is held, or is being probed (_is_busy takes it for an instant): *)
(* the request is refused as busy; the saver tries again later.             *)
LockTaken(t) ==
    /\ thread[t].at = "found"
    /\ GoIdle(t)
    /\ queued' = IF thread[t].op = "saving" /\ IsLive(thread[t].on)
                 THEN queued \cup {thread[t].on} ELSE queued
    /\ UNCHANGED <<live, epoch, sess, lock, disk, open, plays, admin>>

(* release_turn: the lock first, then the end that waited for it.           *)
ReleaseTurn(t) ==
    /\ thread[t].at = "release"
    /\ lock' = [lock EXCEPT ![thread[t].on] = Free]
    /\ Go(t, "hook")
    /\ UNCHANGED <<live, epoch, sess, queued, disk, open, plays, admin>>

(* Slip: a bare release, the waiting end forgotten. *)
AfterTurnForgotten(t) ==
    /\ thread[t].at = "hook"
    /\ GoOn(t)
    /\ UNCHANGED <<live, epoch, sess, lock, queued, disk, open, plays, admin>>

AfterTurn(t) ==
    /\ thread[t].at = "hook"
    /\ LET b == thread[t].on IN
         IF sess[b].ending /\ CanEnd(sess[b].run)
         THEN End(sess[b].run)
         ELSE UNCHANGED <<live, lock, queued>>
    /\ GoOn(t)
    /\ UNCHANGED <<epoch, sess, disk, open, plays, admin>>

-----------------------------------------------------------------------------
(* Playing and saving, the lock held.                                       *)

(* A turn that is not admitted, whose player left or that fails changes     *)
(* nothing.                                                                 *)
NotPlayed(t) ==
    /\ thread[t].at \in {"playing", "after"}
    /\ Leave(t)
    /\ UNCHANGED <<live, epoch, sess, lock, queued, disk, open, plays, admin>>

Played(t) ==
    /\ plays < MaxPlays
    /\ plays' = plays + 1
    /\ sess' = [sess EXCEPT ![thread[t].on].mem = @ \cup {plays + 1}]

(* _run_locked's run, and the autosave at its end.                          *)
PlayTurn(t) ==
    /\ thread[t].at = "playing" /\ thread[t].op = "turn"
    /\ Played(t)
    /\ Go(t, "checking")
    /\ UNCHANGED <<live, epoch, lock, queued, disk, open, admin>>

(* A phone action that saves at once, and one that marks its run dirty; a   *)
(* phone story's turn does the latter after its autosave (_meet_if_here).   *)
PlayAndSave(t) ==
    /\ thread[t].at = "playing" /\ thread[t].op = "action"
    /\ Played(t)
    /\ Go(t, "checking")
    /\ UNCHANGED <<live, epoch, lock, queued, disk, open, admin>>

PlayAndMark(t) ==
    /\ \/ thread[t].at = "playing" /\ thread[t].op = "action"
       \/ thread[t].at = "after"
    /\ plays < MaxPlays
    /\ plays' = plays + 1
    /\ sess' = [sess EXCEPT ![thread[t].on].mem = @ \cup {plays + 1},
                            ![thread[t].on].dirty = TRUE]
    /\ Go(t, "marking")
    /\ UNCHANGED <<live, epoch, lock, queued, disk, open, admin>>

(* mark_dirty's second half: DirtySaver.schedule.                           *)
Mark(t) ==
    /\ thread[t].at = "marking"
    /\ queued' = IF IsLive(thread[t].on) THEN queued \cup {thread[t].on} ELSE queued
    /\ Leave(t)
    /\ UNCHANGED <<live, epoch, sess, lock, disk, open, plays, admin>>

(* What each save asks before it writes: _autosave whether the run is       *)
(* ending, save_now and owner_write also whether the account is open.       *)
MayWrite(t) == ~sess[thread[t].on].ending /\ (thread[t].how # "autosave" => open)

CheckSave(t) ==
    /\ thread[t].at = "checking"
    /\ MayWrite(t)
    /\ Go(t, "writing")
    /\ sess' = IF thread[t].how = "now" THEN [sess EXCEPT ![thread[t].on].dirty = FALSE] ELSE sess
    /\ UNCHANGED <<live, epoch, lock, queued, disk, open, plays, admin>>

(* A refused first save takes its run with it (AccountClosed).              *)
SaveRefused(t) ==
    /\ thread[t].at = "checking"
    /\ ~MayWrite(t)
    /\ IF thread[t].op = "create" /\ thread[t].how = "owner"
       THEN LeaveFor(t, "delete")
       ELSE Leave(t)
    /\ UNCHANGED <<live, epoch, sess, lock, queued, disk, open, plays, admin>>

WriteSave(t) ==
    /\ thread[t].at = "writing"
    /\ disk' = [disk EXCEPT ![sess[thread[t].on].run] = sess[thread[t].on].mem]
    /\ IF thread[t].op = "turn" /\ phone THEN Go(t, "after") ELSE Leave(t)
    /\ UNCHANGED <<live, epoch, sess, lock, queued, open, plays, admin>>

(* The disk refuses: a turn and a manual save give it up, a phone save is   *)
(* marked dirty again; a first save finds the account's room full.          *)
SaveFails(t) ==
    /\ thread[t].at = "writing"
    /\ sess' = IF thread[t].how = "now" THEN [sess EXCEPT ![thread[t].on].dirty = TRUE] ELSE sess
    /\ IF thread[t].how = "now" THEN Go(t, "marking")
       ELSE IF thread[t].op = "create" THEN LeaveFor(t, "delete") ELSE Leave(t)
    /\ UNCHANGED <<live, epoch, lock, queued, disk, open, plays, admin>>

-----------------------------------------------------------------------------
(* Starting a run: create and resume.                                       *)

OwnerBusy == \E b \in LiveBuilds : lock[b] # Free

(* _refuse_if_owner_busy.  A create goes on to build its new state, a       *)
(* resume to _flush_before_load.                                            *)
FirstLook(t) ==
    /\ thread[t].at = "in" /\ thread[t].op \in {"create", "resume"}
    /\ IF OwnerBusy THEN GoIdle(t)
       ELSE Go(t, IF thread[t].op = "create" THEN "build" ELSE IF phone THEN "start" ELSE "load")
    /\ UNCHANGED <<live, epoch, sess, lock, queued, disk, open, plays, admin>>

(* Slip: a resume that loads at once. *)
FlushBeforeLoadNot(t) ==
    /\ thread[t].at = "start"
    /\ Go(t, "load")
    /\ UNCHANGED <<live, epoch, sess, lock, queued, disk, open, plays, admin>>

(* A phone story's live build of the save is taken if its lock is free.     *)
FlushBeforeLoad(t) ==
    LET b == live[thread[t].run] IN
    /\ thread[t].at = "start"
    /\ IF b # 0 /\ lock[b] = Free
       THEN /\ lock' = [lock EXCEPT ![b] = t]
            /\ thread' = [thread EXCEPT ![t].at = IF sess[b].dirty THEN "checking" ELSE "release",
                                        ![t].on = b, ![t].how = "now", ![t].then = "load"]
       ELSE UNCHANGED lock /\ Go(t, "load")
    /\ UNCHANGED <<live, epoch, sess, queued, disk, open, plays, admin>>

Load(t) ==
    /\ thread[t].at = "load"
    /\ IF disk[thread[t].run] = NoSave
       THEN GoIdle(t)
       ELSE thread' = [thread EXCEPT ![t].at = "build", ![t].got = disk[thread[t].run]]
    /\ UNCHANGED <<live, epoch, sess, lock, queued, disk, open, plays, admin>>

(* _take_owned: every live run of the account, none of them in a turn.      *)
(* Slip: as in local mode, the run itself alone.                            *)
TakenSameRun(t) == {live[thread[t].run]} \ {0}
Taken(t) == LiveBuilds

(* _build under the guard: the account's live runs leave the store, their   *)
(* locks kept for good, and the new build is live in their place.  At most  *)
(* one is taken (OneLivePerAccount); its phone state is flushed next, the   *)
(* guard released.                                                          *)
Build(t) ==
    LET old == Taken(t)
        b == epoch + 1
        me == [thread[t] EXCEPT !.at = IF thread[t].op = "create" THEN "stamp" ELSE "away",
                                !.on = b, !.new = b, !.got = {}]
    IN  /\ thread[t].at = "build"
        /\ epoch < MaxBuilds
        /\ ~OwnerBusy
        /\ epoch' = b
        /\ sess' = [sess EXCEPT ![b] = [Unbuilt EXCEPT !.run = thread[t].run, !.mem = thread[t].got]]
        /\ live' = [r \in Runs |-> IF r = thread[t].run THEN b
                                    ELSE IF live[r] \in old THEN 0 ELSE live[r]]
        /\ lock' = [x \in Builds |-> IF x \in old THEN Kept ELSE lock[x]]
        /\ thread' = [thread EXCEPT ![t] =
                        IF phone /\ \E o \in old : sess[o].dirty
                        THEN [me EXCEPT !.at = "checking", !.how = "now", !.then = me.at,
                                        !.on = CHOOSE o \in old : sess[o].dirty]
                        ELSE me]
        /\ queued' = queued \ old
        /\ UNCHANGED <<disk, open, plays, admin>>

BuildRefused(t) ==
    /\ thread[t].at = "build"
    /\ OwnerBusy
    /\ GoIdle(t)
    /\ UNCHANGED <<live, epoch, sess, lock, queued, disk, open, plays, admin>>

(* What a resume and a create do next under the new build's lock, each      *)
(* skipped when another thread holds it: the away advance and the           *)
(* resubmitted media of a phone story; the stamp and the first save.        *)
Steps == {"stamp", "away", "media", "first"}
NextStep == [stamp |-> "first", away |-> "media", media |-> "idle", first |-> "idle"]

Skip(t) ==
    LET next == NextStep[thread[t].at] IN
    IF next = "idle" THEN GoIdle(t) ELSE Go(t, next)

(* With the lock: an away advance saves at once, marks dirty or finds no    *)
(* time passed; a first save asks the account.                              *)
StepTaken(t) ==
    LET step == thread[t].at
        b == thread[t].on
    IN  /\ step \in Steps
        /\ step = "first" \/ phone
        /\ lock[b] = Free
        /\ lock' = [lock EXCEPT ![b] = t]
        /\ \/ /\ step \in {"stamp", "media"}
              /\ LeaveFor(t, NextStep[step])
              /\ UNCHANGED sess
           \/ /\ step = "first"
              /\ thread' = [thread EXCEPT ![t].at = "checking", ![t].how = "owner",
                                          ![t].then = "idle"]
              /\ UNCHANGED sess
           \/ /\ step = "away"
              /\ thread' = [thread EXCEPT ![t].at = "checking", ![t].how = "now",
                                          ![t].then = "media"]
              /\ UNCHANGED sess
           \/ /\ step = "away"
              /\ sess' = [sess EXCEPT ![b].dirty = TRUE]
              /\ thread' = [thread EXCEPT ![t].at = "marking", ![t].then = "media"]
        /\ UNCHANGED <<live, epoch, queued, disk, open, plays, admin>>

(* owner_write refused: the run is gone (AccountClosed, so it is deleted),  *)
(* or busy.  The other steps are skipped.                                   *)
StepSkipped(t) ==
    /\ thread[t].at \in Steps
    /\ IF thread[t].at = "first" /\ ~IsLive(thread[t].on)
       THEN Go(t, "delete")
       ELSE Skip(t)
    /\ UNCHANGED <<live, epoch, sess, lock, queued, disk, open, plays, admin>>

(* SessionStore.delete, whatever its lock.                                  *)
Delete(t) ==
    /\ thread[t].at = "delete"
    /\ live' = [live EXCEPT ![thread[t].run] = 0]
    /\ queued' = queued \ {live[thread[t].run]}
    /\ GoIdle(t)
    /\ UNCHANGED <<epoch, sess, lock, disk, open, plays, admin>>

-----------------------------------------------------------------------------
(* The threads nobody asks: the phone's timer, the idle sweep, the flush    *)
(* before a stop.                                                           *)

(* DirtySaver._run: an entry is popped, the run's liveness and its dirty    *)
(* mark asked, and its lock tried.                                          *)
SaverPops(b) ==
    /\ phone
    /\ thread[Saver].at = "idle"
    /\ b \in queued
    /\ queued' = queued \ {b}
    /\ thread' = IF IsLive(b) /\ ~sess[b].ending /\ sess[b].dirty
                 THEN [thread EXCEPT ![Saver] = [Idle EXCEPT !.at = "found", !.op = "saving", !.on = b]]
                 ELSE thread
    /\ UNCHANGED <<live, epoch, sess, lock, disk, open, plays, admin>>

(* sweep_idle: an idle run is taken holding its lock, and flushed.          *)
Sweep(r) ==
    /\ thread[Keeper].at = "idle"
    /\ CanEnd(r)
    /\ End(r)
    /\ thread' = IF phone /\ sess[live[r]].dirty
                 THEN [thread EXCEPT ![Keeper] = [Idle EXCEPT !.at = "checking", !.op = "sweep",
                                                  !.how = "now", !.on = live[r]]]
                 ELSE thread
    /\ UNCHANGED <<epoch, sess, disk, open, plays, admin>>

(* flush_all, one live run at a time.                                       *)
FlushAll(b) ==
    /\ phone
    /\ thread[Keeper].at = "idle"
    /\ b \in LiveBuilds /\ sess[b].dirty
    /\ thread' = [thread EXCEPT ![Keeper] = [Idle EXCEPT !.at = "found", !.op = "flushing", !.on = b]]
    /\ UNCHANGED <<live, epoch, sess, lock, queued, disk, open, plays, admin>>

-----------------------------------------------------------------------------
(* The admin.                                                               *)

(* An admin ends one session; refused while a turn runs.                    *)
AdminEnds(r) ==
    /\ admin.at \in {"idle", "closed"}
    /\ CanEnd(r)
    /\ End(r)
    /\ UNCHANGED <<epoch, sess, disk, open, plays, thread, admin>>

(* A disable, or a delete that purges (which disables first): end_owner     *)
(* lists the account's sessions.  The model's admin closes it once.         *)
Disable(purge) ==
    /\ admin.at = "idle" /\ open
    /\ open' = FALSE
    /\ admin' = [AdminIdle EXCEPT !.at = "list", !.purge = purge]
    /\ UNCHANGED <<live, epoch, sess, lock, queued, disk, plays, thread>>

Enable ==
    /\ admin.at = "idle" /\ ~open
    /\ open' = TRUE
    /\ UNCHANGED <<live, epoch, sess, lock, queued, disk, plays, thread, admin>>

ListOwned ==
    /\ admin.at = "list"
    /\ admin' = [admin EXCEPT !.at = "ending", !.todo = {r \in Runs : live[r] # 0}, !.busy = FALSE]
    /\ UNCHANGED <<live, epoch, sess, lock, queued, disk, open, plays, thread>>

(* One id of the list: gone, ended, or busy and so to be marked.            *)
EndListed(r) ==
    /\ admin.at = "ending" /\ r \in admin.todo
    /\ IF live[r] # 0 /\ ~CanEnd(r)
       THEN admin' = [admin EXCEPT !.at = "mark", !.todo = {r}, !.busy = TRUE] /\ UNCHANGED <<live, lock, queued>>
       ELSE /\ admin' = [admin EXCEPT !.todo = @ \ {r}]
            /\ IF CanEnd(r) THEN End(r) ELSE UNCHANGED <<live, lock, queued>>
    /\ UNCHANGED <<epoch, sess, disk, open, plays, thread>>

(* _end_when_done: the mark and the hook that its turn's release will run.  *)
EndWhenDone ==
    /\ admin.at = "mark"
    /\ \E r \in admin.todo :
         sess' = IF live[r] = 0 THEN sess ELSE [sess EXCEPT ![live[r]].ending = TRUE]
    /\ admin' = [admin EXCEPT !.at = "ending", !.todo = {}]
    /\ UNCHANGED <<live, epoch, lock, queued, disk, open, plays, thread>>

(* Slip: a purge whatever end_owner answered. *)
OwnerEndedAnyway ==
    /\ admin.at = "ending" /\ admin.todo = {}
    /\ admin' = [admin EXCEPT !.at = IF admin.purge THEN "purge" ELSE "closed"]
    /\ UNCHANGED <<live, epoch, sess, lock, queued, disk, open, plays, thread>>

(* A purge goes on only if no turn may still write; else the account stays  *)
(* disabled.  Deleted, its folder goes, twice: end_owner runs again between.*)
OwnerEnded ==
    /\ admin.at = "ending" /\ admin.todo = {}
    /\ admin' = IF admin.purge /\ (admin.again \/ ~admin.busy)
                THEN [admin EXCEPT !.at = "purge"] ELSE [admin EXCEPT !.at = "closed"]
    /\ UNCHANGED <<live, epoch, sess, lock, queued, disk, open, plays, thread>>

PurgeFolder ==
    /\ admin.at = "purge"
    /\ disk' = [r \in Runs |-> NoSave]
    /\ admin' = IF admin.again THEN [admin EXCEPT !.at = "purged"]
                ELSE [admin EXCEPT !.at = "list", !.again = TRUE]
    /\ UNCHANGED <<live, epoch, sess, lock, queued, open, plays, thread>>

-----------------------------------------------------------------------------
ThreadStep(t) ==
    \/ \E r \in Runs, op \in {"turn", "action", "write", "create", "resume"} : LetIn(t, r, op)
    \/ FindRun(t) \/ FirstLook(t)
    \/ TakeLock(t) \/ LockTaken(t) \/ ReleaseTurn(t) \/ AfterTurn(t)
    \/ NotPlayed(t) \/ PlayTurn(t) \/ PlayAndSave(t) \/ PlayAndMark(t) \/ Mark(t)
    \/ CheckSave(t) \/ SaveRefused(t) \/ WriteSave(t) \/ SaveFails(t)
    \/ FlushBeforeLoad(t) \/ Load(t) \/ Build(t) \/ BuildRefused(t)
    \/ StepTaken(t) \/ StepSkipped(t) \/ Delete(t)

Background ==
    \/ \E b \in Builds : SaverPops(b) \/ FlushAll(b)
    \/ \E r \in Runs : Sweep(r)

AdminStep ==
    \/ \E r \in Runs : AdminEnds(r) \/ EndListed(r)
    \/ \E purge \in BOOLEAN : Disable(purge)
    \/ Enable \/ ListOwned \/ EndWhenDone \/ OwnerEnded \/ PurgeFolder

Next ==
    /\ (\E t \in Threads : ThreadStep(t)) \/ Background \/ AdminStep
    /\ UNCHANGED phone

Spec == Init /\ [][Next]_vars

-----------------------------------------------------------------------------
(* What the store is for.                                                   *)

(* The types of the code's. *)
ThreadState ==
    [at : Places, on : Builds \cup {0}, new : Builds \cup {0}, run : Runs \cup {0},
     op : {"none", "turn", "action", "write", "create", "resume", "saving", "flushing", "sweep"},
     got : SUBSET Plays, how : {"none", "autosave", "owner", "now"},
     then : {"idle", "load", "delete"} \cup Steps]

SessionsTypeOK ==
    /\ live \in [Runs -> Builds \cup {0}]
    /\ epoch \in 0 .. MaxBuilds /\ plays \in 0 .. MaxPlays
    /\ sess \in [Builds -> [run : Runs \cup {0}, mem : SUBSET Plays,
                            dirty : BOOLEAN, ending : BOOLEAN]]
    /\ lock \in [Builds -> Threads \cup {Free, Kept}]
    /\ queued \subseteq Builds
    /\ disk \in [Runs -> (SUBSET Plays) \cup {NoSave}]
    /\ thread \in [Threads -> ThreadState]

(* One thread at a time plays, saves or flushes a build, whether it is live *)
(* or was released with its lock kept (store.py, release_turn, _take_owned, *)
(* _flush_taken).                                                           *)
Locked == {"playing", "marking", "checking", "writing", "after", "release"}
OneAtATime ==
    \A t, u \in Threads :
        thread[t].at \in Locked /\ thread[u].at \in Locked /\ thread[t].on = thread[u].on => t = u

(* One live run per account (store.py, _build: "decided here, atomically    *)
(* with the insert, so two starts at once cannot leave two runs live").     *)
OneLivePerAccount == \A r, s \in Runs : live[r] # 0 /\ live[s] # 0 => r = s

(* A save never loses a play that an earlier save of the run had: no old    *)
(* build writes over a newer one, and no run is rebuilt from less than was  *)
(* saved (the flush before a load, the locks a release keeps).  Only a      *)
(* purge takes a save away.                                                 *)
SavesOnlyGrow ==
    [][\A r \in Runs : disk[r] # NoSave /\ disk'[r] # NoSave => disk[r] \subseteq disk'[r]]_vars

(* A purged account's folder stays gone, whatever request the gate had let  *)
(* in before (store.py, create; users.py, users_delete).                    *)
PurgeIsFinal == admin.at = "purged" => \A r \in Runs : disk[r] = NoSave

(* A live run marked ending has a turn whose release will end it            *)
(* (end_owner: released "as soon as that turn gives its lock back").        *)
EndingHasATurn ==
    \A b \in LiveBuilds : sess[b].ending =>
        \/ lock[b] \in Threads
        \/ \E t \in Threads : thread[t].at = "hook" /\ thread[t].on = b

(* phone state that is only in memory is on its way to the disk: the timer  *)
(* has an entry for it or is about to try its lock (mark_dirty, DirtySaver).*)
DirtyIsScheduled ==
    \A b \in LiveBuilds :
        sess[b].dirty /\ ~sess[b].ending /\ open /\ lock[b] = Free =>
            b \in queued \/ (thread[Saver].on = b /\ thread[Saver].at = "found")
=============================================================================
