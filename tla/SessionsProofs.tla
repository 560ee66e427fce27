----------------------------- MODULE SessionsProofs -----------------------------
(***************************************************************************)
(* Theorems about the session store (Sessions.tla), for any runs, threads,  *)
(* builds and plays: an account has one live run, and one thread at a time  *)
(* works on a build; unsaved phone state is on its way to the disk; a run   *)
(* marked ending has a turn that will end it; a purged folder stays gone;   *)
(* no save of a run loses what an earlier one had.                          *)
(*                                                                          *)
(* OneAtATime is no invariant of its own accord: a thread may work under a  *)
(* lock it holds, or flush a run whose lock its release keeps, and a lock   *)
(* that is kept names nobody.  The invariant says of every thread that      *)
(* works which of the two it is (LockTold); a release takes a lock only     *)
(* when it is free, so nobody else worked on that build then.  The later    *)
(* theorems each add what they need to that invariant (DirtyInv, EndingInv, *)
(* FreshInv and, upon it, PurgeInv and GrowInv).                            *)
(***************************************************************************)
EXTENDS Sessions, TLAPS

USE SessionConstants DEF SessionConstants, Builds, Free, Kept

(* What a live run's entry is: a build of its own, made already, whose lock *)
(* is free or held, never kept.                                             *)
LiveTold ==
    \A r \in Runs : live[r] # 0 =>
        live[r] <= epoch /\ sess[live[r]].run = r /\ lock[live[r]] # Kept

(* A build is made for a run; one not made yet is nobody's. *)
UnmadeTold ==
    /\ \A b \in Builds : IF b <= epoch THEN sess[b].run \in Runs ELSE lock[b] = Free
    /\ \A t \in Threads : thread[t].on <= epoch /\ thread[t].new <= epoch

(* A lock's holder works under it, and whoever works on a build holds its   *)
(* lock, or flushes it after its release.                                   *)
LockTold ==
    \A t \in Threads :
        /\ \A b \in Builds : lock[b] = t => thread[t].on = b /\ thread[t].at \in Locked
        /\ thread[t].at \in Locked =>
              /\ thread[t].on # 0
              /\ \/ lock[thread[t].on] = t
                 \/ /\ lock[thread[t].on] = Kept
                    /\ thread[t].how = "now" /\ thread[t].at # "release"

(* Where a thread is, it knows its build and its run. *)
Placed(me) ==
    /\ me.at \in {"found", "hook"} \cup Steps => me.on # 0
    /\ me.at \in {"in", "start", "load", "build", "delete"} \cup Steps => me.run \in Runs
    /\ me.then # "idle" => me.run \in Runs
    /\ me.op \in {"turn", "action", "write", "create", "resume"} => me.run \in Runs

SessionsInv ==
    /\ SessionsTypeOK /\ LiveTold /\ UnmadeTold /\ LockTold /\ OneAtATime
    /\ \A t \in Threads : Placed(thread[t])

LEMMA InitInv == Init => SessionsInv
<1> SUFFICES ASSUME Init PROVE SessionsInv
  OBVIOUS
<1>1. Idle \in ThreadState
  BY DEF Idle, ThreadState, Places
<1>2. Unbuilt \in [run : Runs \cup {0}, mem : SUBSET Plays, dirty : BOOLEAN, ending : BOOLEAN]
  BY DEF Unbuilt
<1>3. SessionsTypeOK
  BY <1>1, <1>2 DEF Init, SessionsTypeOK
<1>4. \A t \in Threads : Placed(thread[t])
  BY DEF Init, Idle, Placed, Steps
<1> QED
  BY <1>3, <1>4 DEF Init, Idle, SessionsInv, LiveTold, UnmadeTold, LockTold, OneAtATime, Locked

----------------------------------------------------------------------------
(* One thread moves to where `me' says. *)
Moves(t, me) ==
    /\ me \in ThreadState
    /\ thread' = [thread EXCEPT ![t] = me]
    /\ me.on <= epoch /\ me.new <= epoch
    /\ Placed(me)

(* What a step of a thread may do to the builds without touching a lock.    *)
BuildsKept ==
    /\ sess' \in [Builds -> [run : Runs \cup {0}, mem : SUBSET Plays,
                              dirty : BOOLEAN, ending : BOOLEAN]]
    /\ \A b \in Builds : sess'[b].run = sess[b].run
    /\ queued' \subseteq Builds
    /\ disk' \in [Runs -> (SUBSET Plays) \cup {NoSave}]
    /\ plays' \in 0 .. MaxPlays
    /\ epoch' = epoch

LEMMA ThreadMoves ==
    ASSUME SessionsInv, NEW t \in Threads, NEW me, Moves(t, me), BuildsKept,
           live' \in [Runs -> Builds \cup {0}], \A r \in Runs : live'[r] \in {live[r], 0},
           UNCHANGED lock,
           me.at \in Locked =>
              /\ thread[t].at \in Locked /\ me.on = thread[t].on
              /\ lock[me.on] = t \/ (me.how = "now" /\ me.at # "release"),
           thread[t].at \in Locked /\ lock[thread[t].on] = t => me.at \in Locked
    PROVE  SessionsInv'
<1>1. SessionsTypeOK'
  BY DEF SessionsInv, SessionsTypeOK, Moves, BuildsKept
<1>2. LiveTold'
  BY DEF SessionsInv, SessionsTypeOK, LiveTold, BuildsKept
<1>3. UnmadeTold'
  BY DEF SessionsInv, SessionsTypeOK, UnmadeTold, Moves, BuildsKept
<1>4. LockTold'
  BY DEF SessionsInv, SessionsTypeOK, LockTold, Moves
<1>5. OneAtATime'
  BY DEF SessionsInv, SessionsTypeOK, OneAtATime, Moves
<1>6. \A u \in Threads : Placed(thread[u])'
  BY DEF SessionsInv, SessionsTypeOK, Moves, Placed
<1> QED BY <1>1, <1>2, <1>3, <1>4, <1>5, <1>6 DEF SessionsInv

(* A thread that works on nothing takes a free lock. *)
LEMMA LockMoves ==
    ASSUME SessionsInv, NEW t \in Threads, NEW me, Moves(t, me), BuildsKept,
           UNCHANGED live,
           NEW b \in Builds, b <= epoch, lock[b] = Free, lock' = [lock EXCEPT ![b] = t],
           thread[t].at \notin Locked, me.at \in Locked, me.on = b
    PROVE  SessionsInv'
<1>1. SessionsTypeOK'
  BY DEF SessionsInv, SessionsTypeOK, Moves, BuildsKept
<1>2. LiveTold'
  BY DEF SessionsInv, SessionsTypeOK, LiveTold, BuildsKept
<1>3. UnmadeTold'
  BY DEF SessionsInv, SessionsTypeOK, UnmadeTold, Moves, BuildsKept
<1>4. LockTold'
  <2>1. \A c \in Builds : lock[c] # t
    BY DEF SessionsInv, LockTold
  <2>2. \A u \in Threads : u # t => thread'[u] = thread[u]
    BY DEF SessionsInv, SessionsTypeOK, Moves
  <2>3. thread'[t] = me /\ lock'[b] = t /\ me.on = b /\ b # 0
    BY DEF SessionsInv, SessionsTypeOK, Moves
  <2>4. \A c \in Builds : c # b => lock'[c] = lock[c]
    BY DEF SessionsInv, SessionsTypeOK
  <2>5. \A u \in Threads : u # t /\ thread[u].at \in Locked => thread[u].on \in Builds /\ thread[u].on # b
    BY DEF SessionsInv, SessionsTypeOK, ThreadState, LockTold
  <2> SUFFICES ASSUME NEW u \in Threads
               PROVE  /\ \A c \in Builds : lock'[c] = u => thread'[u].on = c /\ thread'[u].at \in Locked
                      /\ thread'[u].at \in Locked =>
                            /\ thread'[u].on # 0
                            /\ \/ lock'[thread'[u].on] = u
                               \/ /\ lock'[thread'[u].on] = Kept
                                  /\ thread'[u].how = "now" /\ thread'[u].at # "release"
    BY DEF LockTold
  <2>6. CASE u = t
    BY <2>1, <2>3, <2>4, <2>6
  <2>7. CASE u # t
    BY <2>2, <2>3, <2>4, <2>5, <2>7 DEF SessionsInv, LockTold
  <2> QED BY <2>6, <2>7
<1>5. OneAtATime'
  <2>1. thread'[t] = me /\ \A u \in Threads : u # t => thread'[u] = thread[u]
    BY DEF SessionsInv, SessionsTypeOK, Moves
  <2>2. \A u \in Threads : thread[u].at \in Locked => thread[u].on # b
    BY DEF SessionsInv, LockTold
  <2> QED BY <2>1, <2>2 DEF SessionsInv, OneAtATime
<1>6. \A u \in Threads : Placed(thread[u])'
  BY DEF SessionsInv, SessionsTypeOK, Moves, Placed
<1> QED BY <1>1, <1>2, <1>3, <1>4, <1>5, <1>6 DEF SessionsInv

(* A run is released: its lock is free and kept from now on, and the thread *)
(* that released it may flush it.                                           *)
LEMMA EndMoves ==
    ASSUME SessionsInv, NEW t \in Threads, NEW me, Moves(t, me), BuildsKept,
           NEW r \in Runs, CanEnd(r),
           lock' = [lock EXCEPT ![live[r]] = Kept], live' = [live EXCEPT ![r] = 0],
           \/ me = thread[t]
           \/ /\ thread[t].at \notin Locked
              /\ me.at \in Locked => me.on = live[r] /\ me.how = "now" /\ me.at # "release"
    PROVE  SessionsInv'
<1>0. live[r] \in Builds /\ lock[live[r]] = Free /\ live[r] <= epoch
  BY DEF SessionsInv, SessionsTypeOK, LiveTold, CanEnd
<1>1. SessionsTypeOK'
  BY <1>0 DEF SessionsInv, SessionsTypeOK, Moves, BuildsKept
<1>2. LiveTold'
  BY <1>0 DEF SessionsInv, SessionsTypeOK, LiveTold, BuildsKept
<1>3. UnmadeTold'
  BY <1>0 DEF SessionsInv, SessionsTypeOK, UnmadeTold, Moves, BuildsKept
<1>4. thread'[t] = me /\ \A u \in Threads : u # t => thread'[u] = thread[u]
  BY DEF SessionsInv, SessionsTypeOK, Moves
<1>5. \A u \in Threads : thread[u].at \in Locked => thread[u].on \in Builds /\ thread[u].on # live[r]
  BY <1>0 DEF SessionsInv, SessionsTypeOK, ThreadState, LockTold
<1>6. lock'[live[r]] = Kept /\ \A b \in Builds : b # live[r] => lock'[b] = lock[b]
  BY <1>0 DEF SessionsInv, SessionsTypeOK
<1>7. LockTold'
  <2> SUFFICES ASSUME NEW u \in Threads
               PROVE  /\ \A c \in Builds : lock'[c] = u => thread'[u].on = c /\ thread'[u].at \in Locked
                      /\ thread'[u].at \in Locked =>
                            /\ thread'[u].on # 0
                            /\ \/ lock'[thread'[u].on] = u
                               \/ /\ lock'[thread'[u].on] = Kept
                                  /\ thread'[u].how = "now" /\ thread'[u].at # "release"
    BY DEF LockTold
  <2>1. CASE thread'[u] = thread[u]
    BY <1>0, <1>5, <1>6, <2>1 DEF SessionsInv, LockTold
  <2>2. CASE u = t /\ me # thread[t]
    BY <1>0, <1>4, <1>6, <2>2 DEF SessionsInv, LockTold
  <2> QED BY <1>4, <2>1, <2>2
<1>8. OneAtATime'
  BY <1>4, <1>5 DEF SessionsInv, OneAtATime
<1>9. \A u \in Threads : Placed(thread[u])'
  BY DEF SessionsInv, SessionsTypeOK, Moves, Placed
<1> QED BY <1>1, <1>2, <1>3, <1>7, <1>8, <1>9 DEF SessionsInv
----------------------------------------------------------------------------
(* Where the model's helpers take a thread. *)
LEMMA IdleMoves ==
    ASSUME SessionsInv, NEW t \in Threads, GoIdle(t)
    PROVE  Moves(t, Idle) /\ Idle.at \notin Locked
BY DEF SessionsInv, SessionsTypeOK, GoIdle, Moves, Idle, ThreadState, Places, Placed, Steps, Locked

LEMMA GoMoves ==
    ASSUME SessionsInv, NEW t \in Threads, NEW place \in Places, Go(t, place),
           place \in {"found", "hook"} \cup Steps => thread[t].on # 0,
           place \in {"in", "start", "load", "build", "delete"} \cup Steps =>
               thread[t].run \in Runs
    PROVE  /\ Moves(t, [thread[t] EXCEPT !.at = place])
           /\ [thread[t] EXCEPT !.at = place].at = place
           /\ [thread[t] EXCEPT !.at = place].on = thread[t].on
           /\ [thread[t] EXCEPT !.at = place].how = thread[t].how
<1>1. thread[t] \in ThreadState /\ thread \in [Threads -> ThreadState] /\ Placed(thread[t])
      /\ thread[t].on <= epoch /\ thread[t].new <= epoch
  BY DEF SessionsInv, SessionsTypeOK, UnmadeTold
<1> DEFINE me == [thread[t] EXCEPT !.at = place]
<1>2. me \in ThreadState /\ me.at = place /\ me.on = thread[t].on /\ me.new = thread[t].new
      /\ me.run = thread[t].run /\ me.then = thread[t].then /\ me.op = thread[t].op
      /\ me.how = thread[t].how
  BY <1>1 DEF ThreadState
<1>3. thread' = [thread EXCEPT ![t] = me]
  BY <1>1 DEF Go
<1> HIDE DEF me
<1>4. Placed(me)
  BY <1>1, <1>2 DEF Placed
<1>5. Moves(t, me) /\ me.at = place /\ me.on = thread[t].on /\ me.how = thread[t].how
  BY <1>1, <1>2, <1>3, <1>4 DEF Moves
<1> QED BY <1>5 DEF me

LEMMA GoOnMoves ==
    ASSUME SessionsInv, NEW t \in Threads, GoOn(t), thread[t].on # 0
    PROVE  \E me : Moves(t, me) /\ me.at \notin Locked
<1>1. thread[t] \in ThreadState /\ thread \in [Threads -> ThreadState] /\ Placed(thread[t])
      /\ thread[t].on <= epoch /\ thread[t].new <= epoch
  BY DEF SessionsInv, SessionsTypeOK, UnmadeTold
<1>2. CASE thread[t].then = "idle"
  <2>1. GoIdle(t)  BY <1>2 DEF GoOn
  <2> QED BY <2>1, IdleMoves
<1>3. CASE thread[t].then # "idle"
  <2> DEFINE o == IF thread[t].new # 0 THEN thread[t].new ELSE thread[t].on
             p == thread[t].then
             me == [thread[t] EXCEPT !.at = p, !.then = "idle", !.on = o]
  <2>4. o \in Builds \cup {0} /\ o # 0 /\ o <= epoch
    BY <1>1 DEF ThreadState
  <2>5. p \in Places
    BY <1>1 DEF ThreadState, Places, Steps
  <2>2. thread' = [thread EXCEPT ![t] = me]
    BY <1>1, <1>3 DEF GoOn, ThreadState
  <2>6. p = thread[t].then
    OBVIOUS
  <2> HIDE DEF o, p
  <2>1. me \in ThreadState /\ me.at = thread[t].then /\ me.then = "idle" /\ me.new = thread[t].new
        /\ me.on # 0 /\ me.on <= epoch /\ me.run = thread[t].run /\ me.op = thread[t].op
    BY <1>1, <2>4, <2>5, <2>6 DEF ThreadState
  <2> HIDE DEF me
  <2>3. thread[t].then \in {"load", "delete"} \cup Steps
    BY <1>1, <1>3 DEF ThreadState
  <2>7. Placed(me) /\ me.at \notin Locked
    BY <1>1, <1>3, <2>1, <2>3 DEF Placed, Locked, Steps
  <2> QED BY <1>1, <2>1, <2>2, <2>7 DEF Moves
<1> QED BY <1>2, <1>3

LEMMA LeaveForMoves ==
    ASSUME SessionsInv, NEW t \in Threads, NEW place \in {"idle", "load", "delete"} \cup Steps,
           LeaveFor(t, place), thread[t].on # 0, place # "idle" => thread[t].run \in Runs
    PROVE  \E me : Moves(t, me) /\ me.at = "release" /\ me.on = thread[t].on
<1>1. thread[t] \in ThreadState /\ thread \in [Threads -> ThreadState] /\ Placed(thread[t])
      /\ thread[t].on <= epoch /\ thread[t].new <= epoch
  BY DEF SessionsInv, SessionsTypeOK, UnmadeTold
<1>2. CASE place = "idle" /\ thread[t].op # "create"
  <2> DEFINE me == [Idle EXCEPT !.at = "release", !.on = thread[t].on]
  <2>1. me \in ThreadState /\ me.at = "release" /\ me.on = thread[t].on /\ me.new = 0
        /\ me.then = "idle" /\ me.op = "none"
    BY <1>1 DEF Idle, ThreadState, Places
  <2>2. thread' = [thread EXCEPT ![t] = me]
    BY <1>2 DEF LeaveFor
  <2> HIDE DEF me
  <2>3. Placed(me)  BY <2>1 DEF Placed, Steps
  <2>4. 0 <= epoch  BY DEF SessionsInv, SessionsTypeOK
  <2> QED BY <1>1, <2>1, <2>2, <2>3, <2>4 DEF Moves
<1>3. CASE ~(place = "idle" /\ thread[t].op # "create")
  <2> DEFINE me == [thread[t] EXCEPT !.at = "release", !.how = "none", !.then = place]
  <2>1. me \in ThreadState /\ me.at = "release" /\ me.on = thread[t].on /\ me.new = thread[t].new
        /\ me.then = place /\ me.op = thread[t].op /\ me.run = thread[t].run
    BY <1>1 DEF ThreadState, Places
  <2>2. thread' = [thread EXCEPT ![t] = me]
    BY <1>3 DEF LeaveFor
  <2> HIDE DEF me
  <2>3. Placed(me)  BY <1>1, <2>1 DEF Placed, Steps
  <2> QED BY <1>1, <2>1, <2>2, <2>3 DEF Moves
<1> QED BY <1>2, <1>3

LEMMA LeaveMoves ==
    ASSUME SessionsInv, NEW t \in Threads, thread[t].at \in Locked, Leave(t)
    PROVE  \E me : /\ Moves(t, me)
                   /\ me.at \in Locked => me.on = thread[t].on /\ lock[me.on] = t
                   /\ lock[thread[t].on] = t => me.at \in Locked
<1>1. thread[t] \in ThreadState /\ Placed(thread[t]) /\ thread[t].on # 0
  BY DEF SessionsInv, SessionsTypeOK, LockTold
<1>2. CASE lock[thread[t].on] = t
  <2>1. LeaveFor(t, thread[t].then)  BY <1>2 DEF Leave
  <2>2. thread[t].then \in {"idle", "load", "delete"} \cup Steps  BY <1>1 DEF ThreadState
  <2>3. thread[t].then # "idle" => thread[t].run \in Runs  BY <1>1 DEF Placed
  <2>4. PICK me : Moves(t, me) /\ me.at = "release" /\ me.on = thread[t].on
    BY <1>1, <2>1, <2>2, <2>3, LeaveForMoves
  <2> QED BY <1>2, <2>4 DEF Locked
<1>3. CASE lock[thread[t].on] # t
  BY <1>1, <1>3, GoOnMoves DEF Leave
<1> QED BY <1>2, <1>3

(* A step that leaves, whatever it did to the builds. *)
LEMMA Leaves ==
    ASSUME SessionsInv, NEW t \in Threads, thread[t].at \in Locked, Leave(t), BuildsKept,
           UNCHANGED <<live, lock>>
    PROVE  SessionsInv'
<1>1. PICK me : /\ Moves(t, me)
                /\ me.at \in Locked => me.on = thread[t].on /\ lock[me.on] = t
                /\ lock[thread[t].on] = t => me.at \in Locked
  BY LeaveMoves
<1>2. live' \in [Runs -> Builds \cup {0}] /\ \A r \in Runs : live'[r] \in {live[r], 0}
  BY DEF SessionsInv, SessionsTypeOK
<1> QED BY <1>1, <1>2, ThreadMoves

----------------------------------------------------------------------------
(* Steps that touch no lock, by what they do to the builds. *)
LEMMA NothingBuilt ==
    ASSUME SessionsInv, UNCHANGED <<sess, disk, plays, epoch>>, queued' \subseteq Builds
    PROVE  BuildsKept
BY DEF SessionsInv, SessionsTypeOK, BuildsKept

LEMMA OneBuilt ==
    ASSUME SessionsInv, NEW b \in Builds,
           NEW s \in [run : Runs \cup {0}, mem : SUBSET Plays, dirty : BOOLEAN, ending : BOOLEAN],
           s.run = sess[b].run, sess' = [sess EXCEPT ![b] = s],
           queued' \subseteq Builds, plays' \in 0 .. MaxPlays, UNCHANGED <<disk, epoch>>
    PROVE  BuildsKept
BY DEF SessionsInv, SessionsTypeOK, BuildsKept

(* A step of a thread that works on no build, neither before nor after. *)
LEMMA FreeMoves ==
    ASSUME SessionsInv, NEW t \in Threads, NEW me, Moves(t, me),
           UNCHANGED <<sess, disk, plays, epoch, lock>>, queued' \subseteq Builds,
           live' \in [Runs -> Builds \cup {0}], \A r \in Runs : live'[r] \in {live[r], 0},
           thread[t].at \notin Locked, me.at \notin Locked
    PROVE  SessionsInv'
<1>1. BuildsKept  BY NothingBuilt
<1> QED BY <1>1, ThreadMoves

(* A step of a thread that goes on working on the same build. *)
LEMMA WorkMoves ==
    ASSUME SessionsInv, NEW t \in Threads, thread[t].at \in Locked, BuildsKept,
           UNCHANGED <<live, lock>>,
           NEW place \in Locked \ {"release"}, Go(t, place)
    PROVE  SessionsInv'
<1> DEFINE me == [thread[t] EXCEPT !.at = place]
<1>1. place \in Places /\ place \notin {"found", "hook"} \cup Steps
      /\ place \notin {"in", "start", "load", "build", "delete"} \cup Steps
  BY DEF Locked, Places, Steps
<1>2. Moves(t, me) /\ me.at = place /\ me.on = thread[t].on /\ me.how = thread[t].how
  BY <1>1, GoMoves
<1> HIDE DEF me
<1>3. lock[me.on] = t \/ (me.how = "now" /\ me.at # "release")
  BY <1>2 DEF SessionsInv, LockTold
<1>4. live' \in [Runs -> Builds \cup {0}] /\ \A r \in Runs : live'[r] \in {live[r], 0}
  BY DEF SessionsInv, SessionsTypeOK
<1> QED BY <1>2, <1>3, <1>4, ThreadMoves

----------------------------------------------------------------------------
(* The actions, one by one. *)
LEMMA LetInStep ==
    ASSUME SessionsInv, NEW t \in Threads, NEW r \in Runs,
           NEW op \in {"turn", "action", "write", "create", "resume"}, LetIn(t, r, op)
    PROVE  SessionsInv'
<1> DEFINE me == [Idle EXCEPT !.at = "in", !.op = op, !.run = r]
<1>1. me \in ThreadState /\ me.at = "in" /\ me.on = 0 /\ me.new = 0 /\ me.run = r
      /\ me.then = "idle" /\ me.op = op
  BY DEF Idle, ThreadState, Places
<1>2. thread' = [thread EXCEPT ![t] = me]
  BY DEF LetIn
<1> HIDE DEF me
<1>3. 0 <= epoch  BY DEF SessionsInv, SessionsTypeOK
<1>4. Moves(t, me)
  BY <1>1, <1>2, <1>3 DEF Moves, Placed, Steps
<1>5. thread[t].at \notin Locked /\ me.at \notin Locked
  BY <1>1 DEF LetIn, Locked
<1>6. queued' \subseteq Builds /\ live' \in [Runs -> Builds \cup {0}] /\ \A q \in Runs : live'[q] \in {live[q], 0}
  BY DEF LetIn, SessionsInv, SessionsTypeOK
<1> QED BY <1>4, <1>5, <1>6, FreeMoves DEF LetIn

(* What a step of FreeMoves leaves alone. *)
LEMMA StoreKept ==
    ASSUME SessionsInv, UNCHANGED <<live, epoch, sess, lock, queued, disk, open, plays, admin>>
    PROVE  /\ queued' \subseteq Builds
           /\ live' \in [Runs -> Builds \cup {0}]
           /\ \A r \in Runs : live'[r] \in {live[r], 0}
           /\ BuildsKept
BY NothingBuilt DEF SessionsInv, SessionsTypeOK

(* A thread that gives its request up. *)
LEMMA GivesUp ==
    ASSUME SessionsInv, NEW t \in Threads, GoIdle(t), thread[t].at \notin Locked,
           UNCHANGED <<live, epoch, sess, lock, queued, disk, open, plays, admin>>
    PROVE  SessionsInv'
<1>1. Moves(t, Idle) /\ Idle.at \notin Locked
  BY IdleMoves
<1> QED BY <1>1, StoreKept, FreeMoves

LEMMA GoesTo ==
    ASSUME SessionsInv, NEW t \in Threads, NEW place \in Places \ Locked, Go(t, place),
           thread[t].at \notin Locked,
           place \in {"found", "hook"} \cup Steps => thread[t].on # 0,
           place \in {"in", "start", "load", "build", "delete"} \cup Steps =>
               thread[t].run \in Runs,
           UNCHANGED <<live, epoch, sess, lock, queued, disk, open, plays, admin>>
    PROVE  SessionsInv'
<1> DEFINE me == [thread[t] EXCEPT !.at = place]
<1>1. Moves(t, me) /\ me.at = place
  BY GoMoves
<1> HIDE DEF me
<1> QED BY <1>1, StoreKept, FreeMoves

LEMMA FindRunStep ==
    ASSUME SessionsInv, NEW t \in Threads, FindRun(t)
    PROVE  SessionsInv'
<1> DEFINE b == live[thread[t].run]
<1>1. thread[t] \in ThreadState /\ thread \in [Threads -> ThreadState] /\ Placed(thread[t])
      /\ thread[t].on <= epoch /\ thread[t].new <= epoch
  BY DEF SessionsInv, SessionsTypeOK, UnmadeTold
<1>2. thread[t].run \in Runs /\ thread[t].at \notin Locked
  BY <1>1 DEF FindRun, Placed, Locked
<1>3. CASE b = 0
  BY <1>2, <1>3, GivesUp DEF FindRun
<1>4. CASE b # 0
  <2> DEFINE me == [thread[t] EXCEPT !.at = "found", !.on = b]
  <2>1. b \in Builds /\ b <= epoch
    BY <1>2, <1>4 DEF SessionsInv, SessionsTypeOK, LiveTold
  <2>2. thread' = [thread EXCEPT ![t] = me]
    BY <1>1, <1>4 DEF FindRun
  <2> HIDE DEF b
  <2>3. me \in ThreadState /\ me.at = "found" /\ me.on = b /\ me.new = thread[t].new
        /\ me.run = thread[t].run /\ me.then = thread[t].then /\ me.op = thread[t].op
    BY <1>1, <2>1 DEF ThreadState, Places
  <2> HIDE DEF me
  <2>4. Moves(t, me)
    BY <1>1, <1>2, <1>4, <2>1, <2>2, <2>3 DEF Moves, Placed, Steps
  <2>5. me.at \notin Locked
    BY <2>3 DEF Locked
  <2> QED BY <1>2, <2>4, <2>5, StoreKept, FreeMoves DEF FindRun
<1> QED BY <1>3, <1>4

LEMMA FirstLookStep ==
    ASSUME SessionsInv, NEW t \in Threads, FirstLook(t)
    PROVE  SessionsInv'
<1>1. Placed(thread[t])
  BY DEF SessionsInv
<1>2. thread[t].run \in Runs /\ thread[t].at \notin Locked
  BY <1>1 DEF FirstLook, Placed, Locked
<1>3. CASE OwnerBusy
  BY <1>2, <1>3, GivesUp DEF FirstLook
<1>4. CASE ~OwnerBusy
  <2> DEFINE place == IF thread[t].op = "create" THEN "build" ELSE IF phone THEN "start" ELSE "load"
  <2>1. place \in {"build", "start", "load"}
    OBVIOUS
  <2>2. Go(t, place)
    BY <1>4 DEF FirstLook
  <2> HIDE DEF place
  <2>3. place \in Places \ Locked /\ place \notin {"found", "hook"} \cup Steps
    BY <2>1 DEF Places, Locked, Steps
  <2> QED BY <1>2, <2>2, <2>3, GoesTo DEF FirstLook
<1> QED BY <1>3, <1>4

LEMMA TakeLockStep ==
    ASSUME SessionsInv, NEW t \in Threads, TakeLock(t)
    PROVE  SessionsInv'
<1> DEFINE b == thread[t].on
<1>1. thread[t] \in ThreadState /\ thread \in [Threads -> ThreadState] /\ Placed(thread[t])
      /\ thread[t].on <= epoch /\ thread[t].new <= epoch
  BY DEF SessionsInv, SessionsTypeOK, UnmadeTold
<1>2. thread[t].at \notin Locked /\ thread[t].at = "found" /\ b # 0 /\ b \in Builds /\ b <= epoch
  BY <1>1 DEF TakeLock, Locked, Placed, ThreadState
<1>3. \E me : Moves(t, me) /\ me.at \in Locked /\ me.on = b
  <2>1. CASE thread[t].op \in {"saving", "flushing"} /\ ~sess[b].dirty
    <3>1. LeaveFor(t, "idle")
      BY <2>1 DEF TakeLock
    <3>2. PICK me : Moves(t, me) /\ me.at = "release" /\ me.on = thread[t].on
      BY <1>2, <3>1, LeaveForMoves
    <3> QED BY <3>2 DEF Locked
  <2>2. CASE ~(thread[t].op \in {"saving", "flushing"} /\ ~sess[b].dirty)
    <3> DEFINE place == Begins(thread[t].op)
               save == SaveOf(thread[t].op)
               me == [thread[t] EXCEPT !.at = place, !.how = save]
    <3>1. place \in {"playing", "checking"} /\ save \in {"none", "autosave", "owner", "now"}
      BY DEF Begins, SaveOf
    <3>2. thread' = [thread EXCEPT ![t] = me]
      BY <1>1, <2>2 DEF TakeLock
    <3> HIDE DEF place, save
    <3>5. place \in Places
      BY <3>1 DEF Places
    <3>3. me \in ThreadState /\ me.at = place /\ me.on = b /\ me.new = thread[t].new
          /\ me.run = thread[t].run /\ me.then = thread[t].then /\ me.op = thread[t].op
      BY <1>1, <3>1, <3>5 DEF ThreadState
    <3> HIDE DEF me
    <3>4. Placed(me) /\ me.at \in Locked
      BY <1>1, <3>1, <3>3 DEF Placed, Steps, Locked
    <3> QED BY <1>1, <3>2, <3>3, <3>4 DEF Moves
  <2> QED BY <2>1, <2>2
<1>4. lock[b] = Free /\ lock' = [lock EXCEPT ![b] = t]
  BY DEF TakeLock
<1>5. BuildsKept /\ UNCHANGED live
  BY NothingBuilt DEF TakeLock, SessionsInv, SessionsTypeOK
<1> HIDE DEF b
<1> QED BY <1>2, <1>3, <1>4, <1>5, LockMoves

LEMMA LockTakenStep ==
    ASSUME SessionsInv, NEW t \in Threads, LockTaken(t)
    PROVE  SessionsInv'
<1>1. Moves(t, Idle) /\ Idle.at \notin Locked
  BY IdleMoves DEF LockTaken
<1>2. thread[t].at \notin Locked
  BY DEF LockTaken, Locked
<1>3. queued' \subseteq Builds /\ live' \in [Runs -> Builds \cup {0}] /\ \A r \in Runs : live'[r] \in {live[r], 0}
  BY DEF LockTaken, IsLive, SessionsInv, SessionsTypeOK
<1> QED BY <1>1, <1>2, <1>3, FreeMoves DEF LockTaken

LEMMA ReleaseTurnStep ==
    ASSUME SessionsInv, NEW t \in Threads, ReleaseTurn(t)
    PROVE  SessionsInv'
<1> DEFINE b == thread[t].on
           me == [thread[t] EXCEPT !.at = "hook"]
<1>1. thread[t] \in ThreadState /\ b \in Builds /\ lock[b] = t
  BY DEF ReleaseTurn, SessionsInv, SessionsTypeOK, ThreadState, LockTold, Locked
<1>2. Moves(t, me) /\ me.at = "hook"
  <2>1. Go(t, "hook") /\ "hook" \in Places
        /\ "hook" \notin {"in", "start", "load", "build", "delete"} \cup Steps
    BY DEF ReleaseTurn, Places, Steps
  <2>2. thread[t].on # 0
    BY <1>1
  <2> HIDE DEF b
  <2> QED BY <2>1, <2>2, GoMoves
<1> HIDE DEF me
<1>3. lock' = [lock EXCEPT ![b] = Free] /\ BuildsKept /\ UNCHANGED <<live, epoch, sess>>
  BY NothingBuilt DEF ReleaseTurn, SessionsInv, SessionsTypeOK
<1>4. thread'[t] = me /\ \A u \in Threads : u # t => thread'[u] = thread[u]
  BY <1>2 DEF SessionsInv, SessionsTypeOK, Moves
<1>5. lock'[b] = Free /\ \A c \in Builds : c # b => lock'[c] = lock[c]
  BY <1>1, <1>3 DEF SessionsInv, SessionsTypeOK
<1>6. \A u \in Threads : u # t /\ thread[u].at \in Locked => thread[u].on \in Builds /\ thread[u].on # b
  BY <1>1 DEF SessionsInv, SessionsTypeOK, ThreadState, LockTold, OneAtATime, ReleaseTurn, Locked
<1> HIDE DEF b
<1>7. SessionsTypeOK'
  BY <1>1, <1>2, <1>3 DEF SessionsInv, SessionsTypeOK, Moves, BuildsKept
<1>8. LiveTold' /\ UnmadeTold'
  BY <1>1, <1>2, <1>3, <1>4, <1>5 DEF SessionsInv, SessionsTypeOK, LiveTold, UnmadeTold, Moves
<1>9. LockTold'
  <2> SUFFICES ASSUME NEW u \in Threads
               PROVE  /\ \A c \in Builds : lock'[c] = u => thread'[u].on = c /\ thread'[u].at \in Locked
                      /\ thread'[u].at \in Locked =>
                            /\ thread'[u].on # 0
                            /\ \/ lock'[thread'[u].on] = u
                               \/ /\ lock'[thread'[u].on] = Kept
                                  /\ thread'[u].how = "now" /\ thread'[u].at # "release"
    BY DEF LockTold
  <2>1. CASE u = t
    <3>1. \A c \in Builds : lock[c] = t => c = b
      BY <1>1 DEF SessionsInv, LockTold
    <3> QED BY <1>2, <1>4, <1>5, <2>1, <3>1 DEF Locked
  <2>2. CASE u # t
    BY <1>4, <1>5, <1>6, <2>2 DEF SessionsInv, LockTold
  <2> QED BY <2>1, <2>2
<1>10. OneAtATime'
  BY <1>2, <1>4 DEF SessionsInv, OneAtATime, Locked
<1>11. \A u \in Threads : Placed(thread[u])'
  BY <1>2, <1>4 DEF SessionsInv, Moves, Placed
<1> QED BY <1>7, <1>8, <1>9, <1>10, <1>11 DEF SessionsInv

LEMMA AfterTurnStep ==
    ASSUME SessionsInv, NEW t \in Threads, AfterTurn(t)
    PROVE  SessionsInv'
<1> DEFINE r == sess[thread[t].on].run
<1>1. thread[t] \in ThreadState /\ Placed(thread[t]) /\ thread[t].on <= epoch
  BY DEF SessionsInv, SessionsTypeOK, UnmadeTold
<1>2. thread[t].on # 0 /\ thread[t].on \in Builds /\ thread[t].at \notin Locked
  BY <1>1 DEF AfterTurn, Placed, ThreadState, Locked
<1>3. r \in Runs
  BY <1>1, <1>2 DEF SessionsInv, UnmadeTold
<1>4. PICK me : Moves(t, me) /\ me.at \notin Locked
  BY <1>2, GoOnMoves DEF AfterTurn
<1>5. queued' \subseteq Builds
  BY DEF AfterTurn, End, SessionsInv, SessionsTypeOK
<1>6. BuildsKept
  BY <1>5, NothingBuilt DEF AfterTurn
<1>7. CASE sess[thread[t].on].ending /\ CanEnd(r)
  <2>1. CanEnd(r) /\ End(r)
    BY <1>7 DEF AfterTurn
  <2> HIDE DEF r
  <2> QED BY <1>2, <1>3, <1>4, <1>6, <2>1, EndMoves DEF End
<1>8. CASE ~(sess[thread[t].on].ending /\ CanEnd(r))
  <2>1. UNCHANGED <<live, lock, queued>>
    BY <1>8 DEF AfterTurn
  <2> QED BY <1>2, <1>4, <2>1, StoreKept, FreeMoves DEF AfterTurn
<1> QED BY <1>7, <1>8

(* Under a lock: what is worked on is a build. *)
LEMMA WorksOn ==
    ASSUME SessionsInv, NEW t \in Threads, thread[t].at \in Locked
    PROVE  /\ thread[t] \in ThreadState /\ Placed(thread[t])
           /\ thread[t].on \in Builds /\ thread[t].on # 0
           /\ sess[thread[t].on] \in [run : Runs \cup {0}, mem : SUBSET Plays,
                                      dirty : BOOLEAN, ending : BOOLEAN]
           /\ sess \in [Builds -> [run : Runs \cup {0}, mem : SUBSET Plays,
                                   dirty : BOOLEAN, ending : BOOLEAN]]
BY DEF SessionsInv, SessionsTypeOK, LockTold, ThreadState

LEMMA LeavesFor ==
    ASSUME SessionsInv, NEW t \in Threads, thread[t].at \in Locked, lock[thread[t].on] = t,
           NEW place \in {"idle", "load", "delete"} \cup Steps, LeaveFor(t, place),
           place # "idle" => thread[t].run \in Runs, BuildsKept, UNCHANGED <<live, lock>>
    PROVE  SessionsInv'
<1>1. PICK me : Moves(t, me) /\ me.at = "release" /\ me.on = thread[t].on
  BY WorksOn, LeaveForMoves
<1>2. live' \in [Runs -> Builds \cup {0}] /\ \A r \in Runs : live'[r] \in {live[r], 0}
  BY DEF SessionsInv, SessionsTypeOK
<1> QED BY <1>1, <1>2, ThreadMoves DEF Locked

(* A play changes what its build remembers. *)
LEMMA PlayedKeeps ==
    ASSUME SessionsInv, NEW t \in Threads, thread[t].at \in Locked, Played(t),
           UNCHANGED <<queued, disk, epoch>>
    PROVE  BuildsKept
<1> DEFINE b == thread[t].on
           s == [sess[b] EXCEPT !.mem = sess[b].mem \cup {plays + 1}]
<1>1. plays + 1 \in Plays /\ plays' \in 0 .. MaxPlays
  BY DEF SessionsInv, SessionsTypeOK, Played, Plays
<1>2. s \in [run : Runs \cup {0}, mem : SUBSET Plays, dirty : BOOLEAN, ending : BOOLEAN]
      /\ s.run = sess[b].run
  BY <1>1, WorksOn
<1>3. sess' = [sess EXCEPT ![b] = s]
  BY WorksOn DEF Played
<1>4. queued' \subseteq Builds /\ b \in Builds
  BY WorksOn DEF SessionsInv, SessionsTypeOK
<1> HIDE DEF b, s
<1> QED BY <1>1, <1>2, <1>3, <1>4, OneBuilt

LEMMA PlayStep ==
    ASSUME SessionsInv, NEW t \in Threads, PlayTurn(t) \/ PlayAndSave(t)
    PROVE  SessionsInv'
<1>1. thread[t].at \in Locked /\ Go(t, "checking") /\ "checking" \in Locked \ {"release"}
  BY DEF PlayTurn, PlayAndSave, Locked
<1>2. BuildsKept
  BY <1>1, PlayedKeeps DEF PlayTurn, PlayAndSave
<1> QED BY <1>1, <1>2, WorkMoves DEF PlayTurn, PlayAndSave

LEMMA PlayAndMarkStep ==
    ASSUME SessionsInv, NEW t \in Threads, PlayAndMark(t)
    PROVE  SessionsInv'
<1> DEFINE b == thread[t].on
           s == [sess[b] EXCEPT !.mem = sess[b].mem \cup {plays + 1}, !.dirty = TRUE]
<1>1. thread[t].at \in Locked /\ Go(t, "marking") /\ "marking" \in Locked \ {"release"}
  BY DEF PlayAndMark, Locked
<1>2. plays + 1 \in Plays /\ plays' \in 0 .. MaxPlays
  BY DEF SessionsInv, SessionsTypeOK, PlayAndMark, Plays
<1>3. s \in [run : Runs \cup {0}, mem : SUBSET Plays, dirty : BOOLEAN, ending : BOOLEAN]
      /\ s.run = sess[b].run
  BY <1>1, <1>2, WorksOn
<1>4. sess' = [sess EXCEPT ![b] = s]
  BY <1>1, WorksOn DEF PlayAndMark
<1>5. queued' \subseteq Builds /\ b \in Builds
  BY <1>1, WorksOn DEF PlayAndMark, SessionsInv, SessionsTypeOK
<1> HIDE DEF b, s
<1>6. BuildsKept
  BY <1>2, <1>3, <1>4, <1>5, OneBuilt DEF PlayAndMark
<1> QED BY <1>1, <1>6, WorkMoves DEF PlayAndMark

LEMMA LeavingStep ==
    ASSUME SessionsInv, NEW t \in Threads, NotPlayed(t) \/ Mark(t)
    PROVE  SessionsInv'
<1>1. thread[t].at \in Locked /\ Leave(t)
  BY DEF NotPlayed, Mark, Locked
<1>2. queued' \subseteq Builds
  BY DEF NotPlayed, Mark, IsLive, SessionsInv, SessionsTypeOK
<1>3. BuildsKept
  BY <1>2, NothingBuilt DEF NotPlayed, Mark
<1> QED BY <1>1, <1>3, Leaves DEF NotPlayed, Mark

(* The dirty mark, set or taken off. *)
LEMMA DirtyKeeps ==
    ASSUME SessionsInv, NEW b \in Builds, NEW d \in BOOLEAN,
           \/ UNCHANGED sess
           \/ sess' = [sess EXCEPT ![b].dirty = d],
           UNCHANGED <<queued, disk, epoch, plays>>
    PROVE  BuildsKept
<1> DEFINE s == [sess[b] EXCEPT !.dirty = d]
<1>1. sess \in [Builds -> [run : Runs \cup {0}, mem : SUBSET Plays, dirty : BOOLEAN, ending : BOOLEAN]]
      /\ queued' \subseteq Builds /\ plays' \in 0 .. MaxPlays
  BY DEF SessionsInv, SessionsTypeOK
<1>2. s \in [run : Runs \cup {0}, mem : SUBSET Plays, dirty : BOOLEAN, ending : BOOLEAN]
      /\ s.run = sess[b].run
  BY <1>1
<1>3. CASE UNCHANGED sess
  BY <1>1, <1>3, NothingBuilt
<1>4. CASE sess' = [sess EXCEPT ![b].dirty = d]
  <2>1. sess' = [sess EXCEPT ![b] = s]
    BY <1>1, <1>4
  <2> HIDE DEF s
  <2> QED BY <1>1, <1>2, <2>1, OneBuilt
<1> QED BY <1>3, <1>4

LEMMA CheckSaveStep ==
    ASSUME SessionsInv, NEW t \in Threads, CheckSave(t)
    PROVE  SessionsInv'
<1>1. thread[t].at \in Locked /\ Go(t, "writing") /\ "writing" \in Locked \ {"release"}
  BY DEF CheckSave, Locked
<1>2. BuildsKept
  BY <1>1, WorksOn, DirtyKeeps DEF CheckSave
<1> QED BY <1>1, <1>2, WorkMoves DEF CheckSave

LEMMA SaveRefusedStep ==
    ASSUME SessionsInv, NEW t \in Threads, SaveRefused(t)
    PROVE  SessionsInv'
<1>1. thread[t].at \in Locked
  BY DEF SaveRefused, Locked
<1>2. BuildsKept /\ UNCHANGED <<live, lock>>
  BY StoreKept DEF SaveRefused
<1>3. CASE thread[t].op = "create" /\ thread[t].how = "owner"
  <2>1. LeaveFor(t, "delete")
    BY <1>3 DEF SaveRefused
  <2>2. lock[thread[t].on] = t /\ thread[t].run \in Runs
    BY <1>1, <1>3, WorksOn DEF SessionsInv, LockTold, Placed
  <2> QED BY <1>1, <1>2, <2>1, <2>2, LeavesFor
<1>4. CASE ~(thread[t].op = "create" /\ thread[t].how = "owner")
  BY <1>1, <1>2, <1>4, Leaves DEF SaveRefused
<1> QED BY <1>3, <1>4

LEMMA WriteSaveStep ==
    ASSUME SessionsInv, NEW t \in Threads, WriteSave(t)
    PROVE  SessionsInv'
<1>1. thread[t].at \in Locked
  BY DEF WriteSave, Locked
<1>2. sess[thread[t].on].mem \in SUBSET Plays
  BY <1>1, WorksOn
<1>3. BuildsKept /\ UNCHANGED <<live, lock>>
  BY <1>2 DEF WriteSave, SessionsInv, SessionsTypeOK, BuildsKept
<1>4. CASE thread[t].op = "turn" /\ phone
  <2>1. Go(t, "after") /\ "after" \in Locked \ {"release"}
    BY <1>4 DEF WriteSave, Locked
  <2> QED BY <1>1, <1>3, <2>1, WorkMoves
<1>5. CASE ~(thread[t].op = "turn" /\ phone)
  BY <1>1, <1>3, <1>5, Leaves DEF WriteSave
<1> QED BY <1>4, <1>5

LEMMA SaveFailsStep ==
    ASSUME SessionsInv, NEW t \in Threads, SaveFails(t)
    PROVE  SessionsInv'
<1>1. thread[t].at \in Locked
  BY DEF SaveFails, Locked
<1>2. BuildsKept /\ UNCHANGED <<live, lock>>
  BY <1>1, WorksOn, DirtyKeeps DEF SaveFails
<1>3. CASE thread[t].how = "now"
  <2>1. Go(t, "marking") /\ "marking" \in Locked \ {"release"}
    BY <1>3 DEF SaveFails, Locked
  <2> QED BY <1>1, <1>2, <2>1, WorkMoves
<1>4. CASE thread[t].how # "now" /\ thread[t].op = "create"
  <2>1. LeaveFor(t, "delete")
    BY <1>4 DEF SaveFails
  <2>2. lock[thread[t].on] = t /\ thread[t].run \in Runs
    BY <1>1, <1>4, WorksOn DEF SessionsInv, LockTold, Placed
  <2> QED BY <1>1, <1>2, <2>1, <2>2, LeavesFor
<1>5. CASE thread[t].how # "now" /\ thread[t].op # "create"
  <2>1. Leave(t)
    BY <1>5 DEF SaveFails
  <2> QED BY <1>1, <1>2, <2>1, Leaves
<1> QED BY <1>3, <1>4, <1>5

(* A thread takes a free lock and has a record of its own that says so. *)
LEMMA LocksAs ==
    ASSUME SessionsInv, NEW t \in Threads, NEW b \in Builds, b <= epoch, lock[b] = Free,
           thread[t].at \notin Locked, thread[t].run \in Runs,
           NEW place \in Locked, NEW save \in {"none", "autosave", "owner", "now"},
           NEW next \in {"idle", "load", "delete"} \cup Steps,
           thread' = [thread EXCEPT ![t].at = place, ![t].on = b, ![t].how = save, ![t].then = next],
           BuildsKept, UNCHANGED live, lock' = [lock EXCEPT ![b] = t]
    PROVE  SessionsInv'
<1> DEFINE me == [thread[t] EXCEPT !.at = place, !.on = b, !.how = save, !.then = next]
<1>1. thread[t] \in ThreadState /\ thread \in [Threads -> ThreadState]
      /\ thread[t].on <= epoch /\ thread[t].new <= epoch
  BY DEF SessionsInv, SessionsTypeOK, UnmadeTold
<1>2. place \in Places /\ place \notin {"in", "start", "load", "build", "delete", "found", "hook"} \cup Steps
  BY DEF Locked, Places, Steps
<1>3. me \in ThreadState /\ me.at = place /\ me.on = b /\ me.new = thread[t].new
      /\ me.run = thread[t].run /\ me.then = next /\ me.op = thread[t].op
  BY <1>1, <1>2 DEF ThreadState
<1>4. thread' = [thread EXCEPT ![t] = me]
  BY <1>1
<1> HIDE DEF me
<1>5. Moves(t, me) /\ me.at \in Locked
  BY <1>1, <1>2, <1>3, <1>4 DEF Moves, Placed
<1> QED BY <1>3, <1>5, LockMoves

LEMMA FlushBeforeLoadStep ==
    ASSUME SessionsInv, NEW t \in Threads, FlushBeforeLoad(t)
    PROVE  SessionsInv'
<1> DEFINE b == live[thread[t].run]
<1>1. thread[t].run \in Runs /\ thread[t].at \notin Locked
  BY DEF FlushBeforeLoad, SessionsInv, Placed, Locked
<1>2. CASE b # 0 /\ lock[b] = Free
  <2> DEFINE place == IF sess[b].dirty THEN "checking" ELSE "release"
  <2>1. b \in Builds /\ b <= epoch /\ BuildsKept /\ UNCHANGED live
    BY <1>1, <1>2, NothingBuilt DEF FlushBeforeLoad, SessionsInv, SessionsTypeOK, LiveTold
  <2>2. place \in Locked
    BY DEF Locked
  <2>3. thread' = [thread EXCEPT ![t].at = place, ![t].on = b, ![t].how = "now", ![t].then = "load"]
        /\ lock' = [lock EXCEPT ![b] = t]
    BY <1>2 DEF FlushBeforeLoad
  <2>4. lock[b] = Free
    BY <1>2
  <2> HIDE DEF b, place
  <2> QED BY <1>1, <2>1, <2>2, <2>3, <2>4, LocksAs
<1>3. CASE ~(b # 0 /\ lock[b] = Free)
  <2>1. Go(t, "load") /\ UNCHANGED lock
    BY <1>3 DEF FlushBeforeLoad
  <2>2. "load" \in Places \ Locked /\ "load" \notin {"found", "hook"} \cup Steps
    BY DEF Places, Locked, Steps
  <2> QED BY <1>1, <2>1, <2>2, GoesTo DEF FlushBeforeLoad
<1> QED BY <1>2, <1>3

LEMMA LoadStep ==
    ASSUME SessionsInv, NEW t \in Threads, Load(t)
    PROVE  SessionsInv'
<1> DEFINE saved == disk[thread[t].run]
<1>1. thread[t] \in ThreadState /\ thread \in [Threads -> ThreadState] /\ Placed(thread[t])
      /\ thread[t].on <= epoch /\ thread[t].new <= epoch
  BY DEF SessionsInv, SessionsTypeOK, UnmadeTold
<1>2. thread[t].run \in Runs /\ thread[t].at \notin Locked
  BY <1>1 DEF Load, Placed, Locked
<1>3. CASE saved = NoSave
  BY <1>2, <1>3, GivesUp DEF Load
<1>4. CASE saved # NoSave
  <2> DEFINE me == [thread[t] EXCEPT !.at = "build", !.got = saved]
  <2>1. saved \in SUBSET Plays
    BY <1>2, <1>4 DEF SessionsInv, SessionsTypeOK
  <2>2. thread' = [thread EXCEPT ![t] = me]
    BY <1>1, <1>4 DEF Load
  <2> HIDE DEF saved
  <2>3. me \in ThreadState /\ me.at = "build" /\ me.on = thread[t].on /\ me.new = thread[t].new
        /\ me.run = thread[t].run /\ me.then = thread[t].then /\ me.op = thread[t].op
    BY <1>1, <2>1 DEF ThreadState, Places
  <2> HIDE DEF me
  <2>4. Moves(t, me) /\ me.at \notin Locked
    BY <1>1, <1>2, <2>2, <2>3 DEF Moves, Placed, Steps, Locked
  <2> QED BY <1>2, <2>4, StoreKept, FreeMoves DEF Load
<1> QED BY <1>3, <1>4

LEMMA BuildRefusedStep ==
    ASSUME SessionsInv, NEW t \in Threads, BuildRefused(t)
    PROVE  SessionsInv'
BY GivesUp DEF BuildRefused, Locked

LEMMA StepTakenStep ==
    ASSUME SessionsInv, NEW t \in Threads, StepTaken(t)
    PROVE  SessionsInv'
<1> DEFINE b == thread[t].on
           step == thread[t].at
<1>1. thread[t] \in ThreadState /\ thread \in [Threads -> ThreadState] /\ Placed(thread[t])
      /\ b <= epoch
  BY DEF SessionsInv, SessionsTypeOK, UnmadeTold
<1>2. step \in Steps /\ step \notin Locked
  BY DEF StepTaken, Steps, Locked
<1>3. thread[t].run \in Runs /\ b \in Builds /\ b # 0
  BY <1>1, <1>2 DEF Placed, ThreadState
<1>4. lock[b] = Free /\ lock' = [lock EXCEPT ![b] = t] /\ UNCHANGED live
  BY DEF StepTaken
<1>5. BuildsKept
  BY <1>3, DirtyKeeps DEF StepTaken
<1>6. CASE LeaveFor(t, NextStep[step])
  <2> DEFINE next == NextStep[step]
  <2>1. next \in {"idle", "load", "delete"} \cup Steps
    BY <1>2 DEF NextStep, Steps
  <2> HIDE DEF next
  <2>2. PICK me : Moves(t, me) /\ me.at = "release" /\ me.on = b
    BY <1>3, <1>6, <2>1, LeaveForMoves DEF next
  <2>3. me.at \in Locked
    BY <2>2 DEF Locked
  <2> HIDE DEF b, step
  <2> QED BY <1>1, <1>2, <1>3, <1>4, <1>5, <2>2, <2>3, LockMoves DEF step
<1>7. CASE \E place \in {"checking", "marking"}, save \in {"none", "autosave", "owner", "now"},
              next \in {"idle", "media"} :
              thread' = [thread EXCEPT ![t].at = place, ![t].how = save, ![t].then = next]
  <2>1. PICK place \in {"checking", "marking"}, save \in {"none", "autosave", "owner", "now"},
             next \in {"idle", "media"} :
             thread' = [thread EXCEPT ![t].at = place, ![t].how = save, ![t].then = next]
    BY <1>7
  <2>2. thread' = [thread EXCEPT ![t].at = place, ![t].on = b, ![t].how = save, ![t].then = next]
    BY <1>1, <2>1 DEF ThreadState
  <2>3. place \in Locked /\ next \in {"idle", "load", "delete"} \cup Steps
    BY DEF Locked, Steps
  <2>4. thread[t].at \notin Locked
    BY <1>2
  <2> HIDE DEF b, step
  <2> QED BY <1>1, <1>3, <1>4, <1>5, <2>2, <2>3, <2>4, LocksAs
<1>8. \/ LeaveFor(t, NextStep[step])
      \/ thread' = [thread EXCEPT ![t].at = "checking", ![t].how = "owner", ![t].then = "idle"]
      \/ thread' = [thread EXCEPT ![t].at = "checking", ![t].how = "now", ![t].then = "media"]
      \/ thread' = [thread EXCEPT ![t].at = "marking", ![t].then = "media"]
  BY DEF StepTaken
<1>9. ASSUME thread' = [thread EXCEPT ![t].at = "marking", ![t].then = "media"]
      PROVE  \E save \in {"none", "autosave", "owner", "now"} :
                thread' = [thread EXCEPT ![t].at = "marking", ![t].how = save, ![t].then = "media"]
  <2>1. thread[t].how \in {"none", "autosave", "owner", "now"}
    BY <1>1 DEF ThreadState
  <2>2. thread' = [thread EXCEPT ![t].at = "marking", ![t].how = thread[t].how, ![t].then = "media"]
    BY <1>1, <1>9 DEF ThreadState
  <2> QED BY <2>1, <2>2
<1> QED BY <1>6, <1>7, <1>8, <1>9

LEMMA StepSkippedStep ==
    ASSUME SessionsInv, NEW t \in Threads, StepSkipped(t)
    PROVE  SessionsInv'
<1>1. Placed(thread[t])
  BY DEF SessionsInv
<1>2. thread[t].run \in Runs /\ thread[t].on # 0 /\ thread[t].at \in Steps /\ thread[t].at \notin Locked
  BY <1>1 DEF StepSkipped, Placed, Steps, Locked
<1>3. CASE GoIdle(t)
  BY <1>2, <1>3, GivesUp DEF StepSkipped
<1>4. ASSUME NEW place \in {"delete", "first", "media"}, Go(t, place)
      PROVE  SessionsInv'
  <2>1. place \in Places \ Locked
    BY DEF Places, Locked
  <2> QED BY <1>2, <1>4, <2>1, GoesTo DEF StepSkipped
<1>5. NextStep[thread[t].at] \in {"idle", "first", "media"}
  BY <1>2 DEF NextStep, Steps
<1> QED BY <1>3, <1>4, <1>5 DEF StepSkipped, Skip

LEMMA DeleteStep ==
    ASSUME SessionsInv, NEW t \in Threads, Delete(t)
    PROVE  SessionsInv'
<1>1. Moves(t, Idle) /\ Idle.at \notin Locked
  BY IdleMoves DEF Delete
<1>2. thread[t].at \notin Locked
  BY DEF Delete, Locked
<1>3. queued' \subseteq Builds /\ live' \in [Runs -> Builds \cup {0}] /\ \A r \in Runs : live'[r] \in {live[r], 0}
  BY DEF Delete, SessionsInv, SessionsTypeOK
<1> QED BY <1>1, <1>2, <1>3, FreeMoves DEF Delete

LEMMA BuildStep ==
    ASSUME SessionsInv, NEW t \in Threads, Build(t)
    PROVE  SessionsInv'
<1> DEFINE old == LiveBuilds
           b == epoch + 1
           run == thread[t].run
           next == IF thread[t].op = "create" THEN "stamp" ELSE "away"
           plain == [thread[t] EXCEPT !.at = next, !.on = b, !.new = b, !.got = {}]
           made == [Unbuilt EXCEPT !.run = run, !.mem = thread[t].got]
           me == IF phone /\ \E o \in old : sess[o].dirty
                 THEN [plain EXCEPT !.at = "checking", !.how = "now", !.then = plain.at,
                                    !.on = CHOOSE o \in old : sess[o].dirty]
                 ELSE plain
<1>1. thread[t] \in ThreadState /\ thread \in [Threads -> ThreadState] /\ Placed(thread[t])
      /\ thread[t].on <= epoch /\ thread[t].new <= epoch /\ epoch \in Nat
  BY DEF SessionsInv, SessionsTypeOK, UnmadeTold
<1>2. run \in Runs /\ b \in Builds /\ b # 0 /\ thread[t].at \notin Locked
  BY <1>1 DEF Build, Placed, Locked
<1>3. \A o \in old : o \in Builds /\ o <= epoch /\ o # b /\ lock[o] = Free
  BY <1>1 DEF LiveBuilds, OwnerBusy, Build, SessionsInv, SessionsTypeOK, LiveTold
<1>4. next \in {"stamp", "away"} /\ next \in Places
  BY DEF Places
<1>5. plain \in ThreadState /\ plain.at = next /\ plain.on = b /\ plain.new = b
      /\ plain.run = run /\ plain.then = thread[t].then /\ plain.op = thread[t].op
  BY <1>1, <1>2, <1>4 DEF ThreadState
<1>6. made \in [run : Runs \cup {0}, mem : SUBSET Plays, dirty : BOOLEAN, ending : BOOLEAN]
      /\ made.run = run
  BY <1>1, <1>2 DEF Unbuilt, ThreadState
<1>7. thread' = [thread EXCEPT ![t] = me] /\ sess' = [sess EXCEPT ![b] = made]
      /\ live' = [r \in Runs |-> IF r = run THEN b ELSE IF live[r] \in old THEN 0 ELSE live[r]]
      /\ lock' = [x \in Builds |-> IF x \in old THEN Kept ELSE lock[x]]
      /\ epoch' = b /\ queued' = queued \ old /\ UNCHANGED <<disk, plays>>
  BY DEF Build, Taken
<1> HIDE DEF plain, made, next
<1>8. /\ me \in ThreadState /\ Placed(me) /\ me.on <= b /\ me.new <= b
      /\ me.at \in Locked => me.on \in old /\ me.how = "now" /\ me.at = "checking"
  <2>1. CASE phone /\ \E o \in old : sess[o].dirty
    <3> DEFINE o == CHOOSE x \in old : sess[x].dirty
    <3>1. o \in old /\ o \in Builds /\ o <= b /\ o # 0
      BY <1>1, <1>3, <2>1
    <3>2. me = [plain EXCEPT !.at = "checking", !.how = "now", !.then = plain.at, !.on = o]
      BY <2>1
    <3> HIDE DEF o, me
    <3>3. me \in ThreadState /\ me.at = "checking" /\ me.how = "now" /\ me.then = next /\ me.on = o
          /\ me.new = b /\ me.run = run /\ me.op = thread[t].op
      BY <1>4, <1>5, <3>1, <3>2 DEF ThreadState, Places, Steps
    <3> QED BY <1>1, <1>2, <3>1, <3>3 DEF Placed, Steps
  <2>2. CASE ~(phone /\ \E o \in old : sess[o].dirty)
    <3>1. me = plain  BY <2>2
    <3> HIDE DEF me
    <3> QED BY <1>1, <1>2, <1>4, <1>5, <3>1 DEF Placed, Steps, Locked
  <2> QED BY <2>1, <2>2
<1> HIDE DEF me, old, b, run
<1>9. thread'[t] = me /\ \A u \in Threads : u # t => thread'[u] = thread[u]
  BY <1>1, <1>7
<1>10. \A u \in Threads : thread[u].at \in Locked => thread[u].on \in Builds /\ thread[u].on \notin old
  BY <1>3 DEF SessionsInv, SessionsTypeOK, ThreadState, LockTold
<1>11. SessionsTypeOK'
  <2>1. epoch' \in 0 .. MaxBuilds
    BY <1>2, <1>7
  <2>2. live' \in [Runs -> Builds \cup {0}]
    BY <1>2, <1>7 DEF SessionsInv, SessionsTypeOK
  <2>3. lock' \in [Builds -> Threads \cup {Free, Kept}]
    BY <1>7 DEF SessionsInv, SessionsTypeOK
  <2> QED BY <1>2, <1>6, <1>7, <1>8, <2>1, <2>2, <2>3 DEF SessionsInv, SessionsTypeOK
<1>12. LiveTold'
  <2> SUFFICES ASSUME NEW r \in Runs, live'[r] # 0
               PROVE  live'[r] <= epoch' /\ sess'[live'[r]].run = r /\ lock'[live'[r]] # Kept
    BY DEF LiveTold
  <2>1. CASE r = run
    <3>1. b > epoch /\ b \notin old
      BY <1>1, <1>3 DEF b
    <3>2. lock[b] = Free
      BY <1>1, <1>2, <3>1 DEF SessionsInv, UnmadeTold
    <3>3. live'[r] = b /\ epoch' = b /\ sess'[b] = made /\ lock'[b] = lock[b]
      BY <1>2, <1>7, <2>1, <3>1 DEF SessionsInv, SessionsTypeOK
    <3> QED BY <1>1, <1>6, <2>1, <3>2, <3>3 DEF b
  <2>2. CASE r # run
    BY <1>7, <2>2 DEF old, LiveBuilds
  <2> QED BY <2>1, <2>2
<1>13. UnmadeTold'
  <2>1. \A x \in Builds : IF x <= epoch' THEN sess'[x].run \in Runs ELSE lock'[x] = Free
    <3> SUFFICES ASSUME NEW x \in Builds
                 PROVE  IF x <= epoch' THEN sess'[x].run \in Runs ELSE lock'[x] = Free
      OBVIOUS
    <3>1. CASE x = b
      BY <1>1, <1>2, <1>6, <1>7, <3>1 DEF b, SessionsInv, SessionsTypeOK
    <3>2. CASE x # b
      <4>1. sess'[x] = sess[x] /\ (x <= epoch' <=> x <= epoch)
        BY <1>1, <1>7, <3>2 DEF b, SessionsInv, SessionsTypeOK
      <4>2. x <= epoch \/ lock'[x] = lock[x]
        BY <1>3, <1>7
      <4> QED BY <4>1, <4>2 DEF SessionsInv, UnmadeTold
    <3> QED BY <3>1, <3>2
  <2>2. \A u \in Threads : thread'[u].on <= epoch' /\ thread'[u].new <= epoch'
    <3> SUFFICES ASSUME NEW u \in Threads PROVE thread'[u].on <= epoch' /\ thread'[u].new <= epoch'
      OBVIOUS
    <3>1. CASE u = t
      BY <1>7, <1>8, <1>9, <3>1
    <3>2. CASE u # t
      <4>1. thread[u].on \in Nat /\ thread[u].new \in Nat /\ thread[u].on <= epoch /\ thread[u].new <= epoch
        BY DEF SessionsInv, SessionsTypeOK, ThreadState, UnmadeTold
      <4> QED BY <1>1, <1>7, <1>9, <3>2, <4>1 DEF b
    <3> QED BY <3>1, <3>2
  <2> QED BY <2>1, <2>2 DEF UnmadeTold
<1>14. LockTold'
  <2> SUFFICES ASSUME NEW u \in Threads
               PROVE  /\ \A c \in Builds : lock'[c] = u => thread'[u].on = c /\ thread'[u].at \in Locked
                      /\ thread'[u].at \in Locked =>
                            /\ thread'[u].on # 0
                            /\ \/ lock'[thread'[u].on] = u
                               \/ /\ lock'[thread'[u].on] = Kept
                                  /\ thread'[u].how = "now" /\ thread'[u].at # "release"
    BY DEF LockTold
  <2>1. \A c \in Builds : lock'[c] = u => lock[c] = u
    BY <1>7
  <2>2. CASE u = t
    <3>1. \A c \in Builds : lock[c] # t
      BY <1>2 DEF SessionsInv, LockTold
    <3>2. \A o \in old : o \in Builds /\ o # 0 /\ lock'[o] = Kept
      BY <1>3, <1>7
    <3> QED BY <1>8, <1>9, <2>1, <2>2, <3>1, <3>2
  <2>3. CASE u # t
    <3>1. thread'[u] = thread[u]
      BY <1>9, <2>3
    <3>2. thread[u].at \in Locked => lock'[thread[u].on] = lock[thread[u].on]
      BY <1>7, <1>10
    <3> QED BY <2>1, <3>1, <3>2 DEF SessionsInv, LockTold
  <2> QED BY <2>2, <2>3
<1>15. OneAtATime'
  BY <1>8, <1>9, <1>10 DEF SessionsInv, OneAtATime
<1>16. \A u \in Threads : Placed(thread[u])'
  BY <1>8, <1>9 DEF SessionsInv, Placed
<1> QED BY <1>11, <1>12, <1>13, <1>14, <1>15, <1>16 DEF SessionsInv

(* A background thread picks a build up. *)
LEMMA PicksUp ==
    ASSUME SessionsInv, NEW t \in Threads, thread[t].at = "idle", NEW op \in {"saving", "flushing"},
           NEW b \in Builds, b <= epoch, queued' \subseteq Builds,
           thread' = [thread EXCEPT ![t] = [Idle EXCEPT !.at = "found", !.op = op, !.on = b]],
           UNCHANGED <<live, epoch, sess, lock, disk, plays>>
    PROVE  SessionsInv'
<1> DEFINE me == [Idle EXCEPT !.at = "found", !.op = op, !.on = b]
<1>1. me \in ThreadState /\ me.at = "found" /\ me.on = b /\ me.new = 0 /\ me.then = "idle" /\ me.op = op
  BY DEF Idle, ThreadState, Places
<1> HIDE DEF me
<1>2. 0 <= epoch /\ b # 0  BY DEF SessionsInv, SessionsTypeOK
<1>3. Moves(t, me) /\ me.at \notin Locked /\ thread[t].at \notin Locked
  BY <1>1, <1>2 DEF me, Moves, Placed, Steps, Locked
<1>4. live' \in [Runs -> Builds \cup {0}] /\ \A r \in Runs : live'[r] \in {live[r], 0}
  BY DEF SessionsInv, SessionsTypeOK
<1> QED BY <1>3, <1>4, FreeMoves

(* A thread that stays where it is. *)
LEMMA StaysPut ==
    ASSUME SessionsInv, UNCHANGED thread, NEW t \in Threads
    PROVE  Moves(t, thread[t])
BY DEF SessionsInv, SessionsTypeOK, UnmadeTold, Moves

LEMMA SaverPopsStep ==
    ASSUME SessionsInv, NEW b \in Builds, SaverPops(b)
    PROVE  SessionsInv'
<1>1. Saver \in Threads /\ queued' \subseteq Builds
  BY DEF Threads, SaverPops, SessionsInv, SessionsTypeOK
<1>2. CASE IsLive(b) /\ ~sess[b].ending /\ sess[b].dirty
  <2>1. b <= epoch
    BY <1>2 DEF IsLive, SessionsInv, LiveTold
  <2>2. thread' = [thread EXCEPT ![Saver] = [Idle EXCEPT !.at = "found", !.op = "saving", !.on = b]]
    BY <1>2 DEF SaverPops
  <2> QED BY <1>1, <2>1, <2>2, PicksUp DEF SaverPops
<1>3. CASE ~(IsLive(b) /\ ~sess[b].ending /\ sess[b].dirty)
  <2>1. Moves(Saver, thread[Saver]) /\ thread[Saver].at \notin Locked
    BY <1>1, <1>3, StaysPut DEF SaverPops, Locked
  <2>2. live' \in [Runs -> Builds \cup {0}] /\ \A r \in Runs : live'[r] \in {live[r], 0}
    BY DEF SaverPops, SessionsInv, SessionsTypeOK
  <2> QED BY <1>1, <2>1, <2>2, FreeMoves DEF SaverPops
<1> QED BY <1>2, <1>3

LEMMA FlushAllStep ==
    ASSUME SessionsInv, NEW b \in Builds, FlushAll(b)
    PROVE  SessionsInv'
<1>1. b <= epoch
  BY DEF FlushAll, LiveBuilds, SessionsInv, LiveTold
<1>2. Keeper \in Threads /\ queued' \subseteq Builds
  BY DEF Threads, FlushAll, SessionsInv, SessionsTypeOK
<1> QED BY <1>1, <1>2, PicksUp DEF FlushAll

(* A run ended by a step that moves no thread. *)
LEMMA EndsAlone ==
    ASSUME SessionsInv, NEW r \in Runs, CanEnd(r), End(r), UNCHANGED <<epoch, sess, disk, plays, thread>>
    PROVE  SessionsInv'
<1>1. Keeper \in Threads
  BY DEF Threads
<1>2. queued' \subseteq Builds
  BY DEF End, SessionsInv, SessionsTypeOK
<1>3. BuildsKept
  BY <1>2, NothingBuilt
<1> QED BY <1>1, <1>3, StaysPut, EndMoves DEF End

LEMMA SweepStep ==
    ASSUME SessionsInv, NEW r \in Runs, Sweep(r)
    PROVE  SessionsInv'
<1>1. CASE phone /\ sess[live[r]].dirty
  <2> DEFINE b == live[r]
             me == [Idle EXCEPT !.at = "checking", !.op = "sweep", !.how = "now", !.on = b]
  <2>1. Keeper \in Threads /\ thread[Keeper].at \notin Locked /\ 0 <= epoch
    BY DEF Threads, Sweep, Locked, SessionsInv, SessionsTypeOK
  <2>2. b \in Builds /\ b <= epoch
    BY DEF Sweep, CanEnd, SessionsInv, SessionsTypeOK, LiveTold
  <2>3. thread' = [thread EXCEPT ![Keeper] = me]
    BY <1>1 DEF Sweep
  <2>4. queued' \subseteq Builds
    BY DEF Sweep, End, SessionsInv, SessionsTypeOK
  <2>5. BuildsKept
    BY <2>4, NothingBuilt DEF Sweep
  <2> HIDE DEF b
  <2>6. me \in ThreadState /\ me.at = "checking" /\ me.on = b /\ me.new = 0 /\ me.how = "now"
        /\ me.then = "idle" /\ me.op = "sweep"
    BY <2>2 DEF Idle, ThreadState, Places
  <2> HIDE DEF me
  <2>7. Moves(Keeper, me)
    BY <2>1, <2>2, <2>3, <2>6 DEF Moves, Placed, Steps
  <2> QED BY <2>1, <2>5, <2>6, <2>7, EndMoves DEF Sweep, End, b
<1>2. CASE ~(phone /\ sess[live[r]].dirty)
  BY <1>2, EndsAlone DEF Sweep
<1> QED BY <1>1, <1>2

(* A step that moves no thread and takes no lock. *)
LEMMA StoreKeeps ==
    ASSUME SessionsInv, UNCHANGED <<thread, live, lock>>, BuildsKept
    PROVE  SessionsInv'
<1>1. SessionsTypeOK'
  BY DEF SessionsInv, SessionsTypeOK, BuildsKept
<1>2. LiveTold' /\ UnmadeTold' /\ LockTold' /\ OneAtATime'
  BY DEF SessionsInv, SessionsTypeOK, LiveTold, UnmadeTold, LockTold, OneAtATime, BuildsKept
<1>3. \A t \in Threads : Placed(thread[t])'
  BY DEF SessionsInv, Placed
<1> QED BY <1>1, <1>2, <1>3 DEF SessionsInv

LEMMA AdminStepInv ==
    ASSUME SessionsInv, AdminStep
    PROVE  SessionsInv'
<1>1. ASSUME NEW r \in Runs, AdminEnds(r)
      PROVE  SessionsInv'
  BY <1>1, EndsAlone DEF AdminEnds
<1>2. ASSUME NEW r \in Runs, EndListed(r)
      PROVE  SessionsInv'
  <2>1. CASE CanEnd(r) /\ End(r)
    BY <1>2, <2>1, EndsAlone DEF EndListed
  <2>2. CASE UNCHANGED <<live, lock, queued>>
    BY <1>2, <2>2, StoreKept, NothingBuilt, StoreKeeps DEF EndListed, SessionsInv, SessionsTypeOK
  <2> QED BY <1>2, <2>1, <2>2 DEF EndListed, CanEnd
<1>3. ASSUME UNCHANGED <<live, epoch, sess, lock, queued, disk, plays, thread>>
      PROVE  SessionsInv'
  <2>1. queued' \subseteq Builds
    BY <1>3 DEF SessionsInv, SessionsTypeOK
  <2> QED BY <1>3, <2>1, NothingBuilt, StoreKeeps
<1>4. CASE EndWhenDone
  <2>1. BuildsKept
    <3>1. PICK r : sess' = IF live[r] = 0 THEN sess ELSE [sess EXCEPT ![live[r]].ending = TRUE]
      BY <1>4 DEF EndWhenDone
    <3>2. \A b : [sess EXCEPT ![b].ending = TRUE] \in
                     [Builds -> [run : Runs \cup {0}, mem : SUBSET Plays, dirty : BOOLEAN, ending : BOOLEAN]]
      BY DEF SessionsInv, SessionsTypeOK
    <3>3. \A b, c : c \in Builds => [sess EXCEPT ![b].ending = TRUE][c].run = sess[c].run
      BY DEF SessionsInv, SessionsTypeOK
    <3> QED BY <1>4, <3>1, <3>2, <3>3 DEF EndWhenDone, BuildsKept, SessionsInv, SessionsTypeOK
  <2> QED BY <1>4, <2>1, StoreKeeps DEF EndWhenDone
<1>5. CASE PurgeFolder
  BY <1>5, StoreKeeps DEF PurgeFolder, BuildsKept, SessionsInv, SessionsTypeOK
<1> QED BY <1>1, <1>2, <1>3, <1>4, <1>5 DEF AdminStep, Disable, Enable, ListOwned, OwnerEnded

LEMMA ThreadStepInv ==
    ASSUME SessionsInv, NEW t \in Threads, ThreadStep(t)
    PROVE  SessionsInv'
<1>1. ASSUME NEW r \in Runs, NEW op \in {"turn", "action", "write", "create", "resume"}, LetIn(t, r, op)
      PROVE  SessionsInv'
  BY <1>1, LetInStep
<1>2. CASE FindRun(t) \/ FirstLook(t) \/ Load(t) \/ Build(t) \/ BuildRefused(t)
  BY <1>2, FindRunStep, FirstLookStep, LoadStep, BuildStep, BuildRefusedStep
<1>3. CASE TakeLock(t) \/ LockTaken(t) \/ ReleaseTurn(t) \/ AfterTurn(t) \/ FlushBeforeLoad(t)
  BY <1>3, TakeLockStep, LockTakenStep, ReleaseTurnStep, AfterTurnStep, FlushBeforeLoadStep
<1>4. CASE NotPlayed(t) \/ PlayTurn(t) \/ PlayAndSave(t) \/ PlayAndMark(t) \/ Mark(t)
  BY <1>4, LeavingStep, PlayStep, PlayAndMarkStep
<1>5. CASE CheckSave(t) \/ SaveRefused(t) \/ WriteSave(t) \/ SaveFails(t)
  BY <1>5, CheckSaveStep, SaveRefusedStep, WriteSaveStep, SaveFailsStep
<1>6. CASE StepTaken(t) \/ StepSkipped(t) \/ Delete(t)
  BY <1>6, StepTakenStep, StepSkippedStep, DeleteStep
<1> QED BY <1>1, <1>2, <1>3, <1>4, <1>5, <1>6 DEF ThreadStep

LEMMA StepInv == SessionsInv /\ [Next]_vars => SessionsInv'
<1> SUFFICES ASSUME SessionsInv, [Next]_vars PROVE SessionsInv'
  OBVIOUS
<1>1. CASE \E t \in Threads : ThreadStep(t)
  BY <1>1, ThreadStepInv
<1>2. CASE Background
  BY <1>2, SaverPopsStep, FlushAllStep, SweepStep DEF Background
<1>3. CASE AdminStep
  BY <1>3, AdminStepInv
<1>4. CASE UNCHANGED vars
  <2>1. UNCHANGED <<live, epoch, sess, lock, queued, disk, open, plays, thread>>
    BY <1>4 DEF vars
  <2>2. queued' \subseteq Builds
    BY <2>1 DEF SessionsInv, SessionsTypeOK
  <2> QED BY <2>1, <2>2, NothingBuilt, StoreKeeps
<1> QED BY <1>1, <1>2, <1>3, <1>4 DEF Next

(* The store's state is of the code's types.                                *)
THEOREM SessionsTypes == Spec => []SessionsTypeOK
<1>1. SessionsInv => SessionsTypeOK
  BY DEF SessionsInv
<1> QED BY InitInv, StepInv, <1>1, PTL DEF Spec

(* One thread at a time works on a build: turns, phone actions, saves by a  *)
(* timer or a manual write, and the flush of a run that was released with   *)
(* its lock kept, whatever ends, rebuilds or purges it meanwhile            *)
(* (store.py, release_turn; default_scene.py, run_guarded).                 *)
THEOREM OneAtATimeHolds == Spec => []OneAtATime
<1>1. SessionsInv => OneAtATime
  BY DEF SessionsInv
<1> QED BY InitInv, StepInv, <1>1, PTL DEF Spec

----------------------------------------------------------------------------
(* Only a build puts a run into the store. *)
LEMMA OnlyBuildAdds ==
    ASSUME SessionsInv, [Next]_vars, \A t \in Threads : ~Build(t)
    PROVE  \A r \in Runs : live'[r] \in {live[r], 0}
<1>0. live \in [Runs -> Builds \cup {0}]
  BY DEF SessionsInv, SessionsTypeOK
<1>1. CASE UNCHANGED live
  BY <1>1
<1>2. ASSUME NEW r, live' = [live EXCEPT ![r] = 0]
      PROVE  \A q \in Runs : live'[q] \in {live[q], 0}
  BY <1>0, <1>2
<1>3. CASE \E t \in Threads : AfterTurn(t) \/ Delete(t)
  BY <1>1, <1>2, <1>3 DEF AfterTurn, Delete, End
<1>4. CASE \E r \in Runs : Sweep(r) \/ AdminEnds(r) \/ EndListed(r)
  BY <1>1, <1>2, <1>4 DEF Sweep, AdminEnds, EndListed, End
<1>5. CASE \/ \E b \in Builds : SaverPops(b) \/ FlushAll(b)
           \/ \E purge \in BOOLEAN : Disable(purge)
           \/ Enable \/ ListOwned \/ EndWhenDone \/ OwnerEnded \/ PurgeFolder
           \/ UNCHANGED vars
  BY <1>1, <1>5 DEF SaverPops, FlushAll, Disable, Enable, ListOwned, EndWhenDone, OwnerEnded,
                    PurgeFolder, vars
<1>6. ASSUME NEW t \in Threads, ThreadStep(t), ~AfterTurn(t), ~Delete(t)
      PROVE  UNCHANGED live
  BY <1>6 DEF ThreadStep, LetIn, FindRun, FirstLook, TakeLock, LockTaken, ReleaseTurn, NotPlayed,
              PlayTurn, PlayAndSave, PlayAndMark, Mark, CheckSave, SaveRefused, WriteSave, SaveFails,
              FlushBeforeLoad, Load, BuildRefused, StepTaken, StepSkipped
<1> QED BY <1>1, <1>3, <1>4, <1>5, <1>6 DEF Next, Background, AdminStep

(* An account never has two live runs: a start takes every live run of its  *)
(* account out of the store in the step that puts its own in (store.py,     *)
(* _build, _take_owned).                                                    *)
THEOREM OneLivePerAccountHolds == Spec => []OneLivePerAccount
<1>1. Init => OneLivePerAccount
  BY DEF Init, OneLivePerAccount
<1>2. ASSUME SessionsInv, OneLivePerAccount, [Next]_vars
      PROVE  OneLivePerAccount'
  <2>1. CASE \E t \in Threads : Build(t)
    <3>1. PICK t \in Threads : Build(t)
      BY <2>1
    <3>2. live' = [r \in Runs |-> IF r = thread[t].run THEN epoch + 1
                                    ELSE IF live[r] \in LiveBuilds THEN 0 ELSE live[r]]
      BY <3>1 DEF Build, Taken
    <3>3. \A r \in Runs : r # thread[t].run => live'[r] = 0
      BY <3>2 DEF LiveBuilds
    <3> QED BY <3>3 DEF OneLivePerAccount
  <2>2. CASE \A t \in Threads : ~Build(t)
    BY <1>2, <2>2, OnlyBuildAdds DEF OneLivePerAccount
  <2> QED BY <2>1, <2>2
<1> QED BY InitInv, StepInv, <1>1, <1>2, PTL DEF Spec

----------------------------------------------------------------------------
(* Whose dirty state is on its way to the disk: an entry of the timer, the  *)
(* timer's own thread about to try the lock, or the lock's holder about to  *)
(* mark it or to save it.                                                   *)
Scheduled(b) ==
    \/ b \in queued
    \/ thread[Saver].on = b /\ thread[Saver].at = "found" /\ thread[Saver].op = "saving"
    \/ \E t \in Threads :
          lock[b] = t /\ (thread[t].at = "marking" \/ (thread[t].at = "checking" /\ thread[t].how = "now"))
MayFlush(b) == sess[b].dirty /\ ~sess[b].ending /\ open
DirtyTold == \A b \in LiveBuilds : MayFlush(b) => Scheduled(b)

(* While an account was never open, nothing runs. *)
NothingBegun ==
    ~open /\ admin.at = "idle" => LiveBuilds = {} /\ \A t \in Threads : thread[t].at = "idle"

(* What the admin's request does. *)
AdminTyped ==
    admin \in [at : {"idle", "list", "ending", "mark", "closed", "purge", "purged"},
               todo : SUBSET Runs, busy : BOOLEAN, purge : BOOLEAN, again : BOOLEAN]

DirtyInv == SessionsInv /\ AdminTyped /\ NothingBegun /\ DirtyTold

LEMMA DirtyInit == Init => DirtyInv
<1> SUFFICES ASSUME Init PROVE DirtyInv
  OBVIOUS
<1>1. LiveBuilds = {} /\ \A t \in Threads : thread[t].at = "idle"
  BY DEF Init, LiveBuilds, Idle
<1>2. AdminTyped
  BY DEF Init, AdminIdle, AdminTyped
<1> QED BY <1>1, <1>2, InitInv DEF DirtyInv, NothingBegun, DirtyTold

(* A thread moves itself alone, and no lock but its own or a free one.      *)
LEMMA OthersAlone ==
    ASSUME SessionsInv, NEW t \in Threads, ThreadStep(t)
    PROVE  /\ \A u \in Threads : u # t => thread'[u] = thread[u]
           /\ \A b \in Builds, u \in Threads : u # t /\ lock[b] = u => lock'[b] = u
<1> DEFINE Others == /\ \A u \in Threads : u # t => thread'[u] = thread[u]
                     /\ \A b \in Builds, u \in Threads : u # t /\ lock[b] = u => lock'[b] = u
<1>1. thread \in [Threads -> ThreadState] /\ lock \in [Builds -> Threads \cup {Free, Kept}]
  BY DEF SessionsInv, SessionsTypeOK
<1>2. CASE \/ \E r \in Runs, op \in {"turn", "action", "write", "create", "resume"} : LetIn(t, r, op)
           \/ FindRun(t) \/ FirstLook(t) \/ LockTaken(t) \/ Load(t) \/ BuildRefused(t) \/ Delete(t)
  BY <1>1, <1>2 DEF LetIn, FindRun, FirstLook, LockTaken, Load, BuildRefused, Delete, Go, GoIdle
<1>3. CASE NotPlayed(t) \/ PlayTurn(t) \/ PlayAndSave(t) \/ PlayAndMark(t) \/ Mark(t)
  BY <1>1, <1>3 DEF NotPlayed, PlayTurn, PlayAndSave, PlayAndMark, Mark, Go, GoIdle, GoOn, LeaveFor, Leave
<1>4. CASE CheckSave(t) \/ SaveRefused(t) \/ WriteSave(t) \/ SaveFails(t) \/ StepSkipped(t)
  BY <1>1, <1>4 DEF CheckSave, SaveRefused, WriteSave, SaveFails, StepSkipped, Skip, Go, GoIdle, GoOn,
                    LeaveFor, Leave
<1>5. CASE TakeLock(t) \/ FlushBeforeLoad(t)
  BY <1>1, <1>5 DEF TakeLock, FlushBeforeLoad, LeaveFor, Go
<1>6. CASE StepTaken(t)
  BY <1>1, <1>6 DEF StepTaken, LeaveFor
<1>7. CASE ReleaseTurn(t)
  <2>1. lock[thread[t].on] = t
    BY <1>7 DEF ReleaseTurn, SessionsInv, LockTold, Locked
  <2> QED BY <1>1, <1>7, <2>1 DEF ReleaseTurn, Go
<1>8. CASE AfterTurn(t)
  BY <1>1, <1>8 DEF AfterTurn, CanEnd, End, GoOn, GoIdle
<1>9. CASE Build(t)
  BY <1>1, <1>9 DEF Build, Taken, OwnerBusy
<1> QED BY <1>2, <1>3, <1>4, <1>5, <1>6, <1>7, <1>8, <1>9 DEF ThreadStep

(* What is scheduled stays so while its thread does something else. *)
LEMMA StillScheduled ==
    ASSUME SessionsInv, NEW t \in Threads, ThreadStep(t), NEW b \in Builds, Scheduled(b),
           b \in queued => b \in queued',
           thread[t].at \notin {"found", "marking", "checking"} \/ thread[t].on # b
    PROVE  Scheduled(b)'
<1>1. CASE b \in queued
  BY <1>1 DEF Scheduled
<1>2. CASE thread[Saver].on = b /\ thread[Saver].at = "found" /\ thread[Saver].op = "saving"
  BY <1>2, OthersAlone DEF Threads, Scheduled
<1>3. ASSUME NEW u \in Threads, lock[b] = u,
             thread[u].at = "marking" \/ (thread[u].at = "checking" /\ thread[u].how = "now")
      PROVE  Scheduled(b)'
  <2>1. thread'[u] = thread[u] /\ lock'[b] = u
    BY <1>3, OthersAlone DEF SessionsInv, LockTold
  <2> QED BY <1>3, <2>1 DEF Scheduled
<1> QED BY <1>1, <1>2, <1>3 DEF Scheduled

(* A live run's lock is not kept, and its entry is its build's own. *)
LEMMA LiveIs ==
    ASSUME SessionsInv, NEW b \in LiveBuilds
    PROVE  b \in Builds /\ b <= epoch /\ lock[b] # Kept /\ IsLive(b)
<1>1. PICK r \in Runs : b = live[r] /\ b # 0
  BY DEF LiveBuilds
<1> QED BY <1>1 DEF SessionsInv, SessionsTypeOK, LiveTold, IsLive

(* Who works on a live run holds its lock. *)
LEMMA WorkerHolds ==
    ASSUME SessionsInv, NEW t \in Threads, thread[t].at \in Locked, thread[t].on \in LiveBuilds
    PROVE  lock[thread[t].on] = t
BY LiveIs DEF SessionsInv, LockTold

(* Only a build puts a run into the store. *)
LEMMA LiveBefore ==
    ASSUME SessionsInv, NEW t \in Threads, ThreadStep(t), ~Build(t)
    PROVE  LiveBuilds' \subseteq LiveBuilds
<1>1. live \in [Runs -> Builds \cup {0}]
  BY DEF SessionsInv, SessionsTypeOK
<1>2. CASE UNCHANGED live
  BY <1>2 DEF LiveBuilds
<1>3. ASSUME NEW r, live' = [live EXCEPT ![r] = 0] PROVE LiveBuilds' \subseteq LiveBuilds
  BY <1>1, <1>3 DEF LiveBuilds
<1>4. CASE AfterTurn(t) \/ Delete(t)
  BY <1>2, <1>3, <1>4 DEF AfterTurn, Delete, End
<1>5. CASE ~AfterTurn(t) /\ ~Delete(t)
  BY <1>2, <1>5 DEF ThreadStep, LetIn, FindRun, FirstLook, TakeLock, LockTaken, ReleaseTurn, NotPlayed,
              PlayTurn, PlayAndSave, PlayAndMark, Mark, CheckSave, SaveRefused, WriteSave, SaveFails,
              FlushBeforeLoad, Load, BuildRefused, StepTaken, StepSkipped
<1> QED BY <1>4, <1>5

(* The build a start makes is the one live run, clean and nobody's end. *)
LEMMA BuiltAnew ==
    ASSUME SessionsInv, NEW t \in Threads, Build(t)
    PROVE  \A b \in LiveBuilds' :
              b = epoch + 1 /\ b \in Builds /\ sess'[b].dirty = FALSE /\ sess'[b].ending = FALSE
<1>1. \A b \in LiveBuilds' : b = epoch + 1
  BY DEF Build, Taken, LiveBuilds
<1>2. epoch + 1 \in Builds
  BY DEF Build, SessionsInv, SessionsTypeOK
<1>3. sess' = [sess EXCEPT ![epoch + 1] = [Unbuilt EXCEPT !.run = thread[t].run, !.mem = thread[t].got]]
  BY DEF Build
<1>4. sess'[epoch + 1].dirty = FALSE /\ sess'[epoch + 1].ending = FALSE
  BY <1>2, <1>3 DEF Unbuilt, SessionsInv, SessionsTypeOK
<1> QED BY <1>1, <1>2, <1>4

LEMMA DirtyThread ==
    ASSUME SessionsInv, DirtyTold, NEW t \in Threads, ThreadStep(t)
    PROVE  DirtyTold'
<1> SUFFICES ASSUME NEW b \in LiveBuilds', MayFlush(b)' PROVE Scheduled(b)'
  BY DEF DirtyTold
<1>1. sess \in [Builds -> [run : Runs \cup {0}, mem : SUBSET Plays, dirty : BOOLEAN, ending : BOOLEAN]]
      /\ thread \in [Threads -> ThreadState] /\ live \in [Runs -> Builds \cup {0}]
      /\ lock \in [Builds -> Threads \cup {Free, Kept}]
  BY DEF SessionsInv, SessionsTypeOK
<1>2. ASSUME ~Build(t)
      PROVE  b \in LiveBuilds /\ b \in Builds /\ lock[b] # Kept /\ IsLive(b)
  BY <1>2, LiveBefore, LiveIs
<1>3. CASE Build(t)
  BY <1>3, BuiltAnew DEF MayFlush
(* What says nothing of dirty state or entries. *)
<1>4. ASSUME ~Build(t), sess'[b].dirty = sess[b].dirty, sess'[b].ending = sess[b].ending, open' = open,
             b \in queued => b \in queued',
             thread[t].at \notin {"found", "marking", "checking"} \/ thread[t].on # b
      PROVE  Scheduled(b)'
  <2>1. MayFlush(b)
    BY <1>4 DEF MayFlush
  <2> QED BY <1>2, <1>4, <2>1, StillScheduled DEF DirtyTold
<1>5. CASE \/ \E r \in Runs, op \in {"turn", "action", "write", "create", "resume"} : LetIn(t, r, op)
           \/ FindRun(t) \/ FirstLook(t) \/ Load(t) \/ BuildRefused(t) \/ StepSkipped(t)
           \/ NotPlayed(t) \/ ReleaseTurn(t) \/ FlushBeforeLoad(t) \/ WriteSave(t)
  <2>1. /\ UNCHANGED <<sess, open, queued, epoch>>
        /\ thread[t].at \notin {"found", "marking", "checking"}
    BY <1>5 DEF LetIn, FindRun, FirstLook, Load, BuildRefused, StepSkipped, Steps, NotPlayed, ReleaseTurn,
                FlushBeforeLoad, WriteSave
  <2>2. ~Build(t)
    BY <1>1, <2>1 DEF Build, SessionsInv, SessionsTypeOK
  <2> QED BY <1>4, <2>1, <2>2
<1>6. CASE PlayTurn(t) \/ PlayAndSave(t)
  <2>1. /\ UNCHANGED <<open, queued, epoch>> /\ thread[t].at = "playing"
        /\ sess' = [sess EXCEPT ![thread[t].on].mem = @ \cup {plays + 1}]
    BY <1>6 DEF PlayTurn, PlayAndSave, Played
  <2>2. ~Build(t)
    BY <2>1 DEF Build
  <2>3. sess'[b].dirty = sess[b].dirty /\ sess'[b].ending = sess[b].ending
    BY <1>1, <1>2, <2>1, <2>2
  <2> QED BY <1>4, <2>1, <2>2, <2>3
<1>7. CASE AfterTurn(t) \/ Delete(t)
  <2>1. UNCHANGED <<sess, open, epoch>> /\ thread[t].at \in {"hook", "delete"}
    BY <1>7 DEF AfterTurn, Delete
  <2>2. ~Build(t)
    BY <2>1 DEF Build
  <2>3. b \in queued => b \in queued'
    <3>1. ASSUME NEW r \in Runs, live' = [live EXCEPT ![r] = 0], queued' = queued \ {live[r]}
          PROVE  b \in queued => b \in queued'
      <4>1. PICK q \in Runs : b = live'[q] /\ b # 0
        BY DEF LiveBuilds
      <4>2. q # r /\ b = live[q]
        BY <1>1, <3>1, <4>1
      <4>3. live[r] # b
        BY <4>1, <4>2 DEF SessionsInv, LiveTold
      <4> QED BY <3>1, <4>3
    <3>2. CASE Delete(t)
      <4>1. thread[t].run \in Runs
        BY <3>2 DEF Delete, SessionsInv, Placed
      <4> QED BY <3>1, <3>2, <4>1 DEF Delete
    <3>3. CASE AfterTurn(t) /\ sess[thread[t].on].ending /\ CanEnd(sess[thread[t].on].run)
      <4>1. sess[thread[t].on].run \in Runs
        BY <2>1, <3>3, <1>1 DEF AfterTurn, SessionsInv, Placed, UnmadeTold, ThreadState
      <4> QED BY <3>1, <3>3, <4>1 DEF AfterTurn, End
    <3>4. CASE AfterTurn(t) /\ ~(sess[thread[t].on].ending /\ CanEnd(sess[thread[t].on].run))
      BY <3>4 DEF AfterTurn
    <3> QED BY <1>7, <3>2, <3>3, <3>4
  <2> QED BY <1>4, <2>1, <2>2, <2>3
(* A step of a thread on its build, under its lock or about to take it. *)
<1>8. CASE \/ Mark(t) \/ PlayAndMark(t) \/ TakeLock(t) \/ LockTaken(t)
           \/ CheckSave(t) \/ SaveRefused(t) \/ SaveFails(t) \/ StepTaken(t)
  <2>1. /\ UNCHANGED open /\ (b \in queued => b \in queued')
        /\ thread[t].at \in {"marking", "playing", "after", "found", "checking", "writing"} \cup Steps
    BY <1>8 DEF Mark, PlayAndMark, TakeLock, LockTaken, CheckSave, SaveRefused, SaveFails, StepTaken
  <2>2. ~Build(t)
    BY <2>1 DEF Build, Steps
  <2>3. b \in LiveBuilds /\ b \in Builds /\ lock[b] # Kept /\ IsLive(b)
    BY <1>2, <2>2
  <2>4. CASE thread[t].on # b
    <3>1. \/ UNCHANGED sess
          \/ \E s : sess' = [sess EXCEPT ![thread[t].on] = s]
      BY <1>8 DEF Mark, PlayAndMark, TakeLock, LockTaken, CheckSave, SaveRefused, SaveFails, StepTaken
    <3>2. sess'[b] = sess[b]
      BY <1>1, <2>3, <2>4, <3>1
    <3> QED BY <1>4, <2>1, <2>2, <2>4, <3>2
  <2>5. CASE thread[t].on = b
    <3>1. thread[t].at \in Locked => lock[b] = t
      BY <2>3, <2>5, WorkerHolds
    <3>2. CASE Mark(t)
      BY <2>3, <2>5, <3>2 DEF Mark, Scheduled
    <3>3. CASE PlayAndMark(t) \/ (SaveFails(t) /\ thread[t].how = "now")
      <4>1. thread[t].at \in Locked /\ Go(t, "marking") /\ UNCHANGED lock
        BY <3>3 DEF PlayAndMark, SaveFails, Locked
      <4>2. thread'[t].at = "marking" /\ lock'[b] = t
        BY <1>1, <3>1, <4>1 DEF Go
      <4> QED BY <4>2 DEF Scheduled
    <3>4. CASE SaveFails(t) /\ thread[t].how # "now"
      <4>1. UNCHANGED sess /\ thread[t].at = "writing"
        BY <3>4 DEF SaveFails
      <4> QED BY <1>4, <2>1, <2>2, <4>1
    <3>5. CASE CheckSave(t)
      <4>1. CASE thread[t].how = "now"
        <5>1. sess'[b].dirty = FALSE
          BY <1>1, <2>3, <2>5, <3>5, <4>1 DEF CheckSave
        <5> QED BY <5>1 DEF MayFlush
      <4>2. CASE thread[t].how # "now"
        <5>1. UNCHANGED <<sess, queued, lock>> /\ thread[t].at = "checking"
          BY <3>5, <4>2 DEF CheckSave
        <5>2. Scheduled(b)
          BY <2>1, <2>3, <5>1 DEF DirtyTold, MayFlush
        <5>3. CASE b \in queued
          BY <5>1, <5>3 DEF Scheduled
        <5>5. Saver \in Threads
          BY DEF Threads
        <5>6. CASE thread[Saver].on = b /\ thread[Saver].at = "found" /\ thread[Saver].op = "saving"
          <6>1. thread'[Saver] = thread[Saver]
            BY <5>1, <5>5, <5>6, OthersAlone
          <6> QED BY <5>6, <6>1 DEF Scheduled
        <5> QED BY <3>1, <4>2, <5>1, <5>2, <5>3, <5>6 DEF Scheduled, Locked
      <4> QED BY <4>1, <4>2
    <3>6. CASE SaveRefused(t)
      <4>1. UNCHANGED <<sess, queued, lock, open>> /\ thread[t].at = "checking" /\ ~MayWrite(t)
        BY <3>6 DEF SaveRefused
      <4>2. sess'[b].ending \/ ~open'
        BY <2>5, <4>1 DEF MayWrite
      <4> QED BY <4>2 DEF MayFlush
    <3>7. CASE LockTaken(t)
      <4>1. UNCHANGED <<sess, open, lock>> /\ queued \subseteq queued'
            /\ (thread[t].op = "saving" => b \in queued') /\ thread[t].at = "found"
        BY <2>3, <2>5, <3>7 DEF LockTaken
      <4>2. Scheduled(b)
        BY <2>3, <4>1 DEF DirtyTold, MayFlush
      <4>3. CASE b \in queued'
        BY <4>3 DEF Scheduled
      <4>4. CASE Saver # t /\ thread[Saver].on = b /\ thread[Saver].at = "found" /\ thread[Saver].op = "saving"
        BY <4>4, OthersAlone DEF Threads, Scheduled
      <4>5. ASSUME NEW u \in Threads, lock[b] = u,
                   thread[u].at = "marking" \/ (thread[u].at = "checking" /\ thread[u].how = "now")
            PROVE  Scheduled(b)'
        <5>1. u # t
          BY <4>1, <4>5
        <5>2. thread'[u] = thread[u] /\ lock'[b] = u
          BY <2>3, <4>5, <5>1, OthersAlone
        <5> QED BY <4>5, <5>2 DEF Scheduled
      <4> QED BY <4>1, <4>2, <4>3, <4>4, <4>5 DEF Scheduled
    <3>8. CASE TakeLock(t)
      <4>1. UNCHANGED <<sess, queued, open>> /\ lock[b] = Free /\ lock' = [lock EXCEPT ![b] = t]
            /\ thread[t].at = "found"
        BY <2>5, <3>8 DEF TakeLock
      <4>2. Scheduled(b) /\ sess[b].dirty
        BY <2>3, <4>1 DEF DirtyTold, MayFlush
      <4>3. \A u \in Threads : lock[b] # u
        BY <4>1
      <4>4. CASE b \in queued
        BY <4>1, <4>4 DEF Scheduled
      <4>5. CASE thread[Saver].on = b /\ thread[Saver].at = "found" /\ thread[Saver].op = "saving"
        <5>1. CASE Saver = t
          <6>1. thread'[t].at = "checking" /\ thread'[t].how = "now"
            <7>1. Begins(thread[t].op) = "checking" /\ SaveOf(thread[t].op) = "now"
              BY <4>5, <5>1 DEF Begins, SaveOf
            <7>2. thread' = [thread EXCEPT ![t].at = Begins(thread[t].op), ![t].how = SaveOf(thread[t].op)]
              BY <2>5, <3>8, <4>2 DEF TakeLock
            <7>3. thread' = [thread EXCEPT ![t].at = "checking", ![t].how = "now"]
              BY <7>1, <7>2
            <7> QED BY <1>1, <7>3 DEF ThreadState
          <6>2. lock'[b] = t
            BY <1>1, <2>3, <4>1
          <6> QED BY <6>1, <6>2 DEF Scheduled
        <5>2. CASE Saver # t
          BY <4>5, <5>2, OthersAlone DEF Threads, Scheduled
        <5> QED BY <5>1, <5>2
      <4> QED BY <4>2, <4>3, <4>4, <4>5 DEF Scheduled
    <3>9. CASE StepTaken(t)
      <4>1. UNCHANGED <<queued, open>> /\ lock[b] = Free /\ lock' = [lock EXCEPT ![b] = t]
            /\ thread[t].at \in Steps
        BY <2>5, <3>9 DEF StepTaken
      <4>2. CASE UNCHANGED sess
        <5>1. thread[t].at \notin {"found", "marking", "checking"}
          BY <4>1 DEF Steps
        <5> QED BY <1>4, <2>1, <2>2, <4>2, <5>1
      <4>3. CASE thread' = [thread EXCEPT ![t].at = "marking", ![t].then = "media"]
        <5>1. thread'[t].at = "marking" /\ lock'[b] = t
          BY <1>1, <2>3, <4>1, <4>3
        <5> QED BY <5>1 DEF Scheduled
      <4> QED BY <3>9, <4>2, <4>3 DEF StepTaken
    <3> QED BY <1>8, <3>2, <3>3, <3>4, <3>5, <3>6, <3>7, <3>8, <3>9
  <2> QED BY <2>4, <2>5
<1> QED BY <1>3, <1>5, <1>6, <1>7, <1>8 DEF ThreadStep

(* A run that leaves the store takes no other's entry with it. *)
LEMMA DirtyEnds ==
    ASSUME SessionsInv, DirtyTold, NEW r \in Runs, CanEnd(r), End(r), UNCHANGED <<sess, open>>,
           \A u \in Threads : thread[u].at # "idle" => thread'[u] = thread[u]
    PROVE  DirtyTold'
<1> SUFFICES ASSUME NEW b \in LiveBuilds', MayFlush(b)' PROVE Scheduled(b)'
  BY DEF DirtyTold
<1>1. live \in [Runs -> Builds \cup {0}] /\ lock \in [Builds -> Threads \cup {Free, Kept}]
  BY DEF SessionsInv, SessionsTypeOK
<1>2. PICK q \in Runs : b = live'[q] /\ b # 0
  BY DEF LiveBuilds
<1>3. q # r /\ b = live[q] /\ b \in LiveBuilds
  BY <1>1, <1>2 DEF End, LiveBuilds
<1>4. live[r] # b
  BY <1>2, <1>3 DEF SessionsInv, LiveTold
<1>5. (b \in queued => b \in queued') /\ lock'[b] = lock[b]
  BY <1>1, <1>3, <1>4 DEF End
<1>6. Scheduled(b)
  BY <1>3 DEF DirtyTold, MayFlush
<1>7. thread[Saver].at = "found" => thread'[Saver] = thread[Saver]
  BY DEF Threads
<1>8. \A u \in Threads : thread[u].at \in {"marking", "checking"} => thread'[u] = thread[u]
  OBVIOUS
<1> QED BY <1>5, <1>6, <1>7, <1>8 DEF Scheduled

(* The timer turns to the entry it took; a sweep or a flush begins. *)
LEMMA DirtyBackground ==
    ASSUME SessionsInv, DirtyTold, Background
    PROVE  DirtyTold'
<1>1. thread \in [Threads -> ThreadState]
  BY DEF SessionsInv, SessionsTypeOK
<1>2. ASSUME NEW c \in Builds, SaverPops(c)
      PROVE  DirtyTold'
  <2> SUFFICES ASSUME NEW b \in LiveBuilds, MayFlush(b) PROVE Scheduled(b)'
    BY <1>2 DEF SaverPops, DirtyTold, LiveBuilds, MayFlush
  <2>1. \A u \in Threads : thread[u].at # "idle" => thread'[u] = thread[u]
    BY <1>1, <1>2 DEF SaverPops
  <2>2. CASE b = c
    <3>1. thread' = [thread EXCEPT ![Saver] = [Idle EXCEPT !.at = "found", !.op = "saving", !.on = b]]
      BY <1>2, <2>2, LiveIs DEF SaverPops, MayFlush
    <3>2. thread'[Saver] = [Idle EXCEPT !.at = "found", !.op = "saving", !.on = b]
      BY <1>1, <3>1 DEF Threads
    <3>3. thread'[Saver].at = "found" /\ thread'[Saver].op = "saving" /\ thread'[Saver].on = b
      BY <3>2 DEF Idle
    <3> QED BY <3>3 DEF Scheduled
  <2>3. CASE b # c
    <3>1. Scheduled(b)
      BY DEF DirtyTold
    <3>2. b \in queued => b \in queued'
      BY <1>2, <2>3 DEF SaverPops
    <3>3. UNCHANGED lock
      BY <1>2 DEF SaverPops
    <3> QED BY <2>1, <3>1, <3>2, <3>3 DEF Scheduled, Threads
  <2> QED BY <2>2, <2>3
<1>3. ASSUME NEW c \in Builds, FlushAll(c)
      PROVE  DirtyTold'
  <2>1. \A u \in Threads : thread[u].at # "idle" => thread'[u] = thread[u]
    BY <1>1, <1>3 DEF FlushAll
  <2>2. UNCHANGED <<sess, live, open, lock, queued>>
    BY <1>3 DEF FlushAll
  <2> QED BY <2>1, <2>2 DEF DirtyTold, Scheduled, LiveBuilds, MayFlush, Threads
<1>4. ASSUME NEW r \in Runs, Sweep(r)
      PROVE  DirtyTold'
  <2>1. \A u \in Threads : thread[u].at # "idle" => thread'[u] = thread[u]
    BY <1>1, <1>4 DEF Sweep
  <2> QED BY <1>4, <2>1, DirtyEnds DEF Sweep
<1> QED BY <1>2, <1>3, <1>4 DEF Background

LEMMA DirtyAdmin ==
    ASSUME SessionsInv, NothingBegun, DirtyTold, AdminStep
    PROVE  DirtyTold'
<1>1. ASSUME NEW r \in Runs, AdminEnds(r) \/ EndListed(r)
      PROVE  DirtyTold'
  <2>1. UNCHANGED <<sess, open, thread>>
    BY <1>1 DEF AdminEnds, EndListed
  <2>2. CASE CanEnd(r) /\ End(r)
    BY <2>1, <2>2, DirtyEnds
  <2>3. CASE UNCHANGED <<live, lock, queued>>
    BY <2>1, <2>3 DEF DirtyTold, Scheduled, LiveBuilds, MayFlush
  <2> QED BY <1>1, <2>2, <2>3 DEF AdminEnds, EndListed
<1>2. CASE \E purge \in BOOLEAN : Disable(purge)
  BY <1>2 DEF Disable, DirtyTold, MayFlush
<1>3. CASE Enable
  <2>1. LiveBuilds' = {}
    BY <1>3 DEF Enable, NothingBegun, LiveBuilds
  <2> QED BY <2>1 DEF DirtyTold
<1>4. CASE EndWhenDone
  <2>1. UNCHANGED <<live, lock, queued, open, thread>>
    BY <1>4 DEF EndWhenDone
  <2>2. \A b \in Builds : sess'[b].dirty = sess[b].dirty /\ (sess[b].ending => sess'[b].ending)
    <3>1. PICK c : sess' \in {sess, [sess EXCEPT ![c].ending = TRUE]}
      BY <1>4 DEF EndWhenDone
    <3>2. sess \in [Builds -> [run : Runs \cup {0}, mem : SUBSET Plays, dirty : BOOLEAN, ending : BOOLEAN]]
      BY DEF SessionsInv, SessionsTypeOK
    <3>3. \A b \in Builds : [sess EXCEPT ![c].ending = TRUE][b].dirty = sess[b].dirty
      BY <3>2
    <3>4. \A b \in Builds : sess[b].ending => [sess EXCEPT ![c].ending = TRUE][b].ending
      BY <3>2
    <3> QED BY <3>1, <3>3, <3>4
  <2>3. \A b \in LiveBuilds' : b \in LiveBuilds /\ b \in Builds
    BY <2>1, LiveIs DEF LiveBuilds
  <2>4. ASSUME NEW b \in LiveBuilds', MayFlush(b)' PROVE Scheduled(b)'
    <3>1. Scheduled(b)
      BY <2>1, <2>2, <2>3, <2>4 DEF DirtyTold, MayFlush
    <3> QED BY <2>1, <3>1 DEF Scheduled
  <2> QED BY <2>4 DEF DirtyTold
<1>5. CASE ListOwned \/ OwnerEnded \/ PurgeFolder
  <2>1. UNCHANGED <<sess, live, lock, queued, open, thread>>
    BY <1>5 DEF ListOwned, OwnerEnded, PurgeFolder
  <2> QED BY <2>1 DEF DirtyTold, Scheduled, LiveBuilds, MayFlush
<1> QED BY <1>1, <1>2, <1>3, <1>4, <1>5 DEF AdminStep

(* Only the admin's own steps move the admin, or close and open the account. *)
LEMMA AdminWaits ==
    ASSUME \/ \E t \in Threads : ThreadStep(t)
           \/ Background \/ (\E r \in Runs : AdminEnds(r)) \/ UNCHANGED vars
    PROVE  UNCHANGED <<open, admin>>
BY DEF Background, SaverPops, FlushAll, Sweep, AdminEnds, vars, ThreadStep, LetIn, FindRun, FirstLook, TakeLock,
       LockTaken, ReleaseTurn, AfterTurn, NotPlayed, PlayTurn, PlayAndSave, PlayAndMark, Mark, CheckSave,
       SaveRefused, WriteSave, SaveFails, FlushBeforeLoad, Load, Build, BuildRefused, StepTaken, StepSkipped,
       Delete

LEMMA AdminMoves ==
    ASSUME AdminTyped, AdminStep, ~\E r \in Runs : AdminEnds(r)
    PROVE  (AdminTyped' /\ admin'.at # "idle") \/ (admin' = admin /\ open')
<1>1. ASSUME NEW r \in Runs, EndListed(r)
      PROVE  AdminTyped' /\ admin'.at # "idle"
  <2>1. CASE admin' = [admin EXCEPT !.at = "mark", !.todo = {r}, !.busy = TRUE]
    BY <2>1 DEF AdminTyped
  <2>2. CASE admin' = [admin EXCEPT !.todo = @ \ {r}] /\ admin.at = "ending"
    BY <2>2 DEF AdminTyped
  <2> QED BY <1>1, <2>1, <2>2 DEF EndListed
<1>2. ASSUME NEW purge \in BOOLEAN, Disable(purge)
      PROVE  AdminTyped' /\ admin'.at # "idle"
  BY <1>2 DEF Disable, AdminTyped, AdminIdle
<1>3. CASE ListOwned \/ EndWhenDone
  BY <1>3 DEF ListOwned, EndWhenDone, AdminTyped
<1>4. CASE OwnerEnded \/ PurgeFolder
  BY <1>4 DEF OwnerEnded, PurgeFolder, AdminTyped
<1>5. CASE Enable
  BY <1>5 DEF Enable
<1> QED BY <1>1, <1>2, <1>3, <1>4, <1>5 DEF AdminStep

LEMMA AdminTypes == ASSUME AdminTyped, [Next]_vars PROVE AdminTyped'
BY AdminWaits, AdminMoves DEF Next, AdminTyped

LEMMA BeginsOpen ==
    ASSUME SessionsInv, AdminTyped, NothingBegun, [Next]_vars
    PROVE  NothingBegun'
<1> SUFFICES ASSUME ~open', admin'.at = "idle"
             PROVE  LiveBuilds' = {} /\ \A t \in Threads : thread'[t].at = "idle"
  BY DEF NothingBegun
<1>1. CASE \E t \in Threads : ThreadStep(t)
  <2>1. PICK t \in Threads : ThreadStep(t)
    BY <1>1
  <2>2. UNCHANGED <<open, admin>>
    BY <2>1, AdminWaits
  <2>3. thread[t].at = "idle" /\ ~open
    BY <2>2 DEF NothingBegun
  <2> QED BY <2>1, <2>3 DEF ThreadStep, LetIn, FindRun, FirstLook, TakeLock, LockTaken, ReleaseTurn, AfterTurn,
              NotPlayed, PlayTurn, PlayAndSave, PlayAndMark, Mark, CheckSave, SaveRefused, WriteSave, SaveFails,
              FlushBeforeLoad, Load, Build, BuildRefused, StepTaken, StepSkipped, Delete, Steps
<1>2. CASE Background
  <2>1. UNCHANGED <<open, admin>>
    BY <1>2, AdminWaits
  <2>2. LiveBuilds = {} /\ \A t \in Threads : thread[t].at = "idle"
    BY <2>1 DEF NothingBegun
  <2>3. \A r \in Runs : live[r] = 0
    BY <2>2 DEF LiveBuilds
  <2>4. UNCHANGED <<thread, live>>
    <3>1. \A b \in Builds : ~IsLive(b)
      BY <2>3 DEF IsLive
    <3>2. ASSUME NEW b \in Builds, SaverPops(b) PROVE UNCHANGED <<thread, live>>
      BY <3>1, <3>2 DEF SaverPops
    <3>3. \A b \in Builds : ~FlushAll(b)
      BY <2>2 DEF FlushAll
    <3>4. \A r \in Runs : ~Sweep(r)
      BY <2>3 DEF Sweep, CanEnd
    <3> QED BY <1>2, <3>2, <3>3, <3>4 DEF Background
  <2> QED BY <2>2, <2>4 DEF LiveBuilds
<1>3. CASE AdminStep
  <2>1. \E r \in Runs : AdminEnds(r)
    <3>1. ASSUME ~\E r \in Runs : AdminEnds(r) PROVE FALSE
      BY <1>3, <3>1, AdminMoves
    <3> QED BY <3>1
  <2>2. UNCHANGED <<open, admin>>
    BY <2>1 DEF AdminEnds
  <2>3. \A r \in Runs : live[r] = 0
    BY <2>2 DEF NothingBegun, LiveBuilds
  <2> QED BY <2>1, <2>3 DEF AdminEnds, CanEnd
<1>4. CASE UNCHANGED vars
  BY <1>4 DEF vars, NothingBegun, LiveBuilds
<1> QED BY <1>1, <1>2, <1>3, <1>4 DEF Next

LEMMA DirtyStep == DirtyInv /\ [Next]_vars => DirtyInv'
<1> SUFFICES ASSUME DirtyInv, [Next]_vars PROVE DirtyInv'
  OBVIOUS
<1>1. SessionsInv' /\ AdminTyped' /\ NothingBegun'
  BY StepInv, AdminTypes, BeginsOpen DEF DirtyInv
<1>2. CASE UNCHANGED vars
  BY <1>1, <1>2 DEF DirtyInv, vars, DirtyTold, Scheduled, LiveBuilds, MayFlush
<1>3. CASE Next
  <2>1. DirtyTold'
    BY <1>3, DirtyThread, DirtyBackground, DirtyAdmin DEF DirtyInv, Next
  <2> QED BY <1>1, <2>1 DEF DirtyInv
<1> QED BY <1>2, <1>3

(* Phone state that is only in memory is on its way to the disk: whoever    *)
(* makes a run dirty marks it under its lock, who takes its entry saves it  *)
(* or gives the entry back, and a save that fails is marked again           *)
(* (social/saves.py, mark_dirty, DirtySaver._run, save_now).                *)
THEOREM DirtyIsScheduledHolds == Spec => []DirtyIsScheduled
<1>1. DirtyInv => DirtyIsScheduled
  <2> SUFFICES ASSUME DirtyInv, NEW b \in LiveBuilds, MayFlush(b), lock[b] = Free
               PROVE  b \in queued \/ (thread[Saver].on = b /\ thread[Saver].at = "found")
    BY DEF DirtyIsScheduled, MayFlush
  <2>1. Scheduled(b)
    BY DEF DirtyInv, DirtyTold
  <2> QED BY <2>1 DEF Scheduled
<1> QED BY <1>1, DirtyInit, DirtyStep, PTL DEF Spec

----------------------------------------------------------------------------
(* A run marked ending.  A mark is made beside a turn; the window left out  *)
(* is between an end that was refused and its mark.                         *)
MarkAtOnce == admin.at = "mark" => EndWhenDone

HasTurn(b) == lock[b] \in Threads \/ \E t \in Threads : thread[t].at = "hook" /\ thread[t].on = b
EndingTold == \A b \in LiveBuilds : sess[b].ending => HasTurn(b)
MarkTold == admin.at = "mark" => \A r \in admin.todo : live[r] # 0 => lock[live[r]] \in Threads
EndingInv == SessionsInv /\ AdminTyped /\ EndingTold /\ MarkTold

(* No thread marks a run, nor moves a run's mark. *)
LEMMA EndingKept ==
    ASSUME SessionsInv, NEW t \in Threads, ThreadStep(t), ~Build(t), NEW b \in Builds
    PROVE  sess'[b].ending = sess[b].ending
<1>1. sess \in [Builds -> [run : Runs \cup {0}, mem : SUBSET Plays, dirty : BOOLEAN, ending : BOOLEAN]]
  BY DEF SessionsInv, SessionsTypeOK
<1>2. \/ UNCHANGED sess
      \/ \E x, new : sess' = [sess EXCEPT ![x].mem = new]
      \/ \E x, new : sess' = [sess EXCEPT ![x].dirty = new]
      \/ \E x, new, old : sess' = [sess EXCEPT ![x].mem = new, ![x].dirty = old]
  <2>1. CASE PlayTurn(t) \/ PlayAndSave(t)
    BY <2>1 DEF PlayTurn, PlayAndSave, Played
  <2>2. CASE PlayAndMark(t)
    BY <2>2 DEF PlayAndMark
  <2>3. CASE CheckSave(t) \/ SaveFails(t) \/ StepTaken(t)
    BY <2>3 DEF CheckSave, SaveFails, StepTaken
  <2> QED BY <2>1, <2>2, <2>3 DEF ThreadStep, LetIn, FindRun, FirstLook, TakeLock, LockTaken, ReleaseTurn,
              AfterTurn, NotPlayed, Mark, SaveRefused, WriteSave, FlushBeforeLoad, Load, BuildRefused,
              StepSkipped, Delete
<1>3. ASSUME NEW x, NEW new, sess' = [sess EXCEPT ![x].mem = new] PROVE sess'[b].ending = sess[b].ending
  BY <1>1, <1>3
<1>4. ASSUME NEW x, NEW new, sess' = [sess EXCEPT ![x].dirty = new] PROVE sess'[b].ending = sess[b].ending
  BY <1>1, <1>4
<1>5. ASSUME NEW x, NEW new, NEW old, sess' = [sess EXCEPT ![x].mem = new, ![x].dirty = old]
      PROVE  sess'[b].ending = sess[b].ending
  BY <1>1, <1>5
<1>6. CASE UNCHANGED sess
  BY <1>6
<1> QED BY <1>2, <1>3, <1>4, <1>5, <1>6

(* A lock is let go in release_turn alone. *)
LEMMA KeepsLock ==
    ASSUME SessionsInv, NEW t \in Threads, ThreadStep(t), ~ReleaseTurn(t), NEW b \in Builds, lock[b] = t
    PROVE  lock'[b] = t
<1>1. lock \in [Builds -> Threads \cup {Free, Kept}]
  BY DEF SessionsInv, SessionsTypeOK
<1>2. CASE TakeLock(t) \/ FlushBeforeLoad(t) \/ StepTaken(t)
  BY <1>1, <1>2 DEF TakeLock, FlushBeforeLoad, StepTaken
<1>3. CASE AfterTurn(t)
  BY <1>1, <1>3 DEF AfterTurn, CanEnd, End
<1>4. CASE Build(t)
  BY <1>1, <1>4 DEF Build, Taken, OwnerBusy
<1>5. CASE UNCHANGED lock
  BY <1>5
<1> QED BY <1>2, <1>3, <1>4, <1>5 DEF ThreadStep, LetIn, FindRun, FirstLook, LockTaken, NotPlayed, PlayTurn,
              PlayAndSave, PlayAndMark, Mark, CheckSave, SaveRefused, WriteSave, SaveFails, Load, BuildRefused,
              StepSkipped, Delete

LEMMA EndingThread ==
    ASSUME SessionsInv, EndingTold, NEW t \in Threads, ThreadStep(t)
    PROVE  EndingTold'
<1> SUFFICES ASSUME NEW b \in LiveBuilds', sess'[b].ending PROVE HasTurn(b)'
  BY DEF EndingTold
<1>1. CASE Build(t)
  BY <1>1, BuiltAnew
<1>2. CASE ~Build(t)
  <2>1. thread \in [Threads -> ThreadState] /\ live \in [Runs -> Builds \cup {0}]
        /\ lock \in [Builds -> Threads \cup {Free, Kept}]
    BY DEF SessionsInv, SessionsTypeOK
  <2>2. b \in LiveBuilds /\ b \in Builds /\ IsLive(b) /\ lock[b] # Kept
    BY <1>2, LiveBefore, LiveIs
  <2>3. sess[b].ending /\ HasTurn(b)
    BY <1>2, <2>2, EndingKept DEF EndingTold
  <2>4. ASSUME NEW u \in Threads, u # t, lock[b] = u \/ (thread[u].at = "hook" /\ thread[u].on = b)
        PROVE  HasTurn(b)'
    BY <2>2, <2>4, OthersAlone DEF HasTurn
  <2>5. CASE lock[b] = t /\ ~ReleaseTurn(t)
    BY <2>2, <2>5, KeepsLock DEF HasTurn
  <2>6. CASE lock[b] = t /\ ReleaseTurn(t)
    <3>1. thread[t].on = b
      BY <2>2, <2>6 DEF SessionsInv, LockTold
    <3>2. thread'[t].at = "hook" /\ thread'[t].on = b
      BY <2>1, <2>6, <3>1 DEF ReleaseTurn, Go, ThreadState
    <3> QED BY <3>2 DEF HasTurn
  <2>7. CASE thread[t].at = "hook" /\ thread[t].on = b
    <3>1. AfterTurn(t)
      BY <2>7 DEF ThreadStep, LetIn, FindRun, FirstLook, TakeLock, LockTaken, ReleaseTurn, NotPlayed,
              PlayTurn, PlayAndSave, PlayAndMark, Mark, CheckSave, SaveRefused, WriteSave, SaveFails,
              FlushBeforeLoad, Load, Build, BuildRefused, StepTaken, StepSkipped, Delete, Steps
    <3>2. CASE CanEnd(sess[b].run)
      <4>1. live' = [live EXCEPT ![sess[b].run] = 0]
        BY <2>3, <2>7, <3>1, <3>2 DEF AfterTurn, End
      <4>2. PICK q \in Runs : b = live'[q] /\ b # 0
        BY DEF LiveBuilds
      <4>3. q # sess[b].run /\ live[q] = b
        BY <2>1, <2>2, <4>1, <4>2 DEF IsLive
      <4> QED BY <4>2, <4>3 DEF SessionsInv, LiveTold
    <3>3. CASE ~CanEnd(sess[b].run)
      <4>1. UNCHANGED lock
        BY <2>3, <2>7, <3>1, <3>3 DEF AfterTurn
      <4>2. lock[b] \in Threads
        BY <2>1, <2>2, <3>3 DEF IsLive, CanEnd
      <4> QED BY <4>1, <4>2 DEF HasTurn
    <3> QED BY <3>2, <3>3
  <2> QED BY <2>3, <2>4, <2>5, <2>6, <2>7 DEF HasTurn
<1> QED BY <1>1, <1>2

(* A run that leaves the store takes nobody's turn with it. *)
LEMMA EndingEnds ==
    ASSUME SessionsInv, EndingTold, NEW r \in Runs, CanEnd(r), End(r), UNCHANGED sess,
           \A u \in Threads : thread[u].at # "idle" => thread'[u] = thread[u]
    PROVE  EndingTold'
<1> SUFFICES ASSUME NEW b \in LiveBuilds', sess'[b].ending PROVE HasTurn(b)'
  BY DEF EndingTold
<1>1. live \in [Runs -> Builds \cup {0}] /\ lock \in [Builds -> Threads \cup {Free, Kept}]
  BY DEF SessionsInv, SessionsTypeOK
<1>2. PICK q \in Runs : b = live'[q] /\ b # 0
  BY DEF LiveBuilds
<1>3. q # r /\ b = live[q] /\ b \in LiveBuilds
  BY <1>1, <1>2 DEF End, LiveBuilds
<1>4. live[r] # b
  BY <1>2, <1>3 DEF SessionsInv, LiveTold
<1>5. lock'[b] = lock[b] /\ HasTurn(b)
  BY <1>1, <1>3, <1>4 DEF End, EndingTold
<1> QED BY <1>5 DEF HasTurn

LEMMA EndingBackground ==
    ASSUME SessionsInv, EndingTold, Background
    PROVE  EndingTold'
<1>1. \A u \in Threads : thread[u].at # "idle" => thread'[u] = thread[u]
  BY DEF SessionsInv, SessionsTypeOK, Background, SaverPops, FlushAll, Sweep
<1>2. CASE UNCHANGED <<live, sess, lock>>
  BY <1>1, <1>2 DEF EndingTold, LiveBuilds, HasTurn
<1>3. ASSUME NEW r \in Runs, Sweep(r) PROVE EndingTold'
  BY <1>1, <1>3, EndingEnds DEF Sweep
<1> QED BY <1>2, <1>3 DEF Background, SaverPops, FlushAll

LEMMA EndingAdmin ==
    ASSUME EndingInv, AdminStep, MarkAtOnce
    PROVE  EndingTold' /\ MarkTold'
<1>1. live \in [Runs -> Builds \cup {0}] /\ lock \in [Builds -> Threads \cup {Free, Kept}]
      /\ sess \in [Builds -> [run : Runs \cup {0}, mem : SUBSET Plays, dirty : BOOLEAN, ending : BOOLEAN]]
  BY DEF EndingInv, SessionsInv, SessionsTypeOK
<1>2. CASE EndWhenDone
  <2>1. UNCHANGED <<live, lock, thread>> /\ admin'.at # "mark"
    BY <1>2 DEF EndWhenDone, EndingInv, AdminTyped
  <2>2. PICK r \in admin.todo : sess' = IF live[r] = 0 THEN sess ELSE [sess EXCEPT ![live[r]].ending = TRUE]
    BY <1>2 DEF EndWhenDone
  <2>3. live[r] # 0 => lock[live[r]] \in Threads
    BY <1>2 DEF EndWhenDone, EndingInv, MarkTold
  <2>4. ASSUME NEW b \in LiveBuilds, sess'[b].ending PROVE HasTurn(b)
    <3>1. b \in Builds
      BY LiveIs DEF EndingInv
    <3>2. CASE b = live[r]
      BY <2>3, <3>1, <3>2 DEF HasTurn
    <3>3. CASE b # live[r]
      <4>1. sess'[b] = sess[b]
        BY <1>1, <2>2, <3>1, <3>3
      <4> QED BY <2>4, <4>1 DEF EndingInv, EndingTold
    <3> QED BY <3>2, <3>3
  <2> QED BY <2>1, <2>4 DEF EndingTold, MarkTold, LiveBuilds, HasTurn
<1>3. ASSUME ~EndWhenDone PROVE admin.at # "mark"
  BY <1>3 DEF MarkAtOnce
<1>4. ASSUME NEW r \in Runs, AdminEnds(r) \/ EndListed(r)
      PROVE  EndingTold' /\ MarkTold'
  <2>1. UNCHANGED <<sess, thread>>
    BY <1>4 DEF AdminEnds, EndListed
  <2>2. EndingTold'
    <3>1. CASE CanEnd(r) /\ End(r)
      BY <2>1, <3>1, EndingEnds DEF EndingInv
    <3>2. CASE UNCHANGED <<live, lock>>
      BY <2>1, <3>2 DEF EndingInv, EndingTold, LiveBuilds, HasTurn
    <3> QED BY <1>4, <3>1, <3>2 DEF AdminEnds, EndListed
  <2>3. MarkTold'
    <3>1. CASE /\ live[r] # 0 /\ ~CanEnd(r) /\ UNCHANGED <<live, lock>>
               /\ admin' = [admin EXCEPT !.at = "mark", !.todo = {r}, !.busy = TRUE]
      <4>1. lock[live[r]] \in Threads
        BY <1>1, <3>1 DEF CanEnd, EndingInv, SessionsInv, LiveTold
      <4>2. admin'.todo = {r}
        BY <3>1 DEF EndingInv, AdminTyped
      <4> QED BY <3>1, <4>1, <4>2 DEF MarkTold
    <3>2. CASE admin.at = "ending" /\ admin' = [admin EXCEPT !.todo = @ \ {r}]
      BY <3>2 DEF MarkTold, EndingInv, AdminTyped
    <3>3. CASE AdminEnds(r)
      BY <3>3 DEF AdminEnds, MarkTold
    <3> QED BY <1>4, <3>1, <3>2, <3>3 DEF EndListed
  <2> QED BY <2>2, <2>3
<1>5. CASE ListOwned \/ OwnerEnded \/ PurgeFolder \/ Enable \/ \E purge \in BOOLEAN : Disable(purge)
  <2>1. UNCHANGED <<sess, live, lock, thread>>
    BY <1>5 DEF ListOwned, OwnerEnded, PurgeFolder, Enable, Disable
  <2>2. admin'.at # "mark"
    BY <1>5 DEF ListOwned, OwnerEnded, PurgeFolder, Enable, Disable, AdminIdle, EndingInv, AdminTyped
  <2> QED BY <2>1, <2>2 DEF EndingInv, EndingTold, MarkTold, LiveBuilds, HasTurn
<1> QED BY <1>2, <1>4, <1>5 DEF AdminStep

LEMMA EndingStep == EndingInv /\ [Next]_vars /\ [MarkAtOnce]_vars => EndingInv'
<1> SUFFICES ASSUME EndingInv, [Next]_vars, [MarkAtOnce]_vars PROVE EndingInv'
  OBVIOUS
<1>1. SessionsInv' /\ AdminTyped'
  BY StepInv, AdminTypes DEF EndingInv
<1>2. CASE UNCHANGED vars
  BY <1>1, <1>2 DEF EndingInv, vars, EndingTold, MarkTold, LiveBuilds, HasTurn
<1>3. CASE (\E t \in Threads : ThreadStep(t)) \/ Background
  <2>1. UNCHANGED <<open, admin>>
    BY <1>3, AdminWaits
  <2>2. admin.at # "mark" \/ UNCHANGED vars
    BY <2>1 DEF MarkAtOnce, EndWhenDone, EndingInv, AdminTyped
  <2>3. EndingTold'
    BY <1>3, EndingThread, EndingBackground DEF EndingInv
  <2> QED BY <1>1, <1>2, <2>1, <2>2, <2>3 DEF EndingInv, MarkTold
<1>4. CASE AdminStep /\ MarkAtOnce
  BY <1>1, <1>4, EndingAdmin DEF EndingInv
<1> QED BY <1>2, <1>3, <1>4 DEF Next

(* A live run marked ending has a turn whose release will end it, whoever   *)
(* takes and leaves its lock after the mark (store.py, end_owner,           *)
(* _end_when_done, release_turn).  The window between an end that was       *)
(* refused and its mark is left out.                                        *)
THEOREM EndingHasATurnHolds == Spec /\ [][MarkAtOnce]_vars => []EndingHasATurn
<1>1. Init => EndingInv
  <2> SUFFICES ASSUME Init PROVE EndingInv
    OBVIOUS
  <2>1. LiveBuilds = {} /\ admin = AdminIdle
    BY DEF Init, LiveBuilds
  <2>2. AdminTyped /\ admin.at = "idle"
    BY <2>1 DEF AdminIdle, AdminTyped
  <2>3. SessionsInv
    BY InitInv
  <2> QED BY <2>1, <2>2, <2>3 DEF EndingInv, EndingTold, MarkTold
<1>2. EndingInv => EndingHasATurn
  BY DEF EndingInv, EndingTold, HasTurn, EndingHasATurn
<1> QED BY <1>1, <1>2, EndingStep, PTL DEF Spec

----------------------------------------------------------------------------
(* A run that is being created is its creator's alone.  Where a thread is   *)
(* tells what it was asked; a create that flushes works on another's run.   *)
Starts == {"stamp", "first", "delete"}
TurnTold(me) ==
    /\ me.op = "turn" => /\ me.at \in {"in", "found", "playing", "checking", "writing", "after", "marking"}
                         /\ me.then = "idle" /\ me.how \in {"none", "autosave"}
    /\ me.how = "autosave" => me.op = "turn"
CreateTold(me) ==
    /\ me.at \in Starts \/ me.then \in Starts => me.op = "create"
    /\ me.op = "create" =>
          /\ me.at \in {"in", "build", "checking", "writing", "marking", "release", "hook"} \cup Starts
          /\ me.then \in {"idle"} \cup Starts
AnothersRun(me) ==
    me.op = "create" /\ (me.at = "marking" \/ (me.at \in {"checking", "writing"} /\ me.how = "now")) =>
        sess[me.on].run # me.run
NewTold(me) == me.new # 0 => sess[me.new].run = me.run
Told(t) == TurnTold(thread[t]) /\ CreateTold(thread[t]) /\ AnothersRun(thread[t]) /\ NewTold(thread[t])

FreshTold ==
    \A t \in Threads : thread[t].op = "create" =>
        /\ \A u \in Threads : u # t =>
              /\ thread[u].run # thread[t].run
              /\ thread[u].on # 0 => sess[thread[u].on].run # thread[t].run
        /\ \A b \in Builds : sess[b].run = thread[t].run => ~sess[b].dirty

FreshInv == SessionsInv /\ (\A t \in Threads : Told(t)) /\ FreshTold

LEMMA FreshInit == Init => FreshInv
<1> SUFFICES ASSUME Init PROVE FreshInv
  OBVIOUS
<1>1. \A t \in Threads : thread[t] = Idle
  BY DEF Init
<1>2. Idle.op = "none" /\ Idle.at = "idle" /\ Idle.then = "idle" /\ Idle.how = "none" /\ Idle.new = 0
  BY DEF Idle
<1>3. \A t \in Threads : Told(t)
  BY <1>1, <1>2 DEF Told, TurnTold, CreateTold, AnothersRun, NewTold, Starts
<1>4. FreshTold
  BY <1>1, <1>2 DEF FreshTold
<1> QED BY <1>3, <1>4, InitInv DEF FreshInv

(* What a thread may become: it starts nothing new, keeps its run or drops  *)
(* it, and turns to a build of its run or to a dirty one, if it turns.      *)
Becomes(t, me) ==
    /\ me \in ThreadState /\ thread' = [thread EXCEPT ![t] = me]
    /\ me.op = "create" => thread[t].op = "create" /\ me.run = thread[t].run
    /\ me.run \in {thread[t].run, 0}
    /\ me.on # 0 =>
          \/ me.on = thread[t].on
          \/ sess'[me.on].run = thread[t].run
          \/ sess'[me.on].run = sess[me.on].run /\ sess[me.on].dirty
    /\ TurnTold(me) /\ CreateTold(me)

(* No made build changes hands, and only its worker makes a build dirty.    *)
RunsKept(t) ==
    /\ \A b \in Builds : sess'[b].run # sess[b].run => b > epoch /\ ~sess'[b].dirty
    /\ \A b \in Builds : sess'[b].dirty =>
          \/ sess[b].dirty
          \/ thread[t].op = "create" => sess[b].run # thread[t].run
    /\ \A b \in Builds : sess'[b].dirty /\ ~sess[b].dirty => b = thread[t].on

LEMMA FreshMoves ==
    ASSUME FreshInv, NEW t \in Threads, NEW me, Becomes(t, me), RunsKept(t),
           AnothersRun(thread[t])', NewTold(thread[t])', SessionsInv'
    PROVE  FreshInv'
<1>1. thread \in [Threads -> ThreadState] /\ thread'[t] = me /\ epoch \in Nat
      /\ \A u \in Threads : u # t => thread'[u] = thread[u]
  BY DEF Becomes, FreshInv, SessionsInv, SessionsTypeOK
<1>2. \A u \in Threads : /\ thread[u].on \in Builds \cup {0} /\ thread[u].on <= epoch
                         /\ thread[u].new \in Builds \cup {0} /\ thread[u].new <= epoch
                         /\ (thread[u].at \in Locked => thread[u].on # 0)
  BY <1>1 DEF FreshInv, SessionsInv, UnmadeTold, LockTold, ThreadState
<1>3. \A b \in Builds : b <= epoch => sess'[b].run = sess[b].run
  BY <1>1 DEF RunsKept
<1>4. ASSUME NEW u \in Threads PROVE Told(u)'
  <2>1. CASE u = t
    BY <1>1, <2>1 DEF Told, Becomes, TurnTold, CreateTold
  <2>2. CASE u # t
    <3>1. thread'[u] = thread[u] /\ TurnTold(thread[u]) /\ CreateTold(thread[u])
      BY <1>1, <2>2 DEF FreshInv, Told
    <3>2. AnothersRun(thread[u])'
      BY <1>2, <1>3, <3>1 DEF FreshInv, Told, AnothersRun, Locked
    <3>3. NewTold(thread[u])'
      BY <1>2, <1>3, <3>1 DEF FreshInv, Told, NewTold
    <3> QED BY <3>1, <3>2, <3>3 DEF Told, TurnTold, CreateTold
  <2> QED BY <2>1, <2>2
<1>5. ASSUME NEW c \in Threads, thread'[c].op = "create"
      PROVE  /\ \A u \in Threads : u # c =>
                   /\ thread'[u].run # thread'[c].run
                   /\ thread'[u].on # 0 => sess'[thread'[u].on].run # thread'[c].run
             /\ \A b \in Builds : sess'[b].run = thread'[c].run => ~sess'[b].dirty
  <2>1. thread[c].op = "create" /\ thread'[c].run = thread[c].run /\ thread[c].run \in Runs
    <3>1. thread[c].op = "create" /\ thread'[c].run = thread[c].run
      BY <1>1, <1>5 DEF Becomes
    <3> QED BY <3>1 DEF FreshInv, SessionsInv, Placed
  <2>2. /\ \A u \in Threads : u # c =>
              /\ thread[u].run # thread[c].run
              /\ thread[u].on # 0 => sess[thread[u].on].run # thread[c].run
        /\ \A b \in Builds : sess[b].run = thread[c].run => ~sess[b].dirty
    BY <2>1 DEF FreshInv, FreshTold
  <2>3. ASSUME NEW u \in Threads, u # c, u # t
        PROVE  /\ thread'[u].run # thread[c].run
               /\ thread'[u].on # 0 => sess'[thread'[u].on].run # thread[c].run
    BY <1>1, <1>2, <1>3, <2>2, <2>3
  <2>4. ASSUME t # c
        PROVE  /\ thread'[t].run # thread[c].run
               /\ thread'[t].on # 0 => sess'[thread'[t].on].run # thread[c].run
    <3>1. thread'[t].run # thread[c].run
      BY <1>1, <2>1, <2>2, <2>4 DEF Becomes
    <3>2. CASE me.on = thread[t].on
      BY <1>1, <1>2, <1>3, <2>2, <2>4, <3>1, <3>2
    <3>3. CASE me.on # 0 /\ sess'[me.on].run = thread[t].run
      BY <1>1, <2>2, <2>4, <3>1, <3>3
    <3>4. CASE me.on # 0 /\ sess'[me.on].run = sess[me.on].run /\ sess[me.on].dirty
      <4>1. me.on \in Builds
        BY <3>4 DEF Becomes, ThreadState
      <4> QED BY <1>1, <2>2, <3>1, <3>4, <4>1
    <3> QED BY <1>1, <3>1, <3>2, <3>3, <3>4 DEF Becomes
  <2>5. ASSUME NEW b \in Builds, sess'[b].run = thread[c].run PROVE ~sess'[b].dirty
    <3>1. CASE sess'[b].run # sess[b].run
      BY <3>1 DEF RunsKept
    <3>2. CASE sess'[b].run = sess[b].run
      <4>1. ~sess[b].dirty
        BY <2>2, <2>5, <3>2
      <4>2. CASE c = t
        BY <2>1, <2>5, <3>2, <4>1, <4>2 DEF RunsKept
      <4>3. CASE c # t
        <5>1. thread[t].on # 0 => sess[thread[t].on].run # thread[c].run
          BY <2>2, <4>3
        <5>2. sess'[b].dirty => b = thread[t].on /\ b # 0
          BY <4>1 DEF RunsKept
        <5> QED BY <2>5, <3>2, <5>1, <5>2
      <4> QED BY <4>2, <4>3
    <3> QED BY <3>1, <3>2
  <2> QED BY <2>1, <2>3, <2>4, <2>5
<1>6. FreshTold'
  BY <1>5 DEF FreshTold
<1> QED BY <1>4, <1>6 DEF FreshInv

LEMMA ThreadIs ==
    ASSUME FreshInv, NEW t \in Threads
    PROVE  /\ thread[t] \in ThreadState /\ thread \in [Threads -> ThreadState] /\ Told(t)
           /\ thread[t].on \in Builds \cup {0} /\ thread[t].on <= epoch
           /\ thread[t].new \in Builds \cup {0} /\ thread[t].new <= epoch
           /\ (thread[t].at \in Locked => thread[t].on # 0)
           /\ epoch \in Nat
BY DEF FreshInv, SessionsInv, SessionsTypeOK, UnmadeTold, LockTold, ThreadState

LEMMA MadeStay ==
    ASSUME FreshInv, NEW t \in Threads, RunsKept(t)
    PROVE  \A b \in Builds : b <= epoch => sess'[b].run = sess[b].run
BY ThreadIs DEF RunsKept

LEMMA SameRuns == ASSUME UNCHANGED sess, NEW t PROVE RunsKept(t)
BY DEF RunsKept

LEMMA FreshIdle ==
    ASSUME FreshInv, NEW t \in Threads, GoIdle(t), RunsKept(t), SessionsInv'
    PROVE  FreshInv'
<1>1. Idle.op = "none" /\ Idle.at = "idle" /\ Idle.then = "idle" /\ Idle.how = "none" /\ Idle.new = 0
      /\ Idle.on = 0 /\ Idle.run = 0 /\ Idle \in ThreadState
  BY DEF Idle, ThreadState, Places
<1>2. thread' = [thread EXCEPT ![t] = Idle] /\ thread'[t] = Idle
  BY ThreadIs DEF GoIdle
<1>3. Becomes(t, Idle)
  BY <1>1, <1>2 DEF Becomes, TurnTold, CreateTold, Starts
<1>4. AnothersRun(thread[t])' /\ NewTold(thread[t])'
  BY <1>1, <1>2 DEF AnothersRun, NewTold
<1> QED BY <1>3, <1>4, FreshMoves

TurnPlaces == {"in", "found", "playing", "checking", "writing", "after", "marking"}
CreatePlaces == {"in", "build", "checking", "writing", "marking", "release", "hook"} \cup Starts

LEMMA FreshGo ==
    ASSUME FreshInv, NEW t \in Threads, NEW place \in Places, Go(t, place), RunsKept(t), SessionsInv',
           thread[t].op = "turn" => place \in TurnPlaces,
           thread[t].op = "create" => place \in CreatePlaces,
           place \in Starts => thread[t].op = "create",
           thread[t].op = "create"
             /\ (place = "marking" \/ (place \in {"checking", "writing"} /\ thread[t].how = "now"))
               => thread[t].at \in {"checking", "writing"} /\ thread[t].how = "now"
    PROVE  FreshInv'
<1> DEFINE me == [thread[t] EXCEPT !.at = place]
<1>1. thread' = [thread EXCEPT ![t] = me]
  BY ThreadIs DEF Go
<1>2. me \in ThreadState /\ me.at = place /\ me.op = thread[t].op /\ me.on = thread[t].on
      /\ me.new = thread[t].new /\ me.run = thread[t].run /\ me.how = thread[t].how /\ me.then = thread[t].then
  BY ThreadIs DEF ThreadState
<1> HIDE DEF me
<1>3. thread'[t] = me
  BY <1>1, ThreadIs
<1>4. TurnTold(me) /\ CreateTold(me)
  BY <1>2, ThreadIs DEF Told, TurnTold, CreateTold, TurnPlaces, CreatePlaces
<1>5. AnothersRun(thread[t])'
  <2>1. SUFFICES ASSUME me.op = "create", me.at = "marking" \/ (me.at \in {"checking", "writing"} /\ me.how = "now")
                 PROVE  sess'[me.on].run # me.run
    BY <1>3 DEF AnothersRun
  <2>2. thread[t].op = "create" /\ thread[t].at \in {"checking", "writing"} /\ thread[t].how = "now"
    BY <1>2, <2>1
  <2>3. sess[thread[t].on].run # thread[t].run
    BY <2>2, ThreadIs DEF Told, AnothersRun
  <2>4. thread[t].on \in Builds /\ thread[t].on <= epoch
    BY <2>2, ThreadIs DEF Locked
  <2>5. sess'[thread[t].on].run = sess[thread[t].on].run
    BY <2>4, MadeStay
  <2> QED BY <1>2, <2>3, <2>5
<1>6. NewTold(thread[t])'
  BY <1>2, <1>3, ThreadIs, MadeStay DEF Told, NewTold
<1>7. Becomes(t, me)
  BY <1>1, <1>2, <1>4 DEF Becomes
<1> QED BY <1>5, <1>6, <1>7, FreshMoves

LEMMA FreshGoOn ==
    ASSUME FreshInv, NEW t \in Threads, GoOn(t), RunsKept(t), SessionsInv'
    PROVE  FreshInv'
<1>1. CASE thread[t].then = "idle"
  BY <1>1, FreshIdle DEF GoOn
<1>2. CASE thread[t].then # "idle"
  <2> DEFINE o == IF thread[t].new # 0 THEN thread[t].new ELSE thread[t].on
             me == [thread[t] EXCEPT !.at = thread[t].then, !.then = "idle", !.on = o]
  <2>1. thread' = [thread EXCEPT ![t] = me]
    BY <1>2, ThreadIs DEF GoOn
  <2>2. thread[t].then \in Places /\ o \in Builds \cup {0}
    BY <1>2, ThreadIs DEF ThreadState, Places, Steps
  <2>3. (o # thread[t].on => o = thread[t].new /\ o # 0)
    OBVIOUS
  <2> HIDE DEF o
  <2>4. me \in ThreadState /\ me.at = thread[t].then /\ me.op = thread[t].op /\ me.on = o
        /\ me.new = thread[t].new /\ me.run = thread[t].run /\ me.how = thread[t].how /\ me.then = "idle"
    BY <2>2, ThreadIs DEF ThreadState
  <2> HIDE DEF me
  <2>5. thread'[t] = me
    BY <2>1, ThreadIs
  <2>6. thread[t].then \in {"load", "delete"} \cup Steps
    BY <1>2, ThreadIs DEF ThreadState
  <2>7. TurnTold(me) /\ CreateTold(me)
    BY <1>2, <2>4, <2>6, ThreadIs DEF Told, TurnTold, CreateTold, Starts, Steps
  <2>8. AnothersRun(thread[t])'
    BY <2>4, <2>5, <2>6 DEF AnothersRun, Steps
  <2>9. NewTold(thread[t])'
    BY <2>4, <2>5, ThreadIs, MadeStay DEF Told, NewTold
  <2>10. o # thread[t].on => sess'[o].run = thread[t].run
    BY <2>3, ThreadIs, MadeStay DEF Told, NewTold
  <2>11. Becomes(t, me)
    BY <2>1, <2>4, <2>7, <2>10 DEF Becomes
  <2> QED BY <2>8, <2>9, <2>11, FreshMoves
<1> QED BY <1>1, <1>2

LEMMA FreshLeaveFor ==
    ASSUME FreshInv, NEW t \in Threads, NEW place \in {"idle", "load", "delete"} \cup Steps,
           LeaveFor(t, place), RunsKept(t), SessionsInv',
           thread[t].op = "turn" => place = "idle",
           thread[t].op = "create" => place \in {"idle"} \cup Starts,
           place \in Starts => thread[t].op = "create"
    PROVE  FreshInv'
<1>1. CASE place = "idle" /\ thread[t].op # "create"
  <2> DEFINE me == [Idle EXCEPT !.at = "release", !.on = thread[t].on]
  <2>1. thread' = [thread EXCEPT ![t] = me]
    BY <1>1 DEF LeaveFor
  <2>2. me \in ThreadState /\ me.at = "release" /\ me.op = "none" /\ me.on = thread[t].on
        /\ me.new = 0 /\ me.run = 0 /\ me.how = "none" /\ me.then = "idle"
    BY ThreadIs DEF Idle, ThreadState, Places
  <2> HIDE DEF me
  <2>3. thread'[t] = me
    BY <2>1, ThreadIs
  <2>4. Becomes(t, me)
    BY <2>1, <2>2 DEF Becomes, TurnTold, CreateTold, Starts
  <2>5. AnothersRun(thread[t])' /\ NewTold(thread[t])'
    BY <2>2, <2>3 DEF AnothersRun, NewTold
  <2> QED BY <2>4, <2>5, FreshMoves
<1>2. CASE ~(place = "idle" /\ thread[t].op # "create")
  <2> DEFINE me == [thread[t] EXCEPT !.at = "release", !.how = "none", !.then = place]
  <2>1. thread' = [thread EXCEPT ![t] = me]
    BY <1>2 DEF LeaveFor
  <2>2. me \in ThreadState /\ me.at = "release" /\ me.op = thread[t].op /\ me.on = thread[t].on
        /\ me.new = thread[t].new /\ me.run = thread[t].run /\ me.how = "none" /\ me.then = place
    BY ThreadIs DEF ThreadState, Places
  <2> HIDE DEF me
  <2>3. thread'[t] = me
    BY <2>1, ThreadIs
  <2>4. TurnTold(me) /\ CreateTold(me)
    BY <1>2, <2>2 DEF TurnTold, CreateTold, Starts
  <2>5. Becomes(t, me)
    BY <2>1, <2>2, <2>4 DEF Becomes
  <2>6. AnothersRun(thread[t])'
    BY <2>2, <2>3 DEF AnothersRun
  <2>7. NewTold(thread[t])'
    BY <2>2, <2>3, ThreadIs, MadeStay DEF Told, NewTold
  <2> QED BY <2>5, <2>6, <2>7, FreshMoves
<1> QED BY <1>1, <1>2

LEMMA FreshLeave ==
    ASSUME FreshInv, NEW t \in Threads, Leave(t), RunsKept(t), SessionsInv'
    PROVE  FreshInv'
<1>1. /\ thread[t].then \in {"idle", "load", "delete"} \cup Steps
      /\ thread[t].op = "turn" => thread[t].then = "idle"
      /\ thread[t].op = "create" => thread[t].then \in {"idle"} \cup Starts
      /\ thread[t].then \in Starts => thread[t].op = "create"
  BY ThreadIs DEF ThreadState, Told, TurnTold, CreateTold
<1> QED BY <1>1, FreshGoOn, FreshLeaveFor DEF Leave

(* The gate lets a create in for a run nobody has, any other request for a  *)
(* run whose create has answered.                                           *)
LEMMA FreshLetIn ==
    ASSUME FreshInv, NEW t \in Threads, NEW r \in Runs,
           NEW op \in {"turn", "action", "write", "create", "resume"}, LetIn(t, r, op), SessionsInv'
    PROVE  FreshInv'
<1> DEFINE me == [Idle EXCEPT !.at = "in", !.op = op, !.run = r]
<1>1. me.at = "in" /\ me.op = op /\ me.run = r /\ me.on = 0 /\ me.new = 0 /\ me.then = "idle" /\ me.how = "none"
  BY DEF Idle
<1>2. thread' = [thread EXCEPT ![t] = me] /\ UNCHANGED sess
      /\ IF op = "create" THEN Unused(r) ELSE Known(r)
  BY DEF LetIn
<1> HIDE DEF me
<1>3. thread'[t] = me /\ \A u \in Threads : u # t => thread'[u] = thread[u]
  BY <1>2, ThreadIs
<1>4. TurnTold(me) /\ CreateTold(me)
  BY <1>1 DEF TurnTold, CreateTold, Starts
<1>5. AnothersRun(thread[t])' /\ NewTold(thread[t])'
  BY <1>1, <1>3 DEF AnothersRun, NewTold
<1>6. ASSUME NEW u \in Threads PROVE Told(u)'
  <2>1. CASE u = t
    BY <1>3, <1>4, <1>5, <2>1 DEF Told, TurnTold, CreateTold
  <2>2. CASE u # t
    <3>1. thread'[u] = thread[u] /\ Told(u)
      BY <1>3, <2>2 DEF FreshInv
    <3> QED BY <1>2, <3>1 DEF Told, TurnTold, CreateTold, AnothersRun, NewTold
  <2> QED BY <2>1, <2>2
<1>7. ASSUME NEW c \in Threads, thread'[c].op = "create"
      PROVE  /\ \A u \in Threads : u # c =>
                   /\ thread'[u].run # thread'[c].run
                   /\ thread'[u].on # 0 => sess'[thread'[u].on].run # thread'[c].run
             /\ \A b \in Builds : sess'[b].run = thread'[c].run => ~sess'[b].dirty
  <2>1. CASE c = t
    <3>1. Unused(r) /\ thread'[c].run = r
      BY <1>1, <1>2, <1>3, <1>7, <2>1
    <3>2. \A b \in Builds : sess[b].run # r
      BY <3>1 DEF Unused
    <3>3. \A u \in Threads : u # c => thread[u].run # r
      BY <3>1 DEF Unused
    <3>4. \A u \in Threads : thread[u].on # 0 => thread[u].on \in Builds
      BY ThreadIs
    <3> QED BY <1>2, <1>3, <2>1, <3>1, <3>2, <3>3, <3>4
  <2>2. CASE c # t
    <3>1. thread'[c] = thread[c] /\ thread[c].op = "create"
      BY <1>3, <1>7, <2>2
    <3>2. /\ \A u \in Threads : u # c =>
                /\ thread[u].run # thread[c].run
                /\ thread[u].on # 0 => sess[thread[u].on].run # thread[c].run
          /\ \A b \in Builds : sess[b].run = thread[c].run => ~sess[b].dirty
      BY <3>1 DEF FreshInv, FreshTold
    <3>3. r # thread[c].run
      BY <1>2, <3>1 DEF Unused, Known
    <3>4. \A u \in Threads : u # c =>
                /\ thread'[u].run # thread[c].run
                /\ thread'[u].on # 0 => sess[thread'[u].on].run # thread[c].run
      BY <1>1, <1>3, <3>2, <3>3
    <3> QED BY <1>2, <3>1, <3>2, <3>4
  <2> QED BY <2>1, <2>2
<1>8. FreshTold'
  BY <1>7 DEF FreshTold
<1> QED BY <1>6, <1>8 DEF FreshInv

(* A thread that turns to a live build of its run, or to a dirty one.       *)
LEMMA FreshTurnsTo ==
    ASSUME FreshInv, NEW t \in Threads, NEW me \in ThreadState, UNCHANGED sess, SessionsInv',
           thread' = [thread EXCEPT ![t] = me], me.op # "create", me.run = thread[t].run,
           me.new \in {thread[t].new, 0}, TurnTold(me), CreateTold(me),
           me.on = thread[t].on \/ sess[me.on].run = thread[t].run \/ sess[me.on].dirty
    PROVE  FreshInv'
<1>1. thread'[t] = me
  BY ThreadIs
<1>2. Becomes(t, me)
  BY DEF Becomes
<1>3. AnothersRun(thread[t])'
  BY <1>1 DEF AnothersRun
<1>4. NewTold(thread[t])'
  BY <1>1, ThreadIs DEF Told, NewTold
<1> QED BY <1>2, <1>3, <1>4, SameRuns, FreshMoves

LEMMA FreshLooks ==
    ASSUME FreshInv, NEW t \in Threads, SessionsInv',
           FindRun(t) \/ FirstLook(t) \/ TakeLock(t) \/ LockTaken(t) \/ FlushBeforeLoad(t) \/ Load(t)
           \/ BuildRefused(t)
    PROVE  FreshInv'
<1>1. UNCHANGED sess /\ RunsKept(t)
  <2>1. UNCHANGED sess
    BY DEF FindRun, FirstLook, TakeLock, LockTaken, FlushBeforeLoad, Load, BuildRefused
  <2> QED BY <2>1, SameRuns
<1>2. CASE GoIdle(t)
  BY <1>1, <1>2, FreshIdle
<1>3. CASE FindRun(t) /\ live[thread[t].run] # 0
  <2> DEFINE b == live[thread[t].run]
             me == [thread[t] EXCEPT !.at = "found", !.on = b]
  <2>1. thread[t].run \in Runs
    BY <1>3 DEF FindRun, FreshInv, SessionsInv, Placed
  <2>2. b \in Builds /\ sess[b].run = thread[t].run
    BY <1>3, <2>1 DEF FreshInv, SessionsInv, SessionsTypeOK, LiveTold
  <2>3. thread' = [thread EXCEPT ![t] = me]
    BY <1>3, ThreadIs DEF FindRun
  <2> HIDE DEF b
  <2>4. me \in ThreadState /\ me.at = "found" /\ me.op = thread[t].op /\ me.on = b
        /\ me.new = thread[t].new /\ me.run = thread[t].run /\ me.how = thread[t].how /\ me.then = thread[t].then
    BY <2>2, ThreadIs DEF ThreadState, Places
  <2> HIDE DEF me
  <2>5. thread[t].op \in {"turn", "action", "write"}
    BY <1>3 DEF FindRun
  <2>6. TurnTold(me) /\ CreateTold(me)
    BY <2>4, <2>5, ThreadIs DEF Told, TurnTold, CreateTold, Starts
  <2> QED BY <1>1, <2>2, <2>3, <2>4, <2>5, <2>6, FreshTurnsTo
<1>4. CASE FirstLook(t) /\ ~OwnerBusy
  <2> DEFINE place == IF thread[t].op = "create" THEN "build" ELSE IF phone THEN "start" ELSE "load"
  <2>1. place \in {"build", "start", "load"} /\ (thread[t].op = "create" => place = "build")
    OBVIOUS
  <2>2. Go(t, place) /\ thread[t].op # "turn"
    BY <1>4 DEF FirstLook
  <2> HIDE DEF place
  <2>3. place \in Places
    BY <2>1 DEF Places
  <2> QED BY <1>1, <2>1, <2>2, <2>3, FreshGo DEF CreatePlaces, Starts
<1>5. CASE TakeLock(t) /\ ~GoIdle(t)
  <2>1. thread[t].at = "found" /\ thread[t].op # "create"
    BY <1>5, ThreadIs DEF TakeLock, Told, CreateTold, Starts
  <2>2. CASE LeaveFor(t, "idle") /\ thread[t].op \in {"saving", "flushing"}
    BY <1>1, <2>2, FreshLeaveFor DEF Starts
  <2>3. CASE thread' = [thread EXCEPT ![t].at = Begins(thread[t].op), ![t].how = SaveOf(thread[t].op)]
    <3> DEFINE place == Begins(thread[t].op)
               save == SaveOf(thread[t].op)
               me == [thread[t] EXCEPT !.at = place, !.how = save]
    <3>1. place \in {"playing", "checking"} /\ save \in {"owner", "autosave", "now"}
          /\ (save = "autosave" <=> thread[t].op = "turn")
      BY DEF Begins, SaveOf
    <3>2. thread' = [thread EXCEPT ![t] = me]
      BY <2>3, ThreadIs
    <3> HIDE DEF place, save
    <3>3. me \in ThreadState /\ me.at = place /\ me.op = thread[t].op /\ me.on = thread[t].on
          /\ me.new = thread[t].new /\ me.run = thread[t].run /\ me.how = save /\ me.then = thread[t].then
      BY <3>1, ThreadIs DEF ThreadState, Places
    <3> HIDE DEF me
    <3>4. TurnTold(me)
      BY <3>1, <3>3, ThreadIs DEF Told, TurnTold
    <3>5. CreateTold(me)
      BY <2>1, <3>1, <3>3, ThreadIs DEF Told, CreateTold, Starts
    <3> QED BY <1>1, <2>1, <3>2, <3>3, <3>4, <3>5, FreshTurnsTo
  <2> QED BY <1>5, <2>2, <2>3 DEF TakeLock
<1>6. CASE FlushBeforeLoad(t)
  <2> DEFINE b == live[thread[t].run]
  <2>1. thread[t].run \in Runs /\ thread[t].at = "start" /\ thread[t].op \notin {"create", "turn"}
    <3>1. thread[t].at = "start"
      BY <1>6 DEF FlushBeforeLoad
    <3>2. thread[t].run \in Runs
      BY <3>1 DEF FreshInv, SessionsInv, Placed
    <3>3. thread[t].op # "create"
      BY <3>1, ThreadIs DEF Told, CreateTold, Starts
    <3>4. thread[t].op # "turn"
      BY <3>1, ThreadIs DEF Told, TurnTold
    <3> QED BY <3>1, <3>2, <3>3, <3>4
  <2>2. CASE Go(t, "load")
    BY <1>1, <2>1, <2>2, FreshGo DEF Places, Starts
  <2>3. CASE b # 0 /\ lock[b] = Free
    <3> DEFINE place == IF sess[b].dirty THEN "checking" ELSE "release"
               me == [thread[t] EXCEPT !.at = place, !.on = b, !.how = "now", !.then = "load"]
    <3>1. b \in Builds /\ sess[b].run = thread[t].run
      BY <2>1, <2>3 DEF FreshInv, SessionsInv, SessionsTypeOK, LiveTold
    <3>2. thread' = [thread EXCEPT ![t].at = place, ![t].on = b, ![t].how = "now", ![t].then = "load"]
      BY <1>6, <2>3 DEF FlushBeforeLoad
    <3>3. thread' = [thread EXCEPT ![t] = me]
      BY <3>2, ThreadIs
    <3>4. place \in {"checking", "release"}
      OBVIOUS
    <3> HIDE DEF b, place
    <3>5. me \in ThreadState /\ me.at = place /\ me.op = thread[t].op /\ me.on = b
          /\ me.new = thread[t].new /\ me.run = thread[t].run /\ me.how = "now" /\ me.then = "load"
      BY <3>1, <3>4, ThreadIs DEF ThreadState, Places
    <3> HIDE DEF me
    <3>6. TurnTold(me) /\ CreateTold(me)
      BY <2>1, <3>4, <3>5 DEF TurnTold, CreateTold, Starts
    <3> QED BY <1>1, <2>1, <3>1, <3>3, <3>5, <3>6, FreshTurnsTo
  <2> QED BY <1>6, <2>2, <2>3 DEF FlushBeforeLoad
<1>7. CASE Load(t) /\ ~GoIdle(t)
  <2> DEFINE me == [thread[t] EXCEPT !.at = "build", !.got = disk[thread[t].run]]
  <2>1. thread[t].at = "load" /\ disk[thread[t].run] # NoSave
    BY <1>7 DEF Load
  <2>2. thread[t].op # "create"
    BY <2>1, ThreadIs DEF Told, CreateTold, Starts
  <2>3. thread[t].op # "turn"
    BY <2>1, ThreadIs DEF Told, TurnTold
  <2>4. disk[thread[t].run] \in SUBSET Plays
    <3>1. thread[t].run \in Runs
      BY <2>1 DEF FreshInv, SessionsInv, Placed
    <3> QED BY <2>1, <3>1 DEF FreshInv, SessionsInv, SessionsTypeOK
  <2>5. thread' = [thread EXCEPT ![t] = me]
    BY <1>7, <2>1, ThreadIs DEF Load
  <2>6. me \in ThreadState /\ me.at = "build" /\ me.op = thread[t].op /\ me.on = thread[t].on
        /\ me.new = thread[t].new /\ me.run = thread[t].run /\ me.how = thread[t].how /\ me.then = thread[t].then
    BY <2>4, ThreadIs DEF ThreadState, Places
  <2> HIDE DEF me
  <2>7. TurnTold(me)
    BY <2>3, <2>6, ThreadIs DEF Told, TurnTold
  <2>8. CreateTold(me)
    BY <2>2, <2>6, ThreadIs DEF Told, CreateTold, Starts
  <2> QED BY <1>1, <2>2, <2>5, <2>6, <2>7, <2>8, FreshTurnsTo
<1> QED BY <1>2, <1>3, <1>4, <1>5, <1>6, <1>7 DEF FindRun, FirstLook, LockTaken, Load, BuildRefused

(* A build keeps its run; a thread that sets one dirty works on it, and not *)
(* on a run it creates.                                                     *)
LEMMA RunsStay ==
    ASSUME FreshInv, NEW t \in Threads, NEW f \in {TRUE, FALSE}, NEW mem,
           \/ sess' = [sess EXCEPT ![thread[t].on].mem = mem]
           \/ sess' = [sess EXCEPT ![thread[t].on].dirty = f]
           \/ sess' = [sess EXCEPT ![thread[t].on].mem = mem, ![thread[t].on].dirty = f],
           f /\ thread[t].op = "create" => sess[thread[t].on].run # thread[t].run
    PROVE  RunsKept(t)
<1>1. sess \in [Builds -> [run : Runs \cup {0}, mem : SUBSET Plays, dirty : BOOLEAN, ending : BOOLEAN]]
  BY DEF FreshInv, SessionsInv, SessionsTypeOK
<1>2. ASSUME NEW b \in Builds
      PROVE  /\ sess'[b].run = sess[b].run
             /\ sess'[b].dirty /\ ~sess[b].dirty => b = thread[t].on /\ f
  <2>1. CASE b # thread[t].on
    BY <1>1, <2>1
  <2>2. CASE b = thread[t].on
    BY <1>1, <2>2
  <2> QED BY <2>1, <2>2
<1> QED BY <1>2 DEF RunsKept

LEMMA FreshPlays ==
    ASSUME FreshInv, NEW t \in Threads, SessionsInv',
           ReleaseTurn(t) \/ AfterTurn(t) \/ NotPlayed(t) \/ PlayTurn(t) \/ PlayAndSave(t) \/ PlayAndMark(t)
           \/ Mark(t)
    PROVE  FreshInv'
<1>1. ASSUME UNCHANGED sess PROVE RunsKept(t)
  BY <1>1, SameRuns
<1>2. CASE ReleaseTurn(t)
  <2>1. Go(t, "hook") /\ UNCHANGED sess /\ thread[t].at = "release"
    BY <1>2 DEF ReleaseTurn
  <2>2. thread[t].op # "turn"
    BY <2>1, ThreadIs DEF Told, TurnTold
  <2> QED BY <1>1, <2>1, <2>2, FreshGo DEF Places, CreatePlaces, Starts
<1>3. CASE AfterTurn(t)
  BY <1>1, <1>3, FreshGoOn DEF AfterTurn
<1>4. CASE NotPlayed(t) \/ Mark(t)
  BY <1>1, <1>4, FreshLeave DEF NotPlayed, Mark
<1>5. CASE PlayTurn(t) \/ PlayAndSave(t)
  <2>1. Go(t, "checking") /\ thread[t].at = "playing" /\ thread[t].op # "create"
        /\ sess' = [sess EXCEPT ![thread[t].on].mem = @ \cup {plays + 1}]
    BY <1>5 DEF PlayTurn, PlayAndSave, Played
  <2>2. sess' = [sess EXCEPT ![thread[t].on].mem = sess[thread[t].on].mem \cup {plays + 1}]
    BY <2>1
  <2>3. RunsKept(t)
    BY <2>2, RunsStay
  <2> QED BY <2>1, <2>3, FreshGo DEF Places, TurnPlaces, Starts
<1>6. CASE PlayAndMark(t)
  <2>1. Go(t, "marking") /\ thread[t].at \in {"playing", "after"}
        /\ sess' = [sess EXCEPT ![thread[t].on].mem = sess[thread[t].on].mem \cup {plays + 1},
                                ![thread[t].on].dirty = TRUE]
    BY <1>6 DEF PlayAndMark
  <2>2. thread[t].op # "create"
    BY <2>1, ThreadIs DEF Told, CreateTold, Starts
  <2>3. RunsKept(t)
    BY <2>1, <2>2, RunsStay
  <2> QED BY <2>1, <2>2, <2>3, FreshGo DEF Places, TurnPlaces, Starts
<1> QED BY <1>2, <1>3, <1>4, <1>5, <1>6

LEMMA FreshSaves ==
    ASSUME FreshInv, NEW t \in Threads, SessionsInv',
           CheckSave(t) \/ SaveRefused(t) \/ WriteSave(t) \/ SaveFails(t)
    PROVE  FreshInv'
<1>1. ASSUME UNCHANGED sess PROVE RunsKept(t)
  BY <1>1, SameRuns
<1>2. CASE CheckSave(t)
  <2>1. Go(t, "writing") /\ thread[t].at = "checking"
    BY <1>2 DEF CheckSave
  <2>2. RunsKept(t)
    <3>1. CASE thread[t].how = "now"
      <4>1. sess' = [sess EXCEPT ![thread[t].on].dirty = FALSE]
        BY <1>2, <3>1 DEF CheckSave
      <4> QED BY <4>1, RunsStay
    <3>2. CASE thread[t].how # "now"
      BY <1>1, <1>2, <3>2 DEF CheckSave
    <3> QED BY <3>1, <3>2
  <2> QED BY <2>1, <2>2, FreshGo DEF Places, TurnPlaces, CreatePlaces, Starts
<1>3. CASE SaveRefused(t)
  <2>1. UNCHANGED sess
    BY <1>3 DEF SaveRefused
  <2>2. CASE thread[t].op = "create" /\ LeaveFor(t, "delete")
    BY <1>1, <2>1, <2>2, FreshLeaveFor DEF Starts
  <2>3. CASE Leave(t)
    BY <1>1, <2>1, <2>3, FreshLeave
  <2> QED BY <1>3, <2>2, <2>3 DEF SaveRefused
<1>4. CASE WriteSave(t)
  <2>1. UNCHANGED sess /\ thread[t].at = "writing"
    BY <1>4 DEF WriteSave
  <2>2. CASE thread[t].op = "turn" /\ Go(t, "after")
    BY <1>1, <2>1, <2>2, FreshGo DEF Places, TurnPlaces, Starts
  <2>3. CASE Leave(t)
    BY <1>1, <2>1, <2>3, FreshLeave
  <2> QED BY <1>4, <2>2, <2>3 DEF WriteSave
<1>5. CASE SaveFails(t) /\ thread[t].how = "now"
  <2>1. Go(t, "marking") /\ thread[t].at = "writing" /\ sess' = [sess EXCEPT ![thread[t].on].dirty = TRUE]
    BY <1>5 DEF SaveFails
  <2>2. thread[t].op = "create" => sess[thread[t].on].run # thread[t].run
    BY <1>5, <2>1, ThreadIs DEF Told, AnothersRun
  <2>3. RunsKept(t)
    BY <2>1, <2>2, RunsStay
  <2> QED BY <1>5, <2>1, <2>3, FreshGo DEF Places, TurnPlaces, CreatePlaces, Starts
<1>6. CASE SaveFails(t) /\ thread[t].how # "now"
  <2>1. UNCHANGED sess
    BY <1>6 DEF SaveFails
  <2>2. CASE thread[t].op = "create" /\ LeaveFor(t, "delete")
    BY <1>1, <2>1, <2>2, FreshLeaveFor DEF Starts
  <2>3. CASE Leave(t)
    BY <1>1, <2>1, <2>3, FreshLeave
  <2> QED BY <1>6, <2>2, <2>3 DEF SaveFails
<1> QED BY <1>2, <1>3, <1>4, <1>5, <1>6

LEMMA FreshBuild ==
    ASSUME FreshInv, NEW t \in Threads, Build(t), SessionsInv'
    PROVE  FreshInv'
<1> DEFINE old == LiveBuilds
           b == epoch + 1
           next == IF thread[t].op = "create" THEN "stamp" ELSE "away"
           plain == [thread[t] EXCEPT !.at = next, !.on = b, !.new = b, !.got = {}]
           made == [Unbuilt EXCEPT !.run = thread[t].run, !.mem = thread[t].got]
           me == IF phone /\ \E o \in old : sess[o].dirty
                 THEN [plain EXCEPT !.at = "checking", !.how = "now", !.then = plain.at,
                                    !.on = CHOOSE o \in old : sess[o].dirty]
                 ELSE plain
<1>1. thread[t].at = "build" /\ thread[t].run \in Runs /\ b \in Builds /\ epoch \in Nat
  BY ThreadIs DEF Build, FreshInv, SessionsInv, Placed, SessionsTypeOK
<1>2. \A o \in old : o \in Builds /\ o <= epoch
  BY LiveIs DEF FreshInv
<1>3. thread' = [thread EXCEPT ![t] = me] /\ sess' = [sess EXCEPT ![b] = made]
  BY DEF Build, Taken
<1>4. made.run = thread[t].run /\ ~made.dirty
  BY DEF Unbuilt
<1>5. sess'[b] = made /\ \A x \in Builds : x # b => sess'[x] = sess[x]
  BY <1>1, <1>3 DEF FreshInv, SessionsInv, SessionsTypeOK
<1> HIDE DEF made
<1>6. RunsKept(t)
  <2>1. b > epoch
    BY <1>1
  <2> HIDE DEF b
  <2> QED BY <1>4, <1>5, <2>1 DEF RunsKept
<1>7. next \in {"stamp", "away"} /\ (thread[t].op = "create" <=> next = "stamp") /\ next \in Places
  BY DEF Places
<1> HIDE DEF next
<1>8. plain \in ThreadState /\ plain.at = next /\ plain.on = b /\ plain.new = b /\ plain.run = thread[t].run
      /\ plain.then = thread[t].then /\ plain.op = thread[t].op /\ plain.how = thread[t].how
  BY <1>1, <1>7, ThreadIs DEF ThreadState
<1> HIDE DEF plain
<1>9. thread[t].op # "turn"
  BY <1>1, ThreadIs DEF Told, TurnTold
<1>10. CASE phone /\ \E o \in old : sess[o].dirty
  <2> DEFINE o == CHOOSE x \in old : sess[x].dirty
  <2>1. o \in old /\ sess[o].dirty /\ o \in Builds /\ o # b
    BY <1>1, <1>2, <1>10
  <2>2. me = [plain EXCEPT !.at = "checking", !.how = "now", !.then = plain.at, !.on = o]
    BY <1>10
  <2> HIDE DEF o, me, b, old
  <2>3. me \in ThreadState /\ me.at = "checking" /\ me.how = "now" /\ me.then = next /\ me.on = o
        /\ me.new = b /\ me.run = thread[t].run /\ me.op = thread[t].op
    BY <1>7, <1>8, <2>1, <2>2 DEF ThreadState, Places, Steps
  <2>4. thread'[t] = me
    BY <1>3, ThreadIs
  <2>5. TurnTold(me) /\ CreateTold(me)
    BY <1>7, <1>9, <2>3 DEF TurnTold, CreateTold, Starts
  <2>6. sess'[o] = sess[o]
    BY <1>5, <2>1
  <2>7. Becomes(t, me)
    BY <1>3, <2>1, <2>3, <2>5, <2>6 DEF Becomes
  <2>8. thread[t].op = "create" => sess[o].run # thread[t].run
    BY <2>1 DEF FreshInv, FreshTold
  <2>9. AnothersRun(thread[t])'
    BY <2>3, <2>4, <2>6, <2>8 DEF AnothersRun
  <2>10. NewTold(thread[t])'
    BY <1>4, <1>5, <2>3, <2>4 DEF NewTold
  <2> QED BY <1>6, <2>7, <2>9, <2>10, FreshMoves
<1>11. CASE ~(phone /\ \E o \in old : sess[o].dirty)
  <2>1. me = plain
    BY <1>11
  <2> HIDE DEF me, b, old
  <2>2. thread'[t] = plain
    BY <1>3, <2>1, ThreadIs
  <2>3. TurnTold(plain)
    BY <1>8, <1>9, ThreadIs DEF Told, TurnTold
  <2>4. CreateTold(plain)
    BY <1>7, <1>8, ThreadIs DEF Told, CreateTold, Starts
  <2>5. Becomes(t, plain)
    BY <1>3, <1>4, <1>5, <1>8, <2>1, <2>3, <2>4 DEF Becomes
  <2>6. AnothersRun(thread[t])'
    BY <1>7, <1>8, <2>2 DEF AnothersRun
  <2>7. NewTold(thread[t])'
    BY <1>4, <1>5, <1>8, <2>2 DEF NewTold
  <2> QED BY <1>6, <2>5, <2>6, <2>7, FreshMoves
<1> QED BY <1>10, <1>11

LEMMA FreshSteps ==
    ASSUME FreshInv, NEW t \in Threads, SessionsInv', StepTaken(t) \/ StepSkipped(t) \/ Delete(t)
    PROVE  FreshInv'
<1>1. ASSUME UNCHANGED sess PROVE RunsKept(t)
  BY <1>1, SameRuns
<1>2. CASE Delete(t)
  BY <1>1, <1>2, FreshIdle DEF Delete
<1>3. ASSUME thread[t].at \in Steps
      PROVE  /\ thread[t].op # "turn"
             /\ thread[t].at \in {"stamp", "first"} => thread[t].op = "create"
             /\ thread[t].at \in {"away", "media"} => thread[t].op # "create"
             /\ thread[t].how # "autosave"
  BY <1>3, ThreadIs DEF Told, TurnTold, CreateTold, Starts, Steps
<1>4. CASE StepSkipped(t)
  <2>1. UNCHANGED sess /\ thread[t].at \in Steps
    BY <1>4 DEF StepSkipped
  <2>2. CASE thread[t].at = "first" /\ Go(t, "delete")
    BY <1>1, <1>3, <2>1, <2>2, FreshGo DEF Places, CreatePlaces, Starts
  <2>3. CASE GoIdle(t)
    BY <1>1, <2>1, <2>3, FreshIdle
  <2>4. CASE thread[t].at = "stamp" /\ Go(t, "first")
    BY <1>1, <1>3, <2>1, <2>4, FreshGo DEF Places, CreatePlaces, Starts
  <2>5. CASE thread[t].at = "away" /\ Go(t, "media")
    BY <1>1, <1>3, <2>1, <2>5, FreshGo DEF Places, Starts
  <2> QED BY <1>4, <2>1, <2>2, <2>3, <2>4, <2>5 DEF StepSkipped, Skip, Steps, NextStep
<1>5. CASE StepTaken(t)
  <2>1. thread[t].at \in Steps
    BY <1>5 DEF StepTaken
  <2>2. CASE thread[t].at \in {"stamp", "media"} /\ LeaveFor(t, NextStep[thread[t].at]) /\ UNCHANGED sess
    <3>1. NextStep["stamp"] = "first" /\ NextStep["media"] = "idle"
      BY DEF NextStep
    <3>2. RunsKept(t) /\ thread[t].op # "turn"
      BY <1>1, <1>3, <2>1, <2>2
    <3>3. CASE thread[t].at = "stamp"
      BY <1>3, <2>1, <2>2, <3>1, <3>2, <3>3, FreshLeaveFor DEF Starts, Steps
    <3>4. CASE thread[t].at = "media"
      BY <1>3, <2>1, <2>2, <3>1, <3>2, <3>4, FreshLeaveFor DEF Starts
    <3> QED BY <2>2, <3>3, <3>4
  <2>3. ASSUME NEW place \in {"checking", "marking"}, NEW save \in {"owner", "now", "none"},
               NEW next \in {"idle", "media"}, RunsKept(t),
               thread' = [thread EXCEPT ![t].at = place, ![t].how = save, ![t].then = next],
               thread[t].op = "create" => place = "checking" /\ save = "owner" /\ next = "idle"
        PROVE  FreshInv'
    <3> DEFINE me == [thread[t] EXCEPT !.at = place, !.how = save, !.then = next]
    <3>1. thread' = [thread EXCEPT ![t] = me]
      BY <2>3, ThreadIs
    <3>2. me \in ThreadState /\ me.at = place /\ me.op = thread[t].op /\ me.on = thread[t].on
          /\ me.new = thread[t].new /\ me.run = thread[t].run /\ me.how = save /\ me.then = next
      BY ThreadIs DEF ThreadState, Places, Steps
    <3> HIDE DEF me
    <3>3. thread'[t] = me
      BY <3>1, ThreadIs
    <3>4. TurnTold(me) /\ CreateTold(me)
      BY <1>3, <2>1, <2>3, <3>2 DEF TurnTold, CreateTold, Starts
    <3>5. Becomes(t, me)
      BY <3>1, <3>2, <3>4 DEF Becomes
    <3>6. AnothersRun(thread[t])'
      BY <2>3, <3>2, <3>3 DEF AnothersRun
    <3>7. NewTold(thread[t])'
      BY <2>3, <3>2, <3>3, ThreadIs, MadeStay DEF Told, NewTold
    <3> QED BY <2>3, <3>5, <3>6, <3>7, FreshMoves
  <2>4. CASE thread[t].at = "first" /\ UNCHANGED sess
             /\ thread' = [thread EXCEPT ![t].at = "checking", ![t].how = "owner", ![t].then = "idle"]
    BY <1>1, <2>3, <2>4
  <2>5. CASE thread[t].at = "away" /\ UNCHANGED sess
             /\ thread' = [thread EXCEPT ![t].at = "checking", ![t].how = "now", ![t].then = "media"]
    <3>1. thread[t].op # "create"
      BY <1>3, <2>1, <2>5
    <3> QED BY <1>1, <2>3, <2>5, <3>1
  <2>6. CASE thread[t].at = "away" /\ sess' = [sess EXCEPT ![thread[t].on].dirty = TRUE]
             /\ thread' = [thread EXCEPT ![t].at = "marking", ![t].then = "media"]
    <3> DEFINE me == [thread[t] EXCEPT !.at = "marking", !.then = "media"]
    <3>1. thread[t].op # "create" /\ thread[t].op # "turn" /\ thread[t].how # "autosave"
      BY <1>3, <2>1, <2>6
    <3>2. RunsKept(t)
      BY <2>6, <3>1, RunsStay
    <3>3. thread' = [thread EXCEPT ![t] = me]
      BY <2>6, ThreadIs
    <3>4. me \in ThreadState /\ me.at = "marking" /\ me.op = thread[t].op /\ me.on = thread[t].on
          /\ me.new = thread[t].new /\ me.run = thread[t].run /\ me.how = thread[t].how /\ me.then = "media"
      BY ThreadIs DEF ThreadState, Places, Steps
    <3> HIDE DEF me
    <3>5. thread'[t] = me
      BY <3>3, ThreadIs
    <3>6. TurnTold(me) /\ CreateTold(me)
      BY <3>1, <3>4 DEF TurnTold, CreateTold, Starts
    <3>7. Becomes(t, me)
      BY <3>1, <3>3, <3>4, <3>6 DEF Becomes
    <3>8. AnothersRun(thread[t])'
      BY <3>1, <3>4, <3>5 DEF AnothersRun
    <3>9. NewTold(thread[t])'
      BY <3>2, <3>4, <3>5, ThreadIs, MadeStay DEF Told, NewTold
    <3> QED BY <3>2, <3>7, <3>8, <3>9, FreshMoves
  <2> QED BY <1>5, <2>2, <2>4, <2>5, <2>6 DEF StepTaken
<1> QED BY <1>2, <1>4, <1>5

(* The timer, the sweep and the flush turn to dirty builds. *)
LEMMA FreshPicksUp ==
    ASSUME FreshInv, NEW t \in Threads, NEW me \in ThreadState, sess[me.on].dirty, UNCHANGED sess,
           SessionsInv', me.at \in {"found", "checking"}, me.op \in {"saving", "flushing", "sweep"},
           me.how # "autosave", me.new = 0, me.run = 0, me.then = "idle",
           thread' = [thread EXCEPT ![t] = me]
    PROVE  FreshInv'
<1>1. thread'[t] = me
  BY ThreadIs
<1>2. TurnTold(me) /\ CreateTold(me)
  BY DEF TurnTold, CreateTold, Starts
<1>3. Becomes(t, me)
  BY <1>2 DEF Becomes
<1>4. AnothersRun(thread[t])' /\ NewTold(thread[t])'
  BY <1>1 DEF AnothersRun, NewTold
<1> QED BY <1>3, <1>4, SameRuns, FreshMoves

LEMMA FreshStays ==
    ASSUME FreshInv, UNCHANGED thread, SessionsInv',
           \A b \in Builds : sess'[b].run = sess[b].run /\ sess'[b].dirty = sess[b].dirty
    PROVE  FreshInv'
<1>1. ASSUME NEW t \in Threads PROVE Told(t)'
  <2>1. Told(t) /\ (thread[t].at \in Locked => thread[t].on \in Builds)
        /\ thread[t].new \in Builds \cup {0}
    BY ThreadIs
  <2>2. AnothersRun(thread[t])'
    BY <2>1 DEF Told, AnothersRun, Locked
  <2>3. NewTold(thread[t])'
    BY <2>1 DEF Told, NewTold
  <2> QED BY <2>1, <2>2, <2>3 DEF Told, TurnTold, CreateTold
<1>2. \A u \in Threads : thread[u].on # 0 => thread[u].on \in Builds
  BY ThreadIs
<1>3. FreshTold'
  BY <1>2 DEF FreshInv, FreshTold
<1> QED BY <1>1, <1>3 DEF FreshInv

LEMMA FreshBackground ==
    ASSUME FreshInv, Background, SessionsInv'
    PROVE  FreshInv'
<1>1. Saver \in Threads /\ Keeper \in Threads
  BY DEF Threads
<1>2. CASE UNCHANGED <<thread, sess>>
  BY <1>2, FreshStays
<1>3. ASSUME NEW b \in Builds, SaverPops(b), ~UNCHANGED <<thread, sess>> PROVE FreshInv'
  <2> DEFINE me == [Idle EXCEPT !.at = "found", !.op = "saving", !.on = b]
  <2>1. UNCHANGED sess /\ sess[b].dirty /\ thread' = [thread EXCEPT ![Saver] = me]
    BY <1>3 DEF SaverPops
  <2>2. me \in ThreadState /\ me.at = "found" /\ me.op = "saving" /\ me.on = b /\ me.how = "none"
        /\ me.new = 0 /\ me.run = 0 /\ me.then = "idle"
    BY DEF Idle, ThreadState, Places
  <2> HIDE DEF me
  <2> QED BY <1>1, <2>1, <2>2, FreshPicksUp
<1>4. ASSUME NEW b \in Builds, FlushAll(b) PROVE FreshInv'
  <2> DEFINE me == [Idle EXCEPT !.at = "found", !.op = "flushing", !.on = b]
  <2>1. UNCHANGED sess /\ sess[b].dirty /\ thread' = [thread EXCEPT ![Keeper] = me]
    BY <1>4 DEF FlushAll
  <2>2. me \in ThreadState /\ me.at = "found" /\ me.op = "flushing" /\ me.on = b /\ me.how = "none"
        /\ me.new = 0 /\ me.run = 0 /\ me.then = "idle"
    BY DEF Idle, ThreadState, Places
  <2> HIDE DEF me
  <2> QED BY <1>1, <2>1, <2>2, FreshPicksUp
<1>5. ASSUME NEW r \in Runs, Sweep(r), ~UNCHANGED <<thread, sess>> PROVE FreshInv'
  <2> DEFINE me == [Idle EXCEPT !.at = "checking", !.op = "sweep", !.how = "now", !.on = live[r]]
  <2>1. UNCHANGED sess /\ sess[live[r]].dirty /\ live[r] # 0 /\ thread' = [thread EXCEPT ![Keeper] = me]
    BY <1>5 DEF Sweep, CanEnd
  <2>2. live[r] \in Builds
    BY <2>1 DEF FreshInv, SessionsInv, SessionsTypeOK
  <2>3. me \in ThreadState /\ me.at = "checking" /\ me.op = "sweep" /\ me.on = live[r] /\ me.how = "now"
        /\ me.new = 0 /\ me.run = 0 /\ me.then = "idle"
    BY <2>2 DEF Idle, ThreadState, Places
  <2> HIDE DEF me
  <2> QED BY <1>1, <2>1, <2>3, FreshPicksUp
<1> QED BY <1>2, <1>3, <1>4, <1>5 DEF Background

LEMMA FreshAdmin ==
    ASSUME FreshInv, AdminStep, SessionsInv'
    PROVE  FreshInv'
<1>1. UNCHANGED thread
  BY DEF AdminStep, AdminEnds, EndListed, Disable, Enable, ListOwned, EndWhenDone, OwnerEnded, PurgeFolder
<1>2. CASE UNCHANGED sess
  BY <1>1, <1>2, FreshStays
<1>3. CASE EndWhenDone
  <2>1. PICK c : sess' \in {sess, [sess EXCEPT ![c].ending = TRUE]}
    BY <1>3 DEF EndWhenDone
  <2>2. sess \in [Builds -> [run : Runs \cup {0}, mem : SUBSET Plays, dirty : BOOLEAN, ending : BOOLEAN]]
    BY DEF FreshInv, SessionsInv, SessionsTypeOK
  <2>3. \A b \in Builds : /\ [sess EXCEPT ![c].ending = TRUE][b].run = sess[b].run
                          /\ [sess EXCEPT ![c].ending = TRUE][b].dirty = sess[b].dirty
    BY <2>2
  <2>4. \A b \in Builds : sess'[b].run = sess[b].run /\ sess'[b].dirty = sess[b].dirty
    BY <2>1, <2>3
  <2> QED BY <1>1, <2>4, FreshStays
<1> QED BY <1>2, <1>3 DEF AdminStep, AdminEnds, EndListed, Disable, Enable, ListOwned, OwnerEnded, PurgeFolder

LEMMA FreshThread ==
    ASSUME FreshInv, NEW t \in Threads, ThreadStep(t), SessionsInv'
    PROVE  FreshInv'
<1>1. ASSUME NEW r \in Runs, NEW op \in {"turn", "action", "write", "create", "resume"}, LetIn(t, r, op)
      PROVE  FreshInv'
  BY <1>1, FreshLetIn
<1>2. CASE FindRun(t) \/ FirstLook(t) \/ TakeLock(t) \/ LockTaken(t) \/ FlushBeforeLoad(t) \/ Load(t)
           \/ BuildRefused(t)
  BY <1>2, FreshLooks
<1>3. CASE ReleaseTurn(t) \/ AfterTurn(t) \/ NotPlayed(t) \/ PlayTurn(t) \/ PlayAndSave(t)
           \/ PlayAndMark(t) \/ Mark(t)
  BY <1>3, FreshPlays
<1>4. CASE CheckSave(t) \/ SaveRefused(t) \/ WriteSave(t) \/ SaveFails(t)
  BY <1>4, FreshSaves
<1>5. CASE StepTaken(t) \/ StepSkipped(t) \/ Delete(t)
  BY <1>5, FreshSteps
<1>6. CASE Build(t)
  BY <1>6, FreshBuild
<1> QED BY <1>1, <1>2, <1>3, <1>4, <1>5, <1>6 DEF ThreadStep

LEMMA FreshStep == FreshInv /\ [Next]_vars => FreshInv'
<1> SUFFICES ASSUME FreshInv, [Next]_vars PROVE FreshInv'
  OBVIOUS
<1>1. SessionsInv'
  BY StepInv DEF FreshInv
<1>2. CASE UNCHANGED vars
  BY <1>1, <1>2, FreshStays DEF vars
<1> QED BY <1>1, <1>2, FreshThread, FreshBackground, FreshAdmin DEF Next

----------------------------------------------------------------------------
(* What a thread knows of the store stays true, or was kept by a release.   *)
LiveOrKept ==
    \A t \in Threads : \A b \in {thread[t].on, thread[t].new} \ {0} : lock[b] # Kept => IsLive(b)

(* A lock that is kept is never given back. *)
LEMMA KeptForGood ==
    ASSUME SessionsInv, [Next]_vars, NEW b \in Builds, lock[b] = Kept
    PROVE  lock'[b] = Kept
<1>1. lock \in [Builds -> Threads \cup {Free, Kept}] /\ live \in [Runs -> Builds \cup {0}]
  BY DEF SessionsInv, SessionsTypeOK
<1>2. ASSUME NEW r, End(r) PROVE lock'[b] = Kept
  BY <1>1, <1>2 DEF End
<1>3. CASE UNCHANGED lock
  BY <1>3
<1>4. ASSUME NEW t \in Threads, ThreadStep(t) PROVE lock'[b] = Kept
  <2>1. CASE TakeLock(t) \/ FlushBeforeLoad(t) \/ StepTaken(t)
    BY <1>1, <1>3, <2>1 DEF TakeLock, FlushBeforeLoad, StepTaken
  <2>2. CASE ReleaseTurn(t)
    <3>1. lock[thread[t].on] = t
      BY <2>2 DEF ReleaseTurn, SessionsInv, LockTold, Locked
    <3> QED BY <1>1, <2>2, <3>1 DEF ReleaseTurn
  <2>3. CASE AfterTurn(t)
    BY <1>2, <1>3, <2>3 DEF AfterTurn
  <2>4. CASE Build(t)
    BY <1>1, <2>4 DEF Build
  <2> QED BY <1>3, <1>4, <2>1, <2>2, <2>3, <2>4 DEF ThreadStep, LetIn, FindRun, FirstLook, LockTaken, NotPlayed,
              PlayTurn, PlayAndSave, PlayAndMark, Mark, CheckSave, SaveRefused, WriteSave, SaveFails, Load,
              BuildRefused, StepSkipped, Delete
<1>5. CASE Background
  BY <1>2, <1>3, <1>5 DEF Background, SaverPops, FlushAll, Sweep
<1>6. CASE AdminStep
  BY <1>2, <1>3, <1>6 DEF AdminStep, AdminEnds, EndListed, Disable, Enable, ListOwned, EndWhenDone, OwnerEnded,
              PurgeFolder
<1>7. CASE UNCHANGED vars
  BY <1>3, <1>7 DEF vars
<1> QED BY <1>4, <1>5, <1>6, <1>7 DEF Next

(* A build made is its run's for good. *)
LEMMA RunForGood ==
    ASSUME SessionsInv, [Next]_vars, NEW b \in Builds, b <= epoch
    PROVE  sess'[b].run = sess[b].run
<1>1. sess \in [Builds -> [run : Runs \cup {0}, mem : SUBSET Plays, dirty : BOOLEAN, ending : BOOLEAN]]
      /\ epoch \in Nat
  BY DEF SessionsInv, SessionsTypeOK
<1>2. ASSUME NEW x, NEW new, sess' = [sess EXCEPT ![x].mem = new] PROVE sess'[b].run = sess[b].run
  BY <1>1, <1>2
<1>3. ASSUME NEW x, NEW new, sess' = [sess EXCEPT ![x].dirty = new] PROVE sess'[b].run = sess[b].run
  BY <1>1, <1>3
<1>4. ASSUME NEW x, NEW new, NEW old, sess' = [sess EXCEPT ![x].mem = new, ![x].dirty = old]
      PROVE  sess'[b].run = sess[b].run
  BY <1>1, <1>4
<1>5. ASSUME NEW x, sess' = [sess EXCEPT ![x].ending = TRUE] PROVE sess'[b].run = sess[b].run
  BY <1>1, <1>5
<1>6. CASE UNCHANGED sess
  BY <1>6
<1>7. ASSUME NEW t \in Threads, ThreadStep(t) PROVE sess'[b].run = sess[b].run
  <2>1. CASE PlayTurn(t) \/ PlayAndSave(t)
    BY <1>2, <2>1 DEF PlayTurn, PlayAndSave, Played
  <2>2. CASE PlayAndMark(t)
    BY <1>4, <2>2 DEF PlayAndMark
  <2>3. CASE CheckSave(t) \/ SaveFails(t) \/ StepTaken(t)
    BY <1>3, <1>6, <2>3 DEF CheckSave, SaveFails, StepTaken
  <2>4. CASE Build(t)
    BY <1>1, <2>4 DEF Build
  <2> QED BY <1>6, <1>7, <2>1, <2>2, <2>3, <2>4 DEF ThreadStep, LetIn, FindRun, FirstLook, TakeLock, LockTaken,
              ReleaseTurn, AfterTurn, NotPlayed, Mark, SaveRefused, WriteSave, FlushBeforeLoad, Load,
              BuildRefused, StepSkipped, Delete
<1>8. CASE Background
  BY <1>6, <1>8 DEF Background, SaverPops, FlushAll, Sweep
<1>9. CASE AdminStep
  BY <1>5, <1>6, <1>9 DEF AdminStep, AdminEnds, EndListed, Disable, Enable, ListOwned, EndWhenDone, OwnerEnded,
              PurgeFolder
<1>10. CASE UNCHANGED vars
  BY <1>6, <1>10 DEF vars
<1> QED BY <1>7, <1>8, <1>9, <1>10 DEF Next

(* A live build stays live, unless its lock is kept or its create fails.    *)
LEMMA LiveForGood ==
    ASSUME SessionsInv, [Next]_vars, NEW b, IsLive(b), lock'[b] # Kept,
           \A t \in Threads : Delete(t) => thread[t].run # sess[b].run
    PROVE  IsLive(b)'
<1>1. lock \in [Builds -> Threads \cup {Free, Kept}] /\ live \in [Runs -> Builds \cup {0}]
  BY DEF SessionsInv, SessionsTypeOK
<1>2. b \in Builds /\ sess[b].run \in Runs /\ live[sess[b].run] = b /\ b # 0 /\ b <= epoch
  BY DEF IsLive, SessionsInv, LiveTold
<1>3. sess'[b].run = sess[b].run
  BY <1>2, RunForGood
<1>4. CASE UNCHANGED live
  BY <1>2, <1>3, <1>4 DEF IsLive
<1>5. ASSUME NEW r \in Runs, End(r) PROVE IsLive(b)'
  <2>1. live[r] # b
    BY <1>1, <1>2, <1>5 DEF End
  <2> QED BY <1>1, <1>2, <1>3, <1>5, <2>1 DEF End, IsLive
<1>6. ASSUME NEW t \in Threads, ThreadStep(t) PROVE IsLive(b)'
  <2>1. CASE Delete(t)
    BY <1>1, <1>2, <1>3, <2>1 DEF Delete, IsLive
  <2>2. CASE AfterTurn(t)
    <3>1. CASE sess[thread[t].on].ending /\ CanEnd(sess[thread[t].on].run)
      <4>1. thread[t].at = "hook"
        BY <2>2 DEF AfterTurn
      <4>2. sess[thread[t].on].run \in Runs
        BY <4>1 DEF SessionsInv, SessionsTypeOK, Placed, UnmadeTold, ThreadState
      <4> QED BY <1>5, <2>2, <3>1, <4>2 DEF AfterTurn
    <3>2. CASE ~(sess[thread[t].on].ending /\ CanEnd(sess[thread[t].on].run))
      BY <1>4, <2>2, <3>2 DEF AfterTurn
    <3> QED BY <3>1, <3>2
  <2>3. CASE Build(t)
    <3>1. b \in LiveBuilds
      BY <1>2 DEF LiveBuilds
    <3>2. lock'[b] = Kept
      BY <1>2, <2>3, <3>1 DEF Build, Taken
    <3> QED BY <3>2
  <2> QED BY <1>4, <1>6, <2>1, <2>2, <2>3 DEF ThreadStep, LetIn, FindRun, FirstLook, TakeLock, LockTaken,
              ReleaseTurn, NotPlayed, PlayTurn, PlayAndSave, PlayAndMark, Mark, CheckSave, SaveRefused,
              WriteSave, SaveFails, FlushBeforeLoad, Load, BuildRefused, StepTaken, StepSkipped
<1>7. CASE Background
  BY <1>4, <1>5, <1>7 DEF Background, SaverPops, FlushAll, Sweep
<1>8. CASE AdminStep
  BY <1>4, <1>5, <1>8 DEF AdminStep, AdminEnds, EndListed, Disable, Enable, ListOwned, EndWhenDone, OwnerEnded,
              PurgeFolder
<1>9. CASE UNCHANGED vars
  BY <1>4, <1>9 DEF vars
<1> QED BY <1>6, <1>7, <1>8, <1>9 DEF Next

(* A thread turns to a live build, to one it worked on, or to one whose     *)
(* lock it kept.                                                            *)
LEMMA TurnsToLive ==
    ASSUME FreshInv, NEW t \in Threads, ThreadStep(t), SessionsInv',
           NEW b \in {thread'[t].on, thread'[t].new} \ {0}
    PROVE  b \in {thread[t].on, thread[t].new} \/ lock'[b] = Kept \/ IsLive(b)'
<1> DEFINE Same == {thread'[t].on, thread'[t].new} \subseteq {thread[t].on, thread[t].new, 0}
<1>1. thread \in [Threads -> ThreadState] /\ live \in [Runs -> Builds \cup {0}]
  BY DEF FreshInv, SessionsInv, SessionsTypeOK
<1>2. ASSUME NEW place, Go(t, place) PROVE Same
  BY <1>1, <1>2 DEF Go, ThreadState
<1>3. ASSUME GoIdle(t) PROVE Same
  BY <1>1, <1>3 DEF GoIdle, Idle
<1>4. ASSUME GoOn(t) PROVE Same
  BY <1>1, <1>3, <1>4 DEF GoOn, ThreadState
<1>5. ASSUME NEW place, LeaveFor(t, place) PROVE Same
  <2>1. CASE place = "idle" /\ thread[t].op # "create"
    BY <1>1, <1>5, <2>1 DEF LeaveFor, Idle
  <2>2. CASE ~(place = "idle" /\ thread[t].op # "create")
    BY <1>1, <1>5, <2>2 DEF LeaveFor, ThreadState
  <2> QED BY <2>1, <2>2
<1>6. ASSUME Leave(t) PROVE Same
  BY <1>4, <1>5, <1>6 DEF Leave
<1>7. ASSUME Same PROVE b \in {thread[t].on, thread[t].new}
  BY <1>7
<1> HIDE DEF Same
<1>8. CASE \E r \in Runs, op \in {"turn", "action", "write", "create", "resume"} : LetIn(t, r, op)
  BY <1>1, <1>7, <1>8 DEF LetIn, Idle, Same
<1>9. CASE GoIdle(t)
  BY <1>3, <1>7, <1>9
<1>10. CASE FindRun(t) /\ live[thread[t].run] # 0
  <2>1. thread[t].run \in Runs
    BY <1>10 DEF FindRun, FreshInv, SessionsInv, Placed
  <2>2. thread'[t] = [thread[t] EXCEPT !.at = "found", !.on = live[thread[t].run]] /\ UNCHANGED <<live, sess>>
    BY <1>1, <1>10 DEF FindRun
  <2>3. IsLive(live[thread[t].run])
    BY <1>1, <1>10, <2>1 DEF IsLive, FreshInv, SessionsInv, LiveTold
  <2>4. b \in {thread[t].on, thread[t].new} \/ b = live[thread[t].run]
    BY <1>1, <2>2 DEF ThreadState
  <2> QED BY <2>2, <2>3, <2>4 DEF IsLive
<1>11. CASE FlushBeforeLoad(t)
  <2>1. thread[t].run \in Runs /\ UNCHANGED <<live, sess>>
    BY <1>11 DEF FlushBeforeLoad, FreshInv, SessionsInv, Placed
  <2>2. CASE Go(t, "load")
    BY <1>2, <1>7, <2>2
  <2>3. CASE ~Go(t, "load")
    <3>1. live[thread[t].run] # 0
      BY <1>11, <2>3 DEF FlushBeforeLoad
    <3>2. IsLive(live[thread[t].run])
      BY <1>1, <2>1, <3>1 DEF IsLive, FreshInv, SessionsInv, LiveTold
    <3>3. b \in {thread[t].on, thread[t].new} \/ b = live[thread[t].run]
      BY <1>1, <1>11, <2>3 DEF ThreadState, FlushBeforeLoad
    <3> QED BY <2>1, <3>2, <3>3 DEF IsLive
  <2> QED BY <2>2, <2>3
<1>12. CASE Build(t)
  <2>1. thread[t].at = "build" /\ thread[t].run \in Runs /\ epoch \in Nat /\ epoch + 1 \in Builds
    BY <1>12, ThreadIs DEF Build, FreshInv, SessionsInv, Placed, SessionsTypeOK
  <2>2. live'[thread[t].run] = epoch + 1
    BY <1>12, <2>1 DEF Build
  <2>3. sess'[epoch + 1].run = thread[t].run
    BY <1>12, <2>1 DEF Build, FreshInv, SessionsInv, SessionsTypeOK, Unbuilt
  <2>4. PICK c \in Builds : c = epoch + 1
    BY <2>1
  <2>5. IsLive(c)'
    BY <2>1, <2>2, <2>3, <2>4 DEF IsLive
  <2>6. \A o \in LiveBuilds : o \in Builds /\ lock'[o] = Kept
    BY <1>12, LiveIs DEF Build, Taken, FreshInv
  <2>7. b = epoch + 1 \/ b \in LiveBuilds
    <3> DEFINE me == [thread[t] EXCEPT !.at = IF thread[t].op = "create" THEN "stamp" ELSE "away",
                                       !.on = epoch + 1, !.new = epoch + 1, !.got = {}]
    <3>1. me.on = epoch + 1 /\ me.new = epoch + 1 /\ me \in [DOMAIN thread[t] -> {me[f] : f \in DOMAIN thread[t]}]
          /\ DOMAIN thread[t] = DOMAIN Idle
      BY <1>1 DEF ThreadState, Idle
    <3>2. CASE phone /\ \E o \in LiveBuilds : sess[o].dirty
      <4> DEFINE o == CHOOSE x \in LiveBuilds : sess[x].dirty
      <4>1. o \in LiveBuilds
        BY <3>2
      <4>2. thread'[t] = [me EXCEPT !.at = "checking", !.how = "now", !.then = me.at, !.on = o]
        BY <1>1, <1>12, <3>2 DEF Build, Taken
      <4> HIDE DEF me, o
      <4>3. thread'[t].on = o /\ thread'[t].new = epoch + 1
        BY <3>1, <4>2 DEF Idle
      <4> QED BY <4>1, <4>3
    <3>3. CASE ~(phone /\ \E o \in LiveBuilds : sess[o].dirty)
      <4>1. thread'[t] = me
        BY <1>1, <1>12, <3>3 DEF Build, Taken
      <4> QED BY <3>1, <4>1
    <3> QED BY <3>2, <3>3
  <2> QED BY <2>4, <2>5, <2>6, <2>7
<1>13. CASE AfterTurn(t)
  BY <1>4, <1>7, <1>13 DEF AfterTurn
<1>14. CASE TakeLock(t)
  <2>1. CASE LeaveFor(t, "idle")
    BY <1>5, <1>7, <2>1
  <2>2. CASE thread' = [thread EXCEPT ![t].at = Begins(thread[t].op), ![t].how = SaveOf(thread[t].op)]
    BY <1>1, <2>2 DEF ThreadState
  <2> QED BY <1>14, <2>1, <2>2 DEF TakeLock
<1>15. CASE Load(t) /\ ~GoIdle(t)
  BY <1>1, <1>15 DEF Load, ThreadState
<1>16. CASE StepTaken(t)
  <2>1. CASE LeaveFor(t, NextStep[thread[t].at])
    BY <1>5, <1>7, <2>1
  <2>2. CASE thread' = [thread EXCEPT ![t].at = "checking", ![t].how = "owner", ![t].then = "idle"]
    BY <1>1, <2>2 DEF ThreadState
  <2>3. CASE thread' = [thread EXCEPT ![t].at = "checking", ![t].how = "now", ![t].then = "media"]
    BY <1>1, <2>3 DEF ThreadState
  <2>4. CASE thread' = [thread EXCEPT ![t].at = "marking", ![t].then = "media"]
    BY <1>1, <2>4 DEF ThreadState
  <2> QED BY <1>16, <2>1, <2>2, <2>3, <2>4 DEF StepTaken
<1>17. CASE \/ FirstLook(t) \/ ReleaseTurn(t) \/ NotPlayed(t) \/ PlayTurn(t) \/ PlayAndSave(t)
            \/ PlayAndMark(t) \/ Mark(t) \/ CheckSave(t) \/ StepSkipped(t)
  <2>1. Same
    BY <1>2, <1>3, <1>6, <1>17 DEF FirstLook, ReleaseTurn, NotPlayed, PlayTurn, PlayAndSave, PlayAndMark, Mark,
                                   CheckSave, StepSkipped, Skip
  <2> QED BY <1>7, <2>1
<1>18. CASE SaveRefused(t) \/ WriteSave(t) \/ SaveFails(t)
  <2>1. Same
    BY <1>2, <1>5, <1>6, <1>18 DEF SaveRefused, WriteSave, SaveFails
  <2> QED BY <1>7, <2>1
<1>19. CASE LockTaken(t) \/ BuildRefused(t) \/ Delete(t)
  BY <1>9, <1>19 DEF LockTaken, BuildRefused, Delete
<1> QED BY <1>8, <1>9, <1>10, <1>11, <1>12, <1>13, <1>14, <1>15, <1>16, <1>17, <1>18, <1>19
        DEF ThreadStep, FindRun, Load

(* The same of the threads nobody asks. *)
LEMMA PicksUpLive ==
    ASSUME FreshInv, NEW t \in Threads, Background, NEW b \in {thread'[t].on, thread'[t].new} \ {0}
    PROVE  (thread'[t] = thread[t]) \/ lock'[b] = Kept \/ IsLive(b)'
<1>1. thread \in [Threads -> ThreadState] /\ lock \in [Builds -> Threads \cup {Free, Kept}]
      /\ live \in [Runs -> Builds \cup {0}]
  BY DEF FreshInv, SessionsInv, SessionsTypeOK
<1>2. ASSUME NEW c \in Builds, SaverPops(c), thread'[t] # thread[t]
      PROVE  lock'[b] = Kept \/ IsLive(b)'
  <2>1. IsLive(c) /\ UNCHANGED <<live, sess>>
        /\ thread' = [thread EXCEPT ![Saver] = [Idle EXCEPT !.at = "found", !.op = "saving", !.on = c]]
    BY <1>2 DEF SaverPops
  <2>2. t = Saver /\ thread'[t] = [Idle EXCEPT !.at = "found", !.op = "saving", !.on = c]
    BY <1>1, <1>2, <2>1
  <2>3. b = c
    BY <2>2 DEF Idle
  <2> QED BY <2>1, <2>3 DEF IsLive
<1>3. ASSUME NEW c \in Builds, FlushAll(c), thread'[t] # thread[t]
      PROVE  lock'[b] = Kept \/ IsLive(b)'
  <2>1. IsLive(c) /\ UNCHANGED <<live, sess>>
        /\ thread' = [thread EXCEPT ![Keeper] = [Idle EXCEPT !.at = "found", !.op = "flushing", !.on = c]]
    BY <1>3, LiveIs DEF FlushAll, FreshInv
  <2>2. t = Keeper /\ thread'[t] = [Idle EXCEPT !.at = "found", !.op = "flushing", !.on = c]
    BY <1>1, <1>3, <2>1
  <2>3. b = c
    BY <2>2 DEF Idle
  <2> QED BY <2>1, <2>3 DEF IsLive
<1>4. ASSUME NEW r \in Runs, Sweep(r), thread'[t] # thread[t]
      PROVE  lock'[b] = Kept \/ IsLive(b)'
  <2>1. live[r] \in Builds /\ End(r)
        /\ thread' = [thread EXCEPT ![Keeper] = [Idle EXCEPT !.at = "checking", !.op = "sweep",
                                                  !.how = "now", !.on = live[r]]]
    BY <1>1, <1>4 DEF Sweep, CanEnd
  <2>2. t = Keeper
        /\ thread'[t] = [Idle EXCEPT !.at = "checking", !.op = "sweep", !.how = "now", !.on = live[r]]
    BY <1>1, <1>4, <2>1
  <2>3. b = live[r]
    BY <2>2 DEF Idle
  <2> QED BY <1>1, <2>1, <2>3 DEF End
<1> QED BY <1>2, <1>3, <1>4 DEF Background

LEMMA LiveOrKeptStep ==
    ASSUME FreshInv, LiveOrKept, [Next]_vars
    PROVE  LiveOrKept'
<1>1. SessionsInv' /\ FreshInv'
  BY StepInv, FreshStep DEF FreshInv
<1> SUFFICES ASSUME NEW u \in Threads, NEW b \in {thread'[u].on, thread'[u].new} \ {0}, lock'[b] # Kept
             PROVE  IsLive(b)'
  BY DEF LiveOrKept
(* A build the thread worked on already. *)
<1>2. ASSUME b \in {thread[u].on, thread[u].new}, \A t \in Threads : Delete(t) => u # t PROVE IsLive(b)'
  <2>1. b \in Builds
    BY <1>2, ThreadIs
  <2>2. lock[b] # Kept
    BY <2>1, KeptForGood DEF FreshInv
  <2>3. IsLive(b)
    BY <1>2, <2>2 DEF LiveOrKept
  <2>4. ASSUME NEW t \in Threads, Delete(t) PROVE thread[t].run # sess[b].run
    <3>1. thread[t].op = "create" /\ u # t
      BY <1>2, <2>4, ThreadIs DEF Delete, Told, CreateTold, Starts
    <3>2. CASE b = thread[u].on
      BY <3>1, <3>2 DEF FreshInv, FreshTold
    <3>3. CASE b = thread[u].new
      <4>1. sess[b].run = thread[u].run
        BY <3>3, ThreadIs DEF Told, NewTold
      <4> QED BY <3>1, <4>1 DEF FreshInv, FreshTold
    <3> QED BY <1>2, <3>2, <3>3
  <2> QED BY <2>3, <2>4, LiveForGood DEF FreshInv
<1>3. ASSUME NEW t \in Threads, Delete(t), u = t PROVE FALSE
  <2>1. thread'[t] = Idle
    BY <1>3, ThreadIs DEF Delete, GoIdle
  <2> QED BY <1>3, <2>1 DEF Idle
<1>4. ASSUME NEW t \in Threads, ThreadStep(t) PROVE IsLive(b)'
  <2>1. CASE u = t
    BY <1>1, <1>2, <1>3, <1>4, <2>1, TurnsToLive
  <2>2. CASE u # t
    <3>1. thread'[u] = thread[u]
      BY <1>4, <2>2, OthersAlone DEF FreshInv
    <3> QED BY <1>2, <1>3, <3>1
  <2> QED BY <2>1, <2>2
<1>5. CASE Background
  BY <1>2, <1>3, <1>5, PicksUpLive
<1>6. CASE UNCHANGED thread
  BY <1>2, <1>3, <1>6
<1>7. CASE AdminStep
  BY <1>6, <1>7 DEF AdminStep, AdminEnds, EndListed, Disable, Enable, ListOwned, EndWhenDone, OwnerEnded,
              PurgeFolder
<1>8. CASE UNCHANGED vars
  BY <1>6, <1>8 DEF vars
<1> QED BY <1>4, <1>5, <1>7, <1>8 DEF Next

----------------------------------------------------------------------------
(* Who may still write into a closed account: a turn that was under way,    *)
(* and a save past its question.  An end of the account sees their runs;    *)
(* it does not see a turn that has not found its run yet, nor a flush that  *)
(* is past its question while its run has left the store.                   *)
Writes(t) ==
    /\ lock[thread[t].on] # Kept
    /\ \/ thread[t].at = "writing"
       \/ thread[t].op = "turn" /\ thread[t].at \in {"found", "playing", "checking"}
Unseen(t) ==
    \/ thread[t].op = "turn" /\ thread[t].at = "in"
    \/ thread[t].at = "writing" /\ lock[thread[t].on] = Kept

(* Known to the reader: an account is disabled when none of those is about. *)
DisablesQuietly == open /\ ~open' => \A t \in Threads : ~Unseen(t)

NoneUnseen == admin.at # "idle" => ~open /\ \A t \in Threads : ~Unseen(t)
MarksBusy == (admin.at = "mark" => admin.busy) /\ (admin.again => admin.at # "idle")
EndSees ==
    admin.at \in {"ending", "mark"} /\ ~admin.again /\ ~admin.busy =>
        \A t \in Threads : Writes(t) => sess[thread[t].on].run \in admin.todo
PurgeWaits == admin.again \/ admin.at \in {"purge", "purged"} => \A t \in Threads : ~Writes(t)

PurgeInv ==
    /\ FreshInv /\ LiveOrKept /\ AdminTyped
    /\ NoneUnseen /\ MarksBusy /\ EndSees /\ PurgeWaits /\ PurgeIsFinal

LEMMA WriterIs ==
    ASSUME FreshInv, NEW t \in Threads, Writes(t) \/ Unseen(t), ~(thread[t].op = "turn" /\ thread[t].at = "in")
    PROVE  /\ thread[t].on \in Builds /\ thread[t].on <= epoch
           /\ thread[t].at = "writing" /\ lock[thread[t].on] # Kept => lock[thread[t].on] = t
<1>1. thread[t].at \in {"found", "writing", "playing", "checking"}
  BY DEF Writes, Unseen
<1>2. thread[t].on # 0
  BY <1>1 DEF FreshInv, SessionsInv, Placed, LockTold, Locked
<1>3. thread[t].at = "writing" => lock[thread[t].on] = t \/ lock[thread[t].on] = Kept
  BY DEF FreshInv, SessionsInv, LockTold, Locked
<1> QED BY <1>2, <1>3, ThreadIs

(* In a closed account nobody begins to write.  First the threads that do   *)
(* not move.                                                                *)
LEMMA OthersQuiet ==
    ASSUME FreshInv, [Next]_vars, NEW u \in Threads, thread'[u] = thread[u], ~Unseen(u),
           \A b \in Builds : lock[b] = u => lock'[b] = u
    PROVE  ~Unseen(u)' /\ (Writes(u)' => Writes(u))
<1>1. SessionsInv /\ SessionsInv'
  BY StepInv DEF FreshInv
<1>2. ASSUME Unseen(u)' PROVE FALSE
  <2>1. thread[u].at = "writing" /\ lock'[thread[u].on] = Kept
    BY <1>2 DEF Unseen
  <2>2. lock[thread[u].on] # Kept /\ thread[u].on # 0
    BY <1>1, <2>1 DEF Unseen, SessionsInv, LockTold, Locked
  <2>3. lock[thread[u].on] = u /\ thread[u].on \in Builds
    BY <1>1, <2>1, <2>2, ThreadIs DEF SessionsInv, LockTold, Locked
  <2> QED BY <2>1, <2>3
<1>3. ASSUME Writes(u)' PROVE Writes(u)
  <2>1. thread[u].at \in {"found", "writing", "playing", "checking"}
        /\ lock'[thread[u].on] # Kept
    BY <1>3 DEF Writes
  <2>2. thread[u].on # 0
    BY <1>1, <2>1 DEF SessionsInv, Placed, LockTold, Locked
  <2>3. thread[u].on \in Builds
    BY <2>2, ThreadIs
  <2>4. lock[thread[u].on] # Kept
    BY <1>1, <2>1, <2>3, KeptForGood
  <2> QED BY <1>3, <2>4 DEF Writes
<1> QED BY <1>2, <1>3

(* A place a thread comes to that writes nothing. *)
Harmless(me) == me.at # "writing" /\ ~(me.op = "turn" /\ me.at \in {"in", "found", "playing", "checking"})

LEMMA HarmlessIs ==
    ASSUME NEW t, Harmless(thread[t])' PROVE ~Unseen(t)' /\ ~Writes(t)'
BY DEF Harmless, Unseen, Writes

LEMMA MoverQuiet ==
    ASSUME FreshInv, SessionsInv', ~open, NEW t \in Threads, ThreadStep(t), ~Unseen(t)
    PROVE  /\ ~Unseen(t)'
           /\ Writes(t)' => Writes(t) /\ thread'[t].on = thread[t].on
<1>1. thread \in [Threads -> ThreadState] /\ lock \in [Builds -> Threads \cup {Free, Kept}]
  BY DEF FreshInv, SessionsInv, SessionsTypeOK
<1>2. ASSUME Harmless(thread[t])' PROVE ~Unseen(t)' /\ ~Writes(t)'
  BY <1>2, HarmlessIs
<1>3. ASSUME GoIdle(t) PROVE Harmless(thread[t])'
  BY <1>1, <1>3 DEF GoIdle, Idle, Harmless
<1>4. ASSUME GoOn(t) PROVE Harmless(thread[t])'
  <2>1. CASE thread[t].then = "idle"
    BY <1>3, <1>4, <2>1 DEF GoOn
  <2>2. CASE thread[t].then # "idle"
    <3>1. thread'[t].at = thread[t].then
      BY <1>1, <1>4, <2>2 DEF GoOn, ThreadState
    <3>2. thread[t].then \in {"load", "delete"} \cup Steps
      BY <1>1, <2>2 DEF ThreadState
    <3> QED BY <3>1, <3>2 DEF Steps, Harmless
  <2> QED BY <2>1, <2>2
<1>5. ASSUME NEW place, LeaveFor(t, place) PROVE Harmless(thread[t])'
  <2>1. CASE place = "idle" /\ thread[t].op # "create"
    BY <1>1, <1>5, <2>1 DEF LeaveFor, Idle, Harmless
  <2>2. CASE ~(place = "idle" /\ thread[t].op # "create")
    BY <1>1, <1>5, <2>2 DEF LeaveFor, ThreadState, Harmless
  <2> QED BY <2>1, <2>2
<1>6. ASSUME Leave(t) PROVE Harmless(thread[t])'
  BY <1>4, <1>5, <1>6 DEF Leave
<1>7. ASSUME NEW place, Go(t, place), place \notin {"in", "found", "playing", "checking", "writing"}
      PROVE  Harmless(thread[t])'
  BY <1>1, <1>7 DEF Go, ThreadState, Harmless
<1>8. ASSUME thread'[t].op = thread[t].op, thread[t].op # "turn", thread'[t].at # "writing"
      PROVE  Harmless(thread[t])'
  BY <1>8 DEF Harmless
<1>9. Told(t)
  BY ThreadIs
<1>10. CASE \/ ReleaseTurn(t) \/ AfterTurn(t) \/ NotPlayed(t) \/ PlayAndMark(t) \/ Mark(t) \/ SaveRefused(t)
            \/ WriteSave(t) \/ SaveFails(t) \/ LockTaken(t) \/ BuildRefused(t) \/ Delete(t) \/ StepSkipped(t)
  BY <1>2, <1>3, <1>4, <1>5, <1>6, <1>7, <1>10 DEF ReleaseTurn, AfterTurn, NotPlayed, PlayAndMark, Mark,
     SaveRefused, WriteSave, SaveFails, LockTaken, BuildRefused, Delete, StepSkipped, Skip, Steps, NextStep
<1>11. CASE \E r \in Runs, op \in {"turn", "action", "write", "create", "resume"} : LetIn(t, r, op)
  BY <1>11 DEF LetIn
<1>12. CASE FindRun(t) \/ PlayAndSave(t)
  <2>1. thread[t].op # "turn"
    BY <1>12 DEF Unseen, FindRun, PlayAndSave
  <2>2. CASE GoIdle(t)
    BY <1>2, <1>3, <2>2
  <2>3. CASE ~GoIdle(t)
    <3>1. thread'[t].op = thread[t].op /\ thread'[t].at \in {"found", "checking"}
      BY <1>1, <1>12, <2>3 DEF FindRun, PlayAndSave, Go, ThreadState
    <3> QED BY <1>2, <1>8, <2>1, <3>1
  <2> QED BY <2>2, <2>3
<1>13. CASE FirstLook(t)
  BY <1>2, <1>3, <1>7, <1>13 DEF FirstLook
<1>14. CASE TakeLock(t)
  <2>1. CASE LeaveFor(t, "idle")
    BY <1>2, <1>5, <2>1
  <2>2. CASE thread' = [thread EXCEPT ![t].at = Begins(thread[t].op), ![t].how = SaveOf(thread[t].op)]
    <3>1. thread'[t].at = Begins(thread[t].op) /\ thread'[t].op = thread[t].op /\ thread'[t].on = thread[t].on
      BY <1>1, <2>2 DEF ThreadState
    <3>2. thread'[t].at \in {"playing", "checking"}
      BY <3>1 DEF Begins
    <3>3. thread[t].at = "found" /\ lock[thread[t].on] = Free
      BY <1>14 DEF TakeLock
    <3> QED BY <3>1, <3>2, <3>3 DEF Unseen, Writes
  <2> QED BY <1>14, <2>1, <2>2 DEF TakeLock
<1>15. CASE PlayTurn(t)
  <2>1. thread'[t].at = "checking" /\ thread'[t].op = thread[t].op /\ thread'[t].on = thread[t].on
        /\ thread[t].at = "playing" /\ thread[t].op = "turn" /\ UNCHANGED lock
    BY <1>1, <1>15 DEF PlayTurn, Go, ThreadState
  <2> QED BY <2>1 DEF Unseen, Writes
<1>16. CASE CheckSave(t)
  <2>1. thread'[t].at = "writing" /\ thread'[t].op = thread[t].op /\ thread'[t].on = thread[t].on
        /\ thread[t].at = "checking" /\ UNCHANGED lock
    BY <1>1, <1>16 DEF CheckSave, Go, ThreadState
  <2>2. thread[t].how = "autosave"
    BY <1>16 DEF CheckSave, MayWrite
  <2>3. thread[t].op = "turn"
    BY <1>9, <2>2 DEF Told, TurnTold
  <2>4. lock[thread[t].on] = t
    BY <2>1, <2>2 DEF FreshInv, SessionsInv, LockTold, Locked
  <2> QED BY <2>1, <2>3, <2>4 DEF Unseen, Writes
<1>17. CASE FlushBeforeLoad(t)
  <2>1. thread[t].at = "start"
    BY <1>17 DEF FlushBeforeLoad
  <2>2. thread[t].op # "turn"
    BY <1>9, <2>1 DEF Told, TurnTold
  <2>3. thread'[t].op = thread[t].op /\ thread'[t].at # "writing"
    BY <1>1, <1>17 DEF FlushBeforeLoad, Go, ThreadState
  <2> QED BY <1>2, <1>8, <2>2, <2>3
<1>18. CASE Load(t)
  <2>1. CASE GoIdle(t)
    BY <1>2, <1>3, <2>1
  <2>2. CASE ~GoIdle(t)
    <3>1. thread'[t].at = "build"
      BY <1>1, <1>18, <2>2 DEF Load, ThreadState
    <3> QED BY <1>2, <3>1 DEF Harmless
  <2> QED BY <2>1, <2>2
<1>19. CASE StepTaken(t)
  <2>1. thread[t].at \in Steps
    BY <1>19 DEF StepTaken
  <2>2. thread[t].op # "turn"
    BY <1>9, <2>1 DEF Told, TurnTold, Steps
  <2>3. CASE LeaveFor(t, NextStep[thread[t].at])
    BY <1>2, <1>5, <2>3
  <2>4. CASE ~LeaveFor(t, NextStep[thread[t].at])
    <3>1. thread'[t].op = thread[t].op /\ thread'[t].at \in {"checking", "marking"}
      <4>1. CASE thread' = [thread EXCEPT ![t].at = "checking", ![t].how = "owner", ![t].then = "idle"]
        BY <1>1, <4>1 DEF ThreadState
      <4>2. CASE thread' = [thread EXCEPT ![t].at = "checking", ![t].how = "now", ![t].then = "media"]
        BY <1>1, <4>2 DEF ThreadState
      <4>3. CASE thread' = [thread EXCEPT ![t].at = "marking", ![t].then = "media"]
        BY <1>1, <4>3 DEF ThreadState
      <4> QED BY <1>19, <2>4, <4>1, <4>2, <4>3 DEF StepTaken
    <3> QED BY <1>2, <1>8, <2>2, <3>1
  <2> QED BY <2>3, <2>4
<1>20. CASE Build(t)
  <2>1. thread[t].at = "build"
    BY <1>20 DEF Build
  <2>2. thread[t].op # "turn"
    BY <1>9, <2>1 DEF Told, TurnTold
  <2>3. thread'[t].op = thread[t].op /\ thread'[t].at \in {"stamp", "away", "checking"}
    <3> DEFINE me == [thread[t] EXCEPT !.at = IF thread[t].op = "create" THEN "stamp" ELSE "away",
                                       !.on = epoch + 1, !.new = epoch + 1, !.got = {}]
    <3>1. me.op = thread[t].op /\ me.at \in {"stamp", "away"} /\ DOMAIN me = DOMAIN Idle
      BY <1>1 DEF ThreadState, Idle
    <3>2. CASE phone /\ \E o \in LiveBuilds : sess[o].dirty
      <4>1. PICK o : thread'[t] = [me EXCEPT !.at = "checking", !.how = "now", !.then = me.at, !.on = o]
        BY <1>1, <1>20, <3>2 DEF Build, Taken
      <4> HIDE DEF me
      <4> QED BY <3>1, <4>1 DEF Idle
    <3>3. CASE ~(phone /\ \E o \in LiveBuilds : sess[o].dirty)
      <4>1. thread'[t] = me
        BY <1>1, <1>20, <3>3 DEF Build, Taken
      <4> HIDE DEF me
      <4> QED BY <3>1, <4>1
    <3> QED BY <3>2, <3>3
  <2> QED BY <1>2, <1>8, <2>2, <2>3
<1> QED BY <1>10, <1>11, <1>12, <1>13, <1>14, <1>15, <1>16, <1>17, <1>18, <1>19, <1>20 DEF ThreadStep

LEMMA HolderKeeps ==
    ASSUME FreshInv, Background \/ AdminStep \/ UNCHANGED vars, NEW b \in Builds, NEW u \in Threads, lock[b] = u
    PROVE  lock'[b] = u
<1>1. lock \in [Builds -> Threads \cup {Free, Kept}] /\ live \in [Runs -> Builds \cup {0}]
  BY DEF FreshInv, SessionsInv, SessionsTypeOK
<1>2. ASSUME NEW r, CanEnd(r), End(r) PROVE lock'[b] = u
  BY <1>1, <1>2 DEF CanEnd, End
<1>3. CASE UNCHANGED lock
  BY <1>3
<1>4. CASE Background
  BY <1>2, <1>3, <1>4 DEF Background, SaverPops, FlushAll, Sweep
<1>5. CASE AdminStep
  BY <1>2, <1>3, <1>5 DEF AdminStep, AdminEnds, EndListed, Disable, Enable, ListOwned, EndWhenDone, OwnerEnded,
              PurgeFolder
<1> QED BY <1>3, <1>4, <1>5 DEF vars

LEMMA QuietStep ==
    ASSUME FreshInv, [Next]_vars, ~open, \A t \in Threads : ~Unseen(t), NEW u \in Threads
    PROVE  /\ ~Unseen(u)'
           /\ Writes(u)' => Writes(u) /\ thread'[u].on = thread[u].on
<1>1. SessionsInv'
  BY StepInv DEF FreshInv
<1>2. thread \in [Threads -> ThreadState]
  BY ThreadIs
<1>3. ASSUME NEW t \in Threads, ThreadStep(t)
      PROVE  ~Unseen(u)' /\ (Writes(u)' => Writes(u) /\ thread'[u].on = thread[u].on)
  <2>1. CASE u = t
    BY <1>1, <1>3, <2>1, MoverQuiet
  <2>2. CASE u # t
    <3>1. thread'[u] = thread[u] /\ \A b \in Builds : lock[b] = u => lock'[b] = u
      BY <1>3, <2>2, OthersAlone DEF FreshInv
    <3> QED BY <3>1, OthersQuiet
  <2> QED BY <2>1, <2>2
<1>4. CASE (Background \/ AdminStep \/ UNCHANGED vars) /\ thread'[u] = thread[u]
  BY <1>4, HolderKeeps, OthersQuiet
<1>5. CASE Background /\ thread'[u] # thread[u]
  <2>1. ASSUME NEW b \in Builds, SaverPops(b) PROVE Harmless(thread[u])'
    <3>1. thread'[u] = [Idle EXCEPT !.at = "found", !.op = "saving", !.on = b]
      BY <1>2, <1>5, <2>1 DEF SaverPops
    <3> QED BY <3>1 DEF Idle, Harmless
  <2>2. ASSUME NEW b \in Builds, FlushAll(b) PROVE Harmless(thread[u])'
    <3>1. thread'[u] = [Idle EXCEPT !.at = "found", !.op = "flushing", !.on = b]
      BY <1>2, <1>5, <2>2 DEF FlushAll
    <3> QED BY <3>1 DEF Idle, Harmless
  <2>3. ASSUME NEW r \in Runs, Sweep(r) PROVE Harmless(thread[u])'
    <3>1. thread'[u] = [Idle EXCEPT !.at = "checking", !.op = "sweep", !.how = "now", !.on = live[r]]
      BY <1>2, <1>5, <2>3 DEF Sweep
    <3> QED BY <3>1 DEF Idle, Harmless
  <2>4. Harmless(thread[u])'
    BY <1>5, <2>1, <2>2, <2>3 DEF Background
  <2> QED BY <2>4, HarmlessIs
<1>6. AdminStep \/ UNCHANGED vars => thread'[u] = thread[u]
  BY DEF vars, AdminStep, AdminEnds, EndListed, Disable, Enable, ListOwned, EndWhenDone, OwnerEnded, PurgeFolder
<1> QED BY <1>3, <1>4, <1>5, <1>6 DEF Next

(* A save is a writer's. *)
LEMMA WriterWrites ==
    ASSUME FreshInv, [Next]_vars, ~PurgeFolder, \A t \in Threads : ~Unseen(t) /\ ~Writes(t)
    PROVE  UNCHANGED disk
<1>1. ASSUME NEW t \in Threads, WriteSave(t) PROVE FALSE
  BY <1>1 DEF WriteSave, Unseen, Writes
<1>2. ASSUME NEW t \in Threads, ThreadStep(t) PROVE UNCHANGED disk
  BY <1>1, <1>2 DEF ThreadStep, LetIn, FindRun, FirstLook, TakeLock, LockTaken,
              ReleaseTurn, AfterTurn, NotPlayed, PlayTurn, PlayAndSave, PlayAndMark, Mark, CheckSave, SaveRefused,
              SaveFails, FlushBeforeLoad, Load, Build, BuildRefused, StepTaken, StepSkipped, Delete
<1> QED BY <1>2 DEF Next, vars, Background, SaverPops, FlushAll, Sweep, AdminStep, AdminEnds, EndListed, Disable,
              Enable, ListOwned, EndWhenDone, OwnerEnded

(* The threads' steps, and the admin's end of one session. *)
LEMMA PurgeAside ==
    ASSUME PurgeInv, [Next]_vars, UNCHANGED <<open, admin>>, ~PurgeFolder
    PROVE  NoneUnseen' /\ MarksBusy' /\ EndSees' /\ PurgeWaits' /\ PurgeIsFinal'
<1>1. MarksBusy'
  BY DEF PurgeInv, MarksBusy
<1>2. CASE admin.at = "idle"
  <2>1. ~admin.again /\ admin'.at = "idle" /\ ~admin'.again
    BY <1>2 DEF PurgeInv, MarksBusy, AdminTyped
  <2> QED BY <1>1, <2>1 DEF NoneUnseen, EndSees, PurgeWaits, PurgeIsFinal
<1>3. CASE admin.at # "idle"
  <2>1. ~open /\ \A t \in Threads : ~Unseen(t)
    BY <1>3 DEF PurgeInv, NoneUnseen
  <2>2. \A u \in Threads : /\ ~Unseen(u)'
                           /\ Writes(u)' => Writes(u) /\ thread'[u].on = thread[u].on
    BY <2>1, QuietStep DEF PurgeInv
  <2>3. NoneUnseen'
    BY <2>1, <2>2 DEF NoneUnseen
  <2>4. EndSees'
    <3> SUFFICES ASSUME admin.at \in {"ending", "mark"}, ~admin.again, ~admin.busy,
                        NEW u \in Threads, Writes(u)'
                 PROVE  sess'[thread'[u].on].run \in admin.todo
      BY DEF EndSees
    <3>1. Writes(u) /\ thread'[u].on = thread[u].on
      BY <2>2
    <3>2. sess[thread[u].on].run \in admin.todo
      BY <3>1 DEF PurgeInv, EndSees
    <3>3. thread[u].on \in Builds /\ thread[u].on <= epoch
      BY <3>1, WriterIs DEF PurgeInv, Writes
    <3>4. sess'[thread[u].on].run = sess[thread[u].on].run
      BY <3>3, RunForGood DEF PurgeInv, FreshInv
    <3> QED BY <3>1, <3>2, <3>4
  <2>5. PurgeWaits'
    BY <2>2 DEF PurgeInv, PurgeWaits
  <2>6. PurgeIsFinal'
    <3> SUFFICES ASSUME admin.at = "purged" PROVE \A r \in Runs : disk'[r] = NoSave
      BY DEF PurgeIsFinal
    <3>1. \A t \in Threads : ~Writes(t)
      BY DEF PurgeInv, PurgeWaits
    <3>2. UNCHANGED disk
      BY <2>1, <3>1, WriterWrites DEF PurgeInv
    <3> QED BY <3>2 DEF PurgeInv, PurgeIsFinal
  <2> QED BY <1>1, <2>3, <2>4, <2>5, <2>6
<1> QED BY <1>2, <1>3

(* One of the end's list: its run leaves the store, its lock kept; or it is *)
(* busy, and the end says so.                                               *)
LEMMA PurgeListed ==
    ASSUME PurgeInv, NEW r \in Runs, EndListed(r), [Next]_vars
    PROVE  NoneUnseen' /\ MarksBusy' /\ EndSees' /\ PurgeWaits' /\ PurgeIsFinal'
<1>1. admin.at = "ending" /\ r \in admin.todo /\ UNCHANGED <<epoch, sess, disk, open, plays, thread>>
  BY DEF EndListed
<1>2. ~open /\ \A t \in Threads : ~Unseen(t)
  BY <1>1 DEF PurgeInv, NoneUnseen
<1>3. \A u \in Threads : /\ ~Unseen(u)'
                         /\ Writes(u)' => Writes(u) /\ thread'[u].on = thread[u].on
  BY <1>2, QuietStep DEF PurgeInv
<1>4. CASE live[r] # 0 /\ ~CanEnd(r)
  <2>1. admin' = [admin EXCEPT !.at = "mark", !.todo = {r}, !.busy = TRUE]
    BY <1>4 DEF EndListed
  <2>2. admin'.at = "mark" /\ admin'.busy /\ admin'.again = admin.again
    BY <2>1 DEF PurgeInv, AdminTyped
  <2> QED BY <1>1, <1>2, <1>3, <2>2
          DEF PurgeInv, NoneUnseen, MarksBusy, EndSees, PurgeWaits, PurgeIsFinal
<1>5. CASE ~(live[r] # 0 /\ ~CanEnd(r))
  <2>1. admin' = [admin EXCEPT !.todo = @ \ {r}] /\ (live[r] # 0 => End(r))
    BY <1>5 DEF EndListed
  <2>2. admin'.at = "ending" /\ admin'.busy = admin.busy /\ admin'.again = admin.again
        /\ admin'.todo = admin.todo \ {r}
    BY <1>1, <2>1 DEF PurgeInv, AdminTyped
  <2>3. NoneUnseen' /\ MarksBusy' /\ PurgeWaits' /\ PurgeIsFinal'
    BY <1>1, <1>2, <1>3, <2>2 DEF PurgeInv, NoneUnseen, MarksBusy, PurgeWaits, PurgeIsFinal
  <2>4. EndSees'
    <3> SUFFICES ASSUME ~admin.again, ~admin.busy, NEW u \in Threads, Writes(u)'
                 PROVE  sess[thread[u].on].run \in admin.todo \ {r}
      BY <1>1, <2>2 DEF EndSees
    <3>1. Writes(u) /\ thread'[u] = thread[u]
      BY <1>1, <1>3
    <3>2. sess[thread[u].on].run \in admin.todo
      BY <1>1, <3>1 DEF PurgeInv, EndSees
    <3>3. thread[u].on \in Builds /\ thread[u].on # 0 /\ lock[thread[u].on] # Kept
      BY <3>1, WriterIs DEF PurgeInv, Writes
    <3>4. IsLive(thread[u].on)
      BY <3>3 DEF PurgeInv, LiveOrKept
    <3>5. ASSUME sess[thread[u].on].run = r PROVE FALSE
      <4>1. live[r] = thread[u].on
        BY <3>4, <3>5 DEF IsLive
      <4>2. End(r)
        BY <2>1, <3>3, <4>1
      <4>3. lock'[thread[u].on] = Kept
        BY <3>3, <4>1, <4>2 DEF End, PurgeInv, FreshInv, SessionsInv, SessionsTypeOK
      <4> QED BY <3>1, <4>3 DEF Writes
    <3> QED BY <3>2, <3>5
  <2> QED BY <2>3, <2>4
<1> QED BY <1>4, <1>5

LEMMA PurgeAdmin ==
    ASSUME PurgeInv, AdminStep, [Next]_vars, DisablesQuietly \/ UNCHANGED vars
    PROVE  NoneUnseen' /\ MarksBusy' /\ EndSees' /\ PurgeWaits' /\ PurgeIsFinal'
<1>1. ASSUME NEW r \in Runs, AdminEnds(r) PROVE NoneUnseen' /\ MarksBusy' /\ EndSees' /\ PurgeWaits' /\ PurgeIsFinal'
  <2>1. UNCHANGED <<open, admin>> /\ ~PurgeFolder
    BY <1>1 DEF AdminEnds, PurgeFolder
  <2> QED BY <2>1, PurgeAside
<1>2. ASSUME NEW r \in Runs, EndListed(r) PROVE NoneUnseen' /\ MarksBusy' /\ EndSees' /\ PurgeWaits' /\ PurgeIsFinal'
  BY <1>2, PurgeListed
<1>3. ASSUME UNCHANGED <<thread, lock>>
      PROVE  \A t \in Threads : (Unseen(t)' <=> Unseen(t)) /\ (Writes(t)' <=> Writes(t))
  BY <1>3 DEF Unseen, Writes
<1>4. CASE \E purge \in BOOLEAN : Disable(purge)
  <2>1. PICK purge \in BOOLEAN : Disable(purge)
    BY <1>4
  <2>2. open /\ ~open' /\ UNCHANGED <<thread, lock, disk>>
        /\ admin' = [AdminIdle EXCEPT !.at = "list", !.purge = purge]
    BY <2>1 DEF Disable
  <2>3. admin'.at = "list" /\ ~admin'.again
    BY <2>2 DEF AdminIdle
  <2>4. \A t \in Threads : ~Unseen(t)
    BY <2>2 DEF DisablesQuietly, vars
  <2> QED BY <1>3, <2>2, <2>3, <2>4 DEF NoneUnseen, MarksBusy, EndSees, PurgeWaits, PurgeIsFinal
<1>5. CASE Enable
  <2>1. admin' = admin /\ admin.at = "idle" /\ ~admin.again
    BY <1>5 DEF Enable, PurgeInv, MarksBusy, AdminTyped
  <2> QED BY <2>1 DEF NoneUnseen, MarksBusy, EndSees, PurgeWaits, PurgeIsFinal
<1>6. CASE ListOwned
  <2>1. admin.at = "list" /\ UNCHANGED <<live, sess, lock, disk, open, thread>>
        /\ admin' = [admin EXCEPT !.at = "ending", !.todo = {r \in Runs : live[r] # 0}, !.busy = FALSE]
    BY <1>6 DEF ListOwned
  <2>2. admin'.at = "ending" /\ admin'.todo = {r \in Runs : live[r] # 0} /\ admin'.again = admin.again
    BY <2>1 DEF PurgeInv, AdminTyped
  <2>3. ASSUME NEW u \in Threads, Writes(u) PROVE sess[thread[u].on].run \in {r \in Runs : live[r] # 0}
    <3>1. thread[u].on \in Builds /\ thread[u].on # 0 /\ lock[thread[u].on] # Kept
      BY <2>3, WriterIs DEF PurgeInv, Writes
    <3>2. IsLive(thread[u].on)
      BY <3>1 DEF PurgeInv, LiveOrKept
    <3> QED BY <3>1, <3>2 DEF IsLive
  <2>4. EndSees'
    BY <1>3, <2>1, <2>2, <2>3 DEF EndSees
  <2>5. NoneUnseen' /\ MarksBusy' /\ PurgeWaits' /\ PurgeIsFinal'
    BY <1>3, <2>1, <2>2 DEF PurgeInv, NoneUnseen, MarksBusy, PurgeWaits, PurgeIsFinal
  <2> QED BY <2>4, <2>5
<1>7. CASE EndWhenDone
  <2>1. admin.at = "mark" /\ admin.busy /\ UNCHANGED <<live, lock, disk, open, thread>>
        /\ admin' = [admin EXCEPT !.at = "ending", !.todo = {}]
    BY <1>7 DEF EndWhenDone, PurgeInv, MarksBusy
  <2>2. admin'.at = "ending" /\ admin'.busy /\ admin'.again = admin.again
    BY <2>1 DEF PurgeInv, AdminTyped
  <2> QED BY <1>3, <2>1, <2>2 DEF PurgeInv, NoneUnseen, MarksBusy, EndSees, PurgeWaits, PurgeIsFinal
<1>8. CASE OwnerEnded
  <2>1. admin.at = "ending" /\ admin.todo = {} /\ UNCHANGED <<live, sess, lock, disk, open, thread>>
    BY <1>8 DEF OwnerEnded
  <2>2. CASE admin.purge /\ (admin.again \/ ~admin.busy)
    <3>1. admin'.at = "purge" /\ admin'.again = admin.again
      BY <1>8, <2>2 DEF OwnerEnded, PurgeInv, AdminTyped
    <3>2. \A t \in Threads : ~Writes(t)
      BY <2>1, <2>2 DEF PurgeInv, EndSees, PurgeWaits
    <3> QED BY <1>3, <2>1, <3>1, <3>2 DEF PurgeInv, NoneUnseen, MarksBusy, EndSees, PurgeWaits, PurgeIsFinal
  <2>3. CASE ~(admin.purge /\ (admin.again \/ ~admin.busy))
    <3>1. admin'.at = "closed" /\ admin'.again = admin.again
      BY <1>8, <2>3 DEF OwnerEnded, PurgeInv, AdminTyped
    <3> QED BY <1>3, <2>1, <3>1 DEF PurgeInv, NoneUnseen, MarksBusy, EndSees, PurgeWaits, PurgeIsFinal
  <2> QED BY <2>2, <2>3
<1>9. CASE PurgeFolder
  <2>1. admin.at = "purge" /\ UNCHANGED <<lock, open, thread>> /\ disk' = [r \in Runs |-> NoSave]
    BY <1>9 DEF PurgeFolder
  <2>2. admin'.at \in {"purged", "list"}
    BY <1>9 DEF PurgeFolder, PurgeInv, AdminTyped
  <2>3. \A t \in Threads : ~Writes(t)
    BY <2>1 DEF PurgeInv, PurgeWaits
  <2> QED BY <1>3, <2>1, <2>2, <2>3 DEF PurgeInv, NoneUnseen, MarksBusy, EndSees, PurgeWaits, PurgeIsFinal
<1> QED BY <1>1, <1>2, <1>4, <1>5, <1>6, <1>7, <1>8, <1>9 DEF AdminStep

LEMMA PurgeStep == PurgeInv /\ [Next]_vars /\ [DisablesQuietly]_vars => PurgeInv'
<1> SUFFICES ASSUME PurgeInv, [Next]_vars, [DisablesQuietly]_vars PROVE PurgeInv'
  OBVIOUS
<1>1. FreshInv' /\ LiveOrKept' /\ AdminTyped'
  BY FreshStep, LiveOrKeptStep, AdminTypes DEF PurgeInv
<1>2. CASE AdminStep
  BY <1>1, <1>2, PurgeAdmin DEF PurgeInv
<1>3. CASE (\E t \in Threads : ThreadStep(t)) \/ Background \/ UNCHANGED vars
  <2>1. UNCHANGED <<open, admin>>
    BY <1>3, AdminWaits
  <2>2. ASSUME PurgeFolder PROVE FALSE
    BY <2>1, <2>2 DEF PurgeFolder, PurgeInv, AdminTyped
  <2> QED BY <1>1, <2>1, <2>2, PurgeAside DEF PurgeInv
<1> QED BY <1>2, <1>3 DEF Next

(* A purged account's folder stays gone, whatever create, resume, phone     *)
(* action or timer the gate let in before, and whatever turn was under way  *)
(* when the account was disabled (store.py, end_owner, _take_owned; saves'  *)
(* owner_open; users.py, users_delete).  Left out is a disable in the       *)
(* instant between a turn's admission and its look for its run, or between  *)
(* a flush's question and its write after its run left the store.           *)
THEOREM PurgeIsFinalHolds == Spec /\ [][DisablesQuietly]_vars => []PurgeIsFinal
<1>1. Init => PurgeInv
  <2> SUFFICES ASSUME Init PROVE PurgeInv
    OBVIOUS
  <2>1. admin.at = "idle" /\ ~admin.again /\ AdminTyped
    BY DEF Init, AdminIdle, AdminTyped
  <2>2. LiveOrKept
    BY DEF Init, Idle, LiveOrKept
  <2> QED BY <2>1, <2>2, FreshInit
          DEF PurgeInv, NoneUnseen, MarksBusy, EndSees, PurgeWaits, PurgeIsFinal
<1>2. PurgeInv => PurgeIsFinal
  BY DEF PurgeInv
<1> QED BY <1>1, <1>2, PurgeStep, PTL DEF Spec

----------------------------------------------------------------------------
(* Who resumes a run, from the flush before its load to its build; and who  *)
(* flushes a run that its release has taken.                                *)
Loading(t) ==
    \/ thread[t].op # "create" /\ thread[t].at \in {"start", "load", "build"}
    \/ thread[t].then = "load"
Flushes(t) ==
    /\ thread[t].at \in {"checking", "writing", "marking"}
    /\ lock[thread[t].on] = Kept

(* No resume loads a run while the flush of its release is under way.       *)
LoadsFlushed ==
    \A t, u \in Threads : Load(t) /\ Flushes(u) => sess[thread[u].on].run # thread[t].run

(* Nothing is played on a run while it is resumed, and the flush before its *)
(* load does not fail.                                                      *)
Resumed ==
    \A t \in Threads : Loading(t) =>
        /\ \A b \in LiveBuilds : sess[b].run = thread[t].run /\ lock[b] = Free =>
                lock'[b] \in {Free, Kept, t}
        /\ ~(thread[t].at = "writing" /\ thread'[t].at = "marking")

GrowWindow == LoadsFlushed /\ Resumed

(* A live run has what its save has; so has what a resume loaded; and a     *)
(* create has no save.                                                      *)
LiveHas == \A r \in Runs : live[r] # 0 /\ disk[r] # NoSave => disk[r] \subseteq sess[live[r]].mem
CreatesAnew ==
    \A t \in Threads :
        thread[t].op = "create" /\ thread[t].at \in {"in", "build"} => disk[thread[t].run] = NoSave
LoadedHas ==
    \A t \in Threads :
        thread[t].at = "build" /\ disk[thread[t].run] # NoSave => disk[thread[t].run] \subseteq thread[t].got

(* A run that is resumed is nobody else's, and once it is flushed there is  *)
(* nothing more of it to flush, or nobody will.                             *)
PastFlush(t) ==
    \/ thread[t].op # "create" /\ thread[t].at \in {"load", "build"}
    \/ thread[t].then = "load" /\ thread[t].at # "checking"
Settled(b) == phone /\ sess[b].dirty => sess[b].ending \/ ~open
LoadsAlone ==
    \A t \in Threads : Loading(t) =>
        \A b \in LiveBuilds : sess[b].run = thread[t].run =>
            lock[b] \in {Free, t} /\ (PastFlush(t) => Settled(b))

(* A kept lock's run is only flushed.  What such a flush may still write is *)
(* no less than the save, and nobody else's to write: the run is not live,  *)
(* nor about to be, nor flushed twice.                                      *)
WorksHeld == \A t \in Threads : thread[t].at \in Locked /\ lock[thread[t].on] = Kept => Flushes(t)
NoneBuilds(r) == \A t \in Threads : ~(thread[t].op # "create" /\ thread[t].at = "build" /\ thread[t].run = r)
MaySave(t) ==
    /\ Flushes(t)
    /\ \/ thread[t].at = "writing"
       \/ thread[t].at = "checking" /\ ~sess[thread[t].on].ending /\ open
FlushTold ==
    \A t \in Threads : MaySave(t) =>
        LET b == thread[t].on
            r == sess[b].run
        IN  /\ live[r] = 0 /\ NoneBuilds(r)
            /\ disk[r] # NoSave => disk[r] \subseteq sess[b].mem
            /\ \A u \in Threads : u # t /\ MaySave(u) => sess[thread[u].on].run # r

(* A flush before a load saves a build of the run it is to load.            *)
FlushLoads ==
    \A t \in Threads : thread[t].then = "load" =>
        /\ thread[t].at \in {"checking", "writing", "release", "hook"}
        /\ thread[t].on # 0 /\ sess[thread[t].on].run = thread[t].run
        /\ thread[t].at \in {"checking", "writing"} => thread[t].how = "now" /\ lock[thread[t].on] = t

GrowInv ==
    /\ FreshInv /\ LiveOrKept /\ AdminTyped /\ NothingBegun
    /\ LiveHas /\ CreatesAnew /\ LoadedHas /\ LoadsAlone /\ WorksHeld /\ FlushTold /\ FlushLoads

----------------------------------------------------------------------------
(* What a step leaves: plays and marks are not forgotten, dirty state is    *)
(* made under the build's lock, a save is a writer's, and an account in use *)
(* is not opened.                                                           *)
LEMMA MemGrows ==
    ASSUME FreshInv, [Next]_vars, NEW b \in Builds, b <= epoch
    PROVE  sess[b].mem \subseteq sess'[b].mem /\ (sess[b].ending => sess'[b].ending)
<1> DEFINE Grows == sess[b].mem \subseteq sess'[b].mem /\ (sess[b].ending => sess'[b].ending)
<1>1. sess \in [Builds -> [run : Runs \cup {0}, mem : SUBSET Plays, dirty : BOOLEAN, ending : BOOLEAN]]
      /\ epoch \in Nat
  BY ThreadIs DEF FreshInv, SessionsInv, SessionsTypeOK
<1>2. ASSUME NEW x, NEW new, sess' = [sess EXCEPT ![x].mem = @ \cup {new}] PROVE Grows
  BY <1>1, <1>2
<1>3. ASSUME NEW x, NEW new, sess' = [sess EXCEPT ![x].dirty = new] PROVE Grows
  BY <1>1, <1>3
<1>4. ASSUME NEW x, NEW new, NEW old, sess' = [sess EXCEPT ![x].mem = @ \cup {new}, ![x].dirty = old]
      PROVE  Grows
  BY <1>1, <1>4
<1>5. ASSUME NEW x, sess' = [sess EXCEPT ![x].ending = TRUE] PROVE Grows
  <2>1. sess'[b].mem = sess[b].mem
    BY <1>1, <1>5
  <2>2. CASE x = b
    <3>1. sess'[b].ending = TRUE
      BY <1>1, <1>5, <2>2
    <3> QED BY <2>1, <3>1
  <2>3. CASE x # b
    <3>1. sess'[b] = sess[b]
      BY <1>1, <1>5, <2>3
    <3> QED BY <3>1
  <2> QED BY <2>2, <2>3
<1>6. CASE UNCHANGED sess
  BY <1>6
<1>7. ASSUME NEW t \in Threads, ThreadStep(t) PROVE Grows
  <2>1. CASE PlayTurn(t) \/ PlayAndSave(t)
    BY <1>2, <2>1 DEF PlayTurn, PlayAndSave, Played
  <2>2. CASE PlayAndMark(t)
    BY <1>4, <2>2 DEF PlayAndMark
  <2>3. CASE CheckSave(t) \/ SaveFails(t) \/ StepTaken(t)
    BY <1>3, <1>6, <2>3 DEF CheckSave, SaveFails, StepTaken
  <2>4. CASE Build(t)
    <3>1. sess'[b] = sess[b]
      BY <1>1, <2>4 DEF Build
    <3> QED BY <3>1
  <2> QED BY <1>6, <1>7, <2>1, <2>2, <2>3, <2>4 DEF ThreadStep, LetIn, FindRun, FirstLook, TakeLock, LockTaken,
              ReleaseTurn, AfterTurn, NotPlayed, Mark, SaveRefused, WriteSave, FlushBeforeLoad, Load,
              BuildRefused, StepSkipped, Delete
<1>8. CASE Background
  BY <1>6, <1>8 DEF Background, SaverPops, FlushAll, Sweep
<1>9. CASE AdminStep
  <2>1. CASE EndWhenDone
    BY <1>5, <1>6, <2>1 DEF EndWhenDone
  <2> QED BY <1>6, <1>9, <2>1 DEF AdminStep, AdminEnds, EndListed, Disable, Enable, ListOwned, OwnerEnded,
              PurgeFolder
<1>10. CASE UNCHANGED vars
  BY <1>6, <1>10 DEF vars
<1> QED BY <1>7, <1>8, <1>9, <1>10 DEF Next

LEMMA DirtyBy ==
    ASSUME FreshInv, [Next]_vars, NEW b \in Builds, b <= epoch, sess'[b].dirty, ~sess[b].dirty
    PROVE  \E t \in Threads :
              /\ ThreadStep(t) /\ thread[t].on = b
              /\ \/ PlayAndMark(t) \/ SaveFails(t)
                 \/ thread[t].at = "away" /\ lock[b] = Free /\ lock'[b] = t
<1>1. sess \in [Builds -> [run : Runs \cup {0}, mem : SUBSET Plays, dirty : BOOLEAN, ending : BOOLEAN]]
      /\ epoch \in Nat /\ lock \in [Builds -> Threads \cup {Free, Kept}]
  BY ThreadIs DEF FreshInv, SessionsInv, SessionsTypeOK
<1>2. ASSUME NEW x, NEW new, sess' = [sess EXCEPT ![x].mem = new] PROVE FALSE
  BY <1>1, <1>2
<1>3. ASSUME UNCHANGED sess PROVE FALSE
  BY <1>3
<1>4. ASSUME NEW x, NEW new, sess' = [sess EXCEPT ![x].dirty = new] PROVE x = b /\ new
  <2>1. CASE x = b
    <3>1. sess'[b].dirty = new
      BY <1>1, <1>4, <2>1
    <3> QED BY <2>1, <3>1
  <2>2. CASE x # b
    BY <1>1, <1>4, <2>2
  <2> QED BY <2>1, <2>2
<1>5. ASSUME NEW x, NEW new, NEW old, sess' = [sess EXCEPT ![x].mem = new, ![x].dirty = old] PROVE x = b
  BY <1>1, <1>5
<1>6. ASSUME NEW x, sess' = [sess EXCEPT ![x].ending = TRUE] PROVE FALSE
  BY <1>1, <1>6
<1>7. ASSUME NEW t \in Threads, ThreadStep(t)
      PROVE  /\ thread[t].on = b
             /\ \/ PlayAndMark(t) \/ SaveFails(t)
                \/ thread[t].at = "away" /\ lock[b] = Free /\ lock'[b] = t
  <2>1. CASE PlayTurn(t) \/ PlayAndSave(t)
    BY <1>2, <2>1 DEF PlayTurn, PlayAndSave, Played
  <2>2. CASE PlayAndMark(t)
    BY <1>5, <2>2 DEF PlayAndMark
  <2>3. CASE CheckSave(t)
    BY <1>3, <1>4, <2>3 DEF CheckSave
  <2>4. CASE SaveFails(t)
    BY <1>3, <1>4, <2>4 DEF SaveFails
  <2>5. CASE StepTaken(t)
    <3>1. thread[t].at = "away" /\ sess' = [sess EXCEPT ![thread[t].on].dirty = TRUE]
          /\ lock[thread[t].on] = Free /\ lock' = [lock EXCEPT ![thread[t].on] = t]
      BY <1>3, <2>5 DEF StepTaken
    <3>2. thread[t].on = b
      BY <1>4, <3>1
    <3> QED BY <1>1, <3>1, <3>2
  <2>6. CASE Build(t)
    <3>1. sess'[b] = sess[b]
      BY <1>1, <2>6 DEF Build
    <3> QED BY <3>1
  <2> QED BY <1>3, <1>7, <2>1, <2>2, <2>3, <2>4, <2>5, <2>6 DEF ThreadStep, LetIn, FindRun, FirstLook, TakeLock,
              LockTaken, ReleaseTurn, AfterTurn, NotPlayed, Mark, SaveRefused, WriteSave, FlushBeforeLoad, Load,
              BuildRefused, StepSkipped, Delete
<1>8. CASE Background
  BY <1>3, <1>8 DEF Background, SaverPops, FlushAll, Sweep
<1>9. CASE AdminStep
  <2>1. CASE EndWhenDone
    BY <1>3, <1>6, <2>1 DEF EndWhenDone
  <2> QED BY <1>3, <1>9, <2>1 DEF AdminStep, AdminEnds, EndListed, Disable, Enable, ListOwned, OwnerEnded,
              PurgeFolder
<1>10. CASE UNCHANGED vars
  BY <1>3, <1>10 DEF vars
<1> QED BY <1>7, <1>8, <1>9, <1>10 DEF Next

LEMMA DiskBy ==
    ASSUME [Next]_vars
    PROVE  UNCHANGED disk \/ PurgeFolder \/ \E t \in Threads : WriteSave(t)
<1>1. ASSUME NEW t \in Threads, ThreadStep(t), ~WriteSave(t) PROVE UNCHANGED disk
  BY <1>1 DEF ThreadStep, LetIn, FindRun, FirstLook, TakeLock, LockTaken,
              ReleaseTurn, AfterTurn, NotPlayed, PlayTurn, PlayAndSave, PlayAndMark, Mark, CheckSave, SaveRefused,
              SaveFails, FlushBeforeLoad, Load, Build, BuildRefused, StepTaken, StepSkipped, Delete
<1> QED BY <1>1 DEF Next, vars, Background, SaverPops, FlushAll, Sweep, AdminStep, AdminEnds, EndListed, Disable,
              Enable, ListOwned, EndWhenDone, OwnerEnded

LEMMA LiveBy ==
    ASSUME FreshInv, [Next]_vars, NEW r \in Runs
    PROVE  \/ live'[r] = live[r] \/ live'[r] = 0
           \/ \E t \in Threads : Build(t) /\ r = thread[t].run /\ live'[r] = epoch + 1
<1>1. live \in [Runs -> Builds \cup {0}]
  BY DEF FreshInv, SessionsInv, SessionsTypeOK
<1>2. ASSUME NEW x, live' = [live EXCEPT ![x] = 0] PROVE live'[r] = live[r] \/ live'[r] = 0
  BY <1>1, <1>2
<1>3. ASSUME NEW t \in Threads, ThreadStep(t), ~Build(t) PROVE live'[r] = live[r] \/ live'[r] = 0
  <2>1. CASE AfterTurn(t) \/ Delete(t)
    BY <1>2, <2>1 DEF AfterTurn, Delete, End
  <2> QED BY <1>3, <2>1 DEF ThreadStep, LetIn, FindRun, FirstLook, TakeLock, LockTaken, ReleaseTurn, NotPlayed,
              PlayTurn, PlayAndSave, PlayAndMark, Mark, CheckSave, SaveRefused, WriteSave, SaveFails,
              FlushBeforeLoad, Load, BuildRefused, StepTaken, StepSkipped
<1>4. ASSUME NEW t \in Threads, Build(t)
      PROVE  live'[r] = live[r] \/ live'[r] = 0 \/ (r = thread[t].run /\ live'[r] = epoch + 1)
  BY <1>4 DEF Build
<1>5. CASE Background
  BY <1>2, <1>5 DEF Background, SaverPops, FlushAll, Sweep, End
<1>6. CASE AdminStep
  BY <1>2, <1>6 DEF AdminStep, AdminEnds, EndListed, Disable, Enable, ListOwned, EndWhenDone, OwnerEnded,
              PurgeFolder, End
<1> QED BY <1>3, <1>4, <1>5, <1>6 DEF Next, vars

LEMMA StaysShut ==
    ASSUME AdminTyped, NothingBegun, [Next]_vars, ~open, NEW t \in Threads, thread[t].at # "idle"
    PROVE  ~open'
<1>1. admin.at # "idle"
  BY DEF NothingBegun
<1>2. UNCHANGED open \/ AdminStep
  BY AdminWaits DEF Next
<1> QED BY <1>1, <1>2 DEF AdminStep, AdminEnds, EndListed, Disable, Enable, ListOwned, EndWhenDone, OwnerEnded,
              PurgeFolder

(* A lock changes hands through nobody's. *)
LEMMA LockOf ==
    ASSUME FreshInv, [Next]_vars, NEW t \in Threads, NEW b \in Builds, lock[b] = t
    PROVE  lock'[b] = t \/ (lock'[b] = Free /\ ReleaseTurn(t))
<1>1. ASSUME NEW u \in Threads, ThreadStep(u) PROVE lock'[b] = t \/ (lock'[b] = Free /\ ReleaseTurn(t))
  <2>1. CASE u # t
    BY <1>1, <2>1, OthersAlone DEF FreshInv
  <2>2. CASE u = t /\ ~ReleaseTurn(t)
    BY <1>1, <2>2, KeepsLock DEF FreshInv
  <2>3. CASE u = t /\ ReleaseTurn(t)
    <3>1. thread[t].on = b /\ lock \in [Builds -> Threads \cup {Free, Kept}]
      BY DEF FreshInv, SessionsInv, LockTold, SessionsTypeOK
    <3> QED BY <2>3, <3>1 DEF ReleaseTurn
  <2> QED BY <2>1, <2>2, <2>3
<1> QED BY <1>1, HolderKeeps DEF Next

(* How a thread comes where a resume, a flush or a save begins. *)
Arrived(t) ==
    /\ thread'[t].at = "in" => \E r \in Runs, op \in {"turn", "action", "write", "create", "resume"} : LetIn(t, r, op)
    /\ thread'[t].at = "start" => FirstLook(t)
    /\ thread'[t].at = "load" => FirstLook(t) \/ FlushBeforeLoad(t) \/ thread[t].then = "load"
    /\ thread'[t].at = "build" => FirstLook(t) \/ Load(t)
    /\ thread'[t].at = "playing" => TakeLock(t)
    /\ thread'[t].at = "after" => WriteSave(t)
    /\ thread'[t].at = "checking" =>
           TakeLock(t) \/ PlayTurn(t) \/ PlayAndSave(t) \/ FlushBeforeLoad(t) \/ StepTaken(t) \/ Build(t)
    /\ thread'[t].at = "writing" => CheckSave(t)
    /\ thread'[t].at = "marking" => PlayAndMark(t) \/ SaveFails(t) \/ StepTaken(t)
    /\ thread'[t].then = "load" => FlushBeforeLoad(t) \/ thread[t].then = "load"
    /\ thread'[t].at \in {"start", "load", "build"} \/ thread'[t].then = "load" =>
           thread'[t].run = thread[t].run /\ thread'[t].op = thread[t].op

LEMMA Arrives ==
    ASSUME FreshInv, NEW t \in Threads, ThreadStep(t)
    PROVE  Arrived(t)
<1> DEFINE Left == /\ \/ thread'[t].at \in {"idle", "release", "hook", "found", "delete", "stamp",
                                               "away", "media", "first"}
                      \/ (thread'[t].at = "load" /\ thread[t].then = "load" /\ thread'[t].then = "idle"
                          /\ thread'[t].run = thread[t].run /\ thread'[t].op = thread[t].op)
                   /\ thread'[t].then = "load" =>
                          thread[t].then = "load" /\ thread'[t].run = thread[t].run /\ thread'[t].op = thread[t].op
<1>1. thread \in [Threads -> ThreadState] /\ lock \in [Builds -> Threads \cup {Free, Kept}]
  BY DEF FreshInv, SessionsInv, SessionsTypeOK
<1>2. ASSUME Left PROVE Arrived(t)
  BY <1>2 DEF Arrived
<1>3. ASSUME GoIdle(t) PROVE Left
  BY <1>1, <1>3 DEF GoIdle, Idle
<1>4. ASSUME GoOn(t) PROVE Left
  <2>1. CASE thread[t].then = "idle"
    BY <1>3, <1>4, <2>1 DEF GoOn
  <2>2. CASE thread[t].then # "idle"
    <3>1. /\ thread'[t].at = thread[t].then /\ thread'[t].then = "idle"
          /\ thread'[t].run = thread[t].run /\ thread'[t].op = thread[t].op
      BY <1>1, <1>4, <2>2 DEF GoOn, ThreadState
    <3>2. thread[t].then \in {"load", "delete"} \cup Steps
      BY <1>1, <2>2 DEF ThreadState
    <3> QED BY <3>1, <3>2 DEF Steps
  <2> QED BY <2>1, <2>2
<1>5. ASSUME NEW place, LeaveFor(t, place), place = "load" => thread[t].then = "load" PROVE Left
  <2>1. CASE place = "idle" /\ thread[t].op # "create"
    BY <1>1, <1>5, <2>1 DEF LeaveFor, Idle
  <2>2. CASE ~(place = "idle" /\ thread[t].op # "create")
    <3>1. /\ thread'[t].at = "release" /\ thread'[t].then = place
          /\ thread'[t].run = thread[t].run /\ thread'[t].op = thread[t].op
      BY <1>1, <1>5, <2>2 DEF LeaveFor, ThreadState
    <3> QED BY <1>5, <3>1
  <2> QED BY <2>1, <2>2
<1>6. ASSUME Leave(t) PROVE Left
  BY <1>4, <1>5, <1>6 DEF Leave
<1>7. ASSUME NEW place, Go(t, place)
      PROVE  /\ thread'[t].at = place /\ thread'[t].then = thread[t].then
             /\ thread'[t].run = thread[t].run /\ thread'[t].op = thread[t].op
  BY <1>1, <1>7 DEF Go, ThreadState
<1>8. ASSUME NEW place, Go(t, place), place \in {"hook", "delete", "first", "media"} PROVE Left
  BY <1>7, <1>8
<1> HIDE DEF Left
<1>10. CASE \/ ReleaseTurn(t) \/ AfterTurn(t) \/ NotPlayed(t) \/ Mark(t) \/ SaveRefused(t)
            \/ LockTaken(t) \/ BuildRefused(t) \/ Delete(t)
  BY <1>2, <1>3, <1>4, <1>5, <1>6, <1>8, <1>10 DEF ReleaseTurn, AfterTurn, NotPlayed, Mark,
     SaveRefused, LockTaken, BuildRefused, Delete
<1>11. CASE StepSkipped(t)
  BY <1>2, <1>3, <1>8, <1>11 DEF StepSkipped, Skip, Steps, NextStep
<1>12. CASE \E r \in Runs, op \in {"turn", "action", "write", "create", "resume"} : LetIn(t, r, op)
  <2>1. thread'[t].at = "in" /\ thread'[t].then = "idle"
    BY <1>1, <1>12 DEF LetIn, Idle
  <2> QED BY <1>12, <2>1 DEF Arrived
<1>13. CASE FindRun(t)
  <2>1. CASE GoIdle(t)
    BY <1>2, <1>3, <2>1
  <2>2. CASE ~GoIdle(t)
    <3>1. thread'[t].at = "found" /\ thread'[t].then = thread[t].then
          /\ thread'[t].run = thread[t].run /\ thread'[t].op = thread[t].op
      BY <1>1, <1>13, <2>2 DEF FindRun, ThreadState
    <3> QED BY <3>1 DEF Arrived
  <2> QED BY <2>1, <2>2
<1>14. CASE FirstLook(t)
  <2>1. CASE GoIdle(t)
    BY <1>2, <1>3, <2>1
  <2>2. CASE ~GoIdle(t)
    <3>1. PICK place \in {"build", "start", "load"} : Go(t, place)
      BY <1>14, <2>2 DEF FirstLook
    <3> QED BY <1>7, <1>14, <3>1 DEF Arrived
  <2> QED BY <2>1, <2>2
<1>15. CASE TakeLock(t)
  <2>1. CASE LeaveFor(t, "idle")
    BY <1>2, <1>5, <2>1
  <2>2. CASE thread' = [thread EXCEPT ![t].at = Begins(thread[t].op), ![t].how = SaveOf(thread[t].op)]
    <3>1. thread'[t].at = Begins(thread[t].op) /\ thread'[t].then = thread[t].then
          /\ thread'[t].run = thread[t].run /\ thread'[t].op = thread[t].op
      BY <1>1, <2>2 DEF ThreadState
    <3>2. thread'[t].at \in {"playing", "checking"}
      BY <3>1 DEF Begins
    <3> QED BY <1>15, <3>1, <3>2 DEF Arrived
  <2> QED BY <1>15, <2>1, <2>2 DEF TakeLock
<1>16. CASE PlayTurn(t) \/ PlayAndSave(t)
  BY <1>7, <1>16 DEF PlayTurn, PlayAndSave, Arrived
<1>17. CASE PlayAndMark(t)
  BY <1>7, <1>17 DEF PlayAndMark, Arrived
<1>18. CASE CheckSave(t)
  BY <1>7, <1>18 DEF CheckSave, Arrived
<1>19. CASE WriteSave(t)
  <2>1. CASE Go(t, "after")
    BY <1>7, <1>19, <2>1 DEF Arrived
  <2> QED BY <1>2, <1>6, <1>19, <2>1 DEF WriteSave
<1>20. CASE SaveFails(t)
  <2>1. CASE Go(t, "marking")
    BY <1>7, <1>20, <2>1 DEF Arrived
  <2>2. CASE LeaveFor(t, "delete")
    BY <1>2, <1>5, <2>2
  <2>3. CASE Leave(t)
    BY <1>2, <1>6, <2>3
  <2> QED BY <1>20, <2>1, <2>2, <2>3 DEF SaveFails
<1>21. CASE FlushBeforeLoad(t)
  <2>1. CASE Go(t, "load")
    BY <1>7, <1>21, <2>1 DEF Arrived
  <2>2. CASE ~Go(t, "load")
    <3>1. thread'[t].at \in {"checking", "release"}
          /\ thread'[t].run = thread[t].run /\ thread'[t].op = thread[t].op
      BY <1>1, <1>21, <2>2 DEF FlushBeforeLoad, ThreadState
    <3> QED BY <1>21, <3>1 DEF Arrived
  <2> QED BY <2>1, <2>2
<1>22. CASE Load(t)
  <2>1. CASE GoIdle(t)
    BY <1>2, <1>3, <2>1
  <2>2. CASE ~GoIdle(t)
    <3>1. thread'[t].at = "build" /\ thread'[t].then = thread[t].then
          /\ thread'[t].run = thread[t].run /\ thread'[t].op = thread[t].op
      BY <1>1, <1>22, <2>2 DEF Load, ThreadState
    <3> QED BY <1>22, <3>1 DEF Arrived
  <2> QED BY <2>1, <2>2
<1>23. CASE StepTaken(t)
  <2>1. CASE LeaveFor(t, NextStep[thread[t].at])
    <3>1. NextStep[thread[t].at] # "load"
      BY <1>23 DEF StepTaken, Steps, NextStep
    <3> QED BY <1>2, <1>5, <2>1, <3>1
  <2>2. CASE ~LeaveFor(t, NextStep[thread[t].at])
    <3>1. thread'[t].at \in {"checking", "marking"} /\ thread'[t].then \in {"idle", "media"}
      <4>1. CASE thread' = [thread EXCEPT ![t].at = "checking", ![t].how = "owner", ![t].then = "idle"]
        BY <1>1, <4>1 DEF ThreadState
      <4>2. CASE thread' = [thread EXCEPT ![t].at = "checking", ![t].how = "now", ![t].then = "media"]
        BY <1>1, <4>2 DEF ThreadState
      <4>3. CASE thread' = [thread EXCEPT ![t].at = "marking", ![t].then = "media"]
        BY <1>1, <4>3 DEF ThreadState
      <4> QED BY <1>23, <2>2, <4>1, <4>2, <4>3 DEF StepTaken
    <3> QED BY <1>23, <3>1 DEF Arrived
  <2> QED BY <2>1, <2>2
<1>24. CASE Build(t)
  <2>1. \/ thread'[t].at \in {"stamp", "away"} /\ thread'[t].then = thread[t].then
        \/ thread'[t].at = "checking" /\ thread'[t].then \in {"stamp", "away"}
    <3> DEFINE me == [thread[t] EXCEPT !.at = IF thread[t].op = "create" THEN "stamp" ELSE "away",
                                       !.on = epoch + 1, !.new = epoch + 1, !.got = {}]
    <3>1. me.then = thread[t].then /\ me.at \in {"stamp", "away"} /\ DOMAIN me = DOMAIN Idle
          /\ me.run = thread[t].run /\ me.op = thread[t].op
      BY <1>1 DEF ThreadState, Idle
    <3>2. CASE phone /\ \E o \in LiveBuilds : sess[o].dirty
      <4>1. PICK o : thread'[t] = [me EXCEPT !.at = "checking", !.how = "now", !.then = me.at, !.on = o]
        BY <1>1, <1>24, <3>2 DEF Build, Taken
      <4> HIDE DEF me
      <4> QED BY <3>1, <4>1 DEF Idle
    <3>3. CASE ~(phone /\ \E o \in LiveBuilds : sess[o].dirty)
      <4>1. thread'[t] = me
        BY <1>1, <1>24, <3>3 DEF Build, Taken
      <4> HIDE DEF me
      <4> QED BY <3>1, <4>1
    <3> QED BY <3>2, <3>3
  <2>2. thread'[t].run = thread[t].run /\ thread'[t].op = thread[t].op
    <3> DEFINE me == [thread[t] EXCEPT !.at = IF thread[t].op = "create" THEN "stamp" ELSE "away",
                                       !.on = epoch + 1, !.new = epoch + 1, !.got = {}]
    <3>1. me.run = thread[t].run /\ me.op = thread[t].op /\ DOMAIN me = DOMAIN Idle
      BY <1>1 DEF ThreadState, Idle
    <3>2. CASE phone /\ \E o \in LiveBuilds : sess[o].dirty
      <4>1. PICK o : thread'[t] = [me EXCEPT !.at = "checking", !.how = "now", !.then = me.at, !.on = o]
        BY <1>1, <1>24, <3>2 DEF Build, Taken
      <4> HIDE DEF me
      <4> QED BY <3>1, <4>1 DEF Idle
    <3>3. CASE ~(phone /\ \E o \in LiveBuilds : sess[o].dirty)
      <4>1. thread'[t] = me
        BY <1>1, <1>24, <3>3 DEF Build, Taken
      <4> HIDE DEF me
      <4> QED BY <3>1, <4>1
    <3> QED BY <3>2, <3>3
  <2> QED BY <1>24, <2>1, <2>2 DEF Arrived
<1> QED BY <1>10, <1>11, <1>12, <1>13, <1>14, <1>15, <1>16, <1>17, <1>18, <1>19, <1>20, <1>21, <1>22, <1>23, <1>24
        DEF ThreadStep

----------------------------------------------------------------------------
(* Who works and flushes nothing works on a live run, and keeps its lock    *)
(* while it does not move.                                                  *)
LEMMA WorksLive ==
    ASSUME GrowInv, NEW u \in Threads, thread[u].at \in Locked, ~Flushes(u)
    PROVE  thread[u].on \in Builds /\ lock[thread[u].on] = u /\ IsLive(thread[u].on)
<1>1. thread[u].on \in Builds
  BY ThreadIs DEF GrowInv
<1>2. lock[thread[u].on] # Kept
  BY DEF GrowInv, WorksHeld
<1> QED BY <1>1, <1>2 DEF GrowInv, FreshInv, SessionsInv, LockTold, LiveOrKept

LEMMA StaysHeld ==
    ASSUME FreshInv, [Next]_vars, NEW u \in Threads, thread'[u] = thread[u], NEW b \in Builds, lock[b] = u
    PROVE  lock'[b] = u
<1>1. ASSUME ReleaseTurn(u) PROVE FALSE
  <2>1. thread[u].at = "release" /\ thread'[u].at = "hook"
    BY <1>1, ThreadIs DEF ReleaseTurn, Go, ThreadState
  <2> QED BY <2>1
<1> QED BY <1>1, LockOf

LEMMA NotFlushing ==
    ASSUME GrowInv, [Next]_vars, NEW u \in Threads, thread'[u] = thread[u], ~Flushes(u)
    PROVE  ~Flushes(u)'
<1> SUFFICES ASSUME Flushes(u)' PROVE FALSE
  OBVIOUS
<1>1. thread[u].at \in Locked /\ lock'[thread[u].on] = Kept
  BY DEF Flushes, Locked
<1>2. thread[u].on \in Builds /\ lock[thread[u].on] = u
  BY <1>1, WorksLive
<1>3. lock'[thread[u].on] = u
  BY <1>2, StaysHeld DEF GrowInv
<1> QED BY <1>1, <1>3

(* A thread's own step begins a flush of a released run at a build only.    *)
LEMMA MoverFlushes ==
    ASSUME GrowInv, [Next]_vars, NEW u \in Threads, ThreadStep(u), Flushes(u)', ~Flushes(u)
    PROVE  Build(u) /\ thread'[u].at = "checking"
<1>1. thread \in [Threads -> ThreadState] /\ lock \in [Builds -> Threads \cup {Free, Kept}]
      /\ live \in [Runs -> Builds \cup {0}]
  BY DEF GrowInv, FreshInv, SessionsInv, SessionsTypeOK
<1>2. Arrived(u) /\ lock'[thread'[u].on] = Kept /\ thread'[u].at \in {"checking", "writing", "marking"}
  BY Arrives DEF GrowInv, Flushes
<1>3. ASSUME thread[u].at \in Locked, UNCHANGED lock, thread'[u].on = thread[u].on PROVE FALSE
  <2>1. lock[thread[u].on] = u
    BY <1>3, WorksLive
  <2> QED BY <1>2, <1>3, <2>1
<1>4. ASSUME NEW place, Go(u, place) PROVE thread'[u].on = thread[u].on
  BY <1>1, <1>4 DEF Go, ThreadState
<1>5. ASSUME PlayTurn(u) \/ PlayAndSave(u) \/ PlayAndMark(u) \/ CheckSave(u) PROVE FALSE
  BY <1>3, <1>4, <1>5 DEF PlayTurn, PlayAndSave, PlayAndMark, CheckSave, Locked
<1>6. ASSUME SaveFails(u), thread'[u].at = "marking" PROVE FALSE
  <2>1. Go(u, "marking")
    <3>1. ASSUME NEW place, LeaveFor(u, place) PROVE FALSE
      <4>1. CASE place = "idle" /\ thread[u].op # "create"
        BY <1>1, <1>6, <3>1, <4>1 DEF LeaveFor, Idle
      <4>2. CASE ~(place = "idle" /\ thread[u].op # "create")
        BY <1>1, <1>6, <3>1, <4>2 DEF LeaveFor, ThreadState
      <4> QED BY <4>1, <4>2
    <3>2. ASSUME GoOn(u) PROVE FALSE
      <4>1. CASE thread[u].then = "idle"
        BY <1>1, <1>6, <3>2, <4>1 DEF GoOn, GoIdle, Idle
      <4>2. CASE thread[u].then # "idle"
        BY <1>1, <1>6, <3>2, <4>2 DEF GoOn, ThreadState, Steps
      <4> QED BY <4>1, <4>2
    <3> QED BY <1>6, <3>1, <3>2 DEF SaveFails, Leave
  <2> QED BY <1>3, <1>4, <1>6, <2>1 DEF SaveFails, Locked
<1>7. ASSUME TakeLock(u), thread'[u].at = "checking" PROVE FALSE
  <2>1. thread[u].on \in Builds
    <3>1. thread[u].on # 0
      BY <1>7 DEF TakeLock, GrowInv, FreshInv, SessionsInv, Placed
    <3> QED BY <3>1, ThreadIs DEF GrowInv
  <2>2. lock'[thread[u].on] = u
    BY <1>1, <1>7, <2>1 DEF TakeLock
  <2>3. ASSUME LeaveFor(u, "idle") PROVE FALSE
    <3>1. CASE thread[u].op # "create"
      BY <1>1, <1>7, <2>3, <3>1 DEF LeaveFor, Idle
    <3>2. CASE thread[u].op = "create"
      BY <1>1, <1>7, <2>3, <3>2 DEF LeaveFor, ThreadState
    <3> QED BY <3>1, <3>2
  <2>4. thread' = [thread EXCEPT ![u].at = Begins(thread[u].op), ![u].how = SaveOf(thread[u].op)]
    BY <1>7, <2>3 DEF TakeLock
  <2>5. thread'[u].on = thread[u].on
    BY <1>1, <2>4 DEF ThreadState
  <2> QED BY <1>2, <2>2, <2>5
<1>8. ASSUME FlushBeforeLoad(u), thread'[u].at = "checking" PROVE FALSE
  <2>1. ~Go(u, "load")
    BY <1>1, <1>8 DEF Go, ThreadState
  <2>2. thread[u].run \in Runs
    BY <1>8 DEF FlushBeforeLoad, GrowInv, FreshInv, SessionsInv, Placed
  <2>3. live[thread[u].run] \in Builds /\ lock'[live[thread[u].run]] = u
    BY <1>1, <1>8, <2>1, <2>2 DEF FlushBeforeLoad
  <2>4. thread'[u].on = live[thread[u].run]
    BY <1>1, <1>8, <2>1 DEF FlushBeforeLoad, ThreadState
  <2> QED BY <1>2, <2>3, <2>4
<1>9. ASSUME StepTaken(u), thread'[u].at \in {"checking", "marking"} PROVE FALSE
  <2>1. thread[u].on \in Builds
    <3>1. thread[u].on # 0
      BY <1>9 DEF StepTaken, GrowInv, FreshInv, SessionsInv, Placed
    <3> QED BY <3>1, ThreadIs DEF GrowInv
  <2>2. lock'[thread[u].on] = u
    BY <1>1, <1>9, <2>1 DEF StepTaken
  <2>3. thread'[u].on = thread[u].on
    <3>1. CASE LeaveFor(u, NextStep[thread[u].at])
      <4>1. CASE NextStep[thread[u].at] = "idle" /\ thread[u].op # "create"
        BY <1>1, <1>9, <3>1, <4>1 DEF LeaveFor, Idle
      <4>2. CASE ~(NextStep[thread[u].at] = "idle" /\ thread[u].op # "create")
        BY <1>1, <1>9, <3>1, <4>2 DEF LeaveFor, ThreadState
      <4> QED BY <4>1, <4>2
    <3>2. CASE thread' = [thread EXCEPT ![u].at = "checking", ![u].how = "owner", ![u].then = "idle"]
      BY <1>1, <3>2 DEF ThreadState
    <3>3. CASE thread' = [thread EXCEPT ![u].at = "checking", ![u].how = "now", ![u].then = "media"]
      BY <1>1, <3>3 DEF ThreadState
    <3>4. CASE thread' = [thread EXCEPT ![u].at = "marking", ![u].then = "media"]
      BY <1>1, <3>4 DEF ThreadState
    <3> QED BY <1>9, <3>1, <3>2, <3>3, <3>4 DEF StepTaken
  <2> QED BY <1>2, <2>2, <2>3
<1>10. thread'[u].at # "writing"
  BY <1>2, <1>5 DEF Arrived
<1>11. thread'[u].at # "marking"
  BY <1>2, <1>5, <1>6, <1>9 DEF Arrived
<1>12. thread'[u].at = "checking"
  BY <1>2, <1>10, <1>11
<1> QED BY <1>2, <1>5, <1>7, <1>8, <1>9, <1>12 DEF Arrived

LEMMA NewFlush ==
    ASSUME GrowInv, [Next]_vars, NEW u \in Threads, Flushes(u)', ~Flushes(u)
    PROVE  /\ thread'[u].at = "checking"
           /\ \/ Build(u)
              \/ u = Keeper /\ \E r \in Runs : Sweep(r) /\ thread'[u].on = live[r] /\ phone /\ sess[live[r]].dirty
<1>1. thread \in [Threads -> ThreadState]
  BY ThreadIs DEF GrowInv
<1>2. ~(thread'[u] = thread[u])
  BY NotFlushing
<1>3. CASE \E t \in Threads : ThreadStep(t)
  <2>1. PICK t \in Threads : ThreadStep(t)
    BY <1>3
  <2>2. t = u
    BY <1>2, <2>1, OthersAlone DEF GrowInv, FreshInv
  <2> QED BY <2>1, <2>2, MoverFlushes
<1>4. CASE Background
  <2>1. ASSUME NEW b \in Builds, SaverPops(b) PROVE FALSE
    <3>1. thread'[u] = [Idle EXCEPT !.at = "found", !.op = "saving", !.on = b]
      BY <1>1, <1>2, <2>1 DEF SaverPops
    <3> QED BY <3>1 DEF Idle, Flushes
  <2>2. ASSUME NEW b \in Builds, FlushAll(b) PROVE FALSE
    <3>1. thread'[u] = [Idle EXCEPT !.at = "found", !.op = "flushing", !.on = b]
      BY <1>1, <1>2, <2>2 DEF FlushAll
    <3> QED BY <3>1 DEF Idle, Flushes
  <2>3. PICK r \in Runs : Sweep(r)
    BY <1>4, <2>1, <2>2 DEF Background
  <2>4. phone /\ sess[live[r]].dirty
        /\ thread' = [thread EXCEPT ![Keeper] = [Idle EXCEPT !.at = "checking", !.op = "sweep", !.how = "now",
                                                             !.on = live[r]]]
    BY <1>2, <2>3 DEF Sweep
  <2>5. u = Keeper
        /\ thread'[u] = [Idle EXCEPT !.at = "checking", !.op = "sweep", !.how = "now", !.on = live[r]]
    BY <1>1, <1>2, <2>4
  <2>6. thread'[u].at = "checking" /\ thread'[u].on = live[r]
    BY <2>5 DEF Idle
  <2> QED BY <2>3, <2>4, <2>5, <2>6
<1>5. ASSUME AdminStep \/ UNCHANGED vars PROVE FALSE
  BY <1>2, <1>5 DEF vars, AdminStep, AdminEnds, EndListed, Disable, Enable, ListOwned, EndWhenDone, OwnerEnded,
                    PurgeFolder
<1> QED BY <1>3, <1>4, <1>5 DEF Next

(* Who saves a run, and with what. *)
LEMMA WriterOf ==
    ASSUME GrowInv, NEW t \in Threads, WriteSave(t), NEW b, b = thread[t].on, NEW r, r = sess[b].run
    PROVE  /\ b \in Builds /\ b <= epoch /\ r \in Runs
           /\ disk' = [disk EXCEPT ![r] = sess[b].mem] /\ UNCHANGED <<sess, live, lock>>
           /\ \/ lock[b] = t /\ live[r] = b
              \/ live[r] = 0 /\ NoneBuilds(r)
           /\ disk[r] # NoSave => disk[r] \subseteq sess[b].mem
<1>1. thread[t].at = "writing" /\ thread[t].at \in Locked
      /\ disk' = [disk EXCEPT ![r] = sess[b].mem] /\ UNCHANGED <<sess, live, lock>>
  BY DEF WriteSave, Locked
<1>2. b \in Builds /\ b <= epoch
  BY <1>1, ThreadIs DEF GrowInv
<1>3. r \in Runs
  BY <1>2 DEF GrowInv, FreshInv, SessionsInv, UnmadeTold
<1>4. CASE Flushes(t)
  BY <1>1, <1>2, <1>3, <1>4 DEF GrowInv, FlushTold, MaySave
<1>5. CASE ~Flushes(t)
  <2>1. lock[b] = t /\ live[r] = b
    BY <1>1, <1>5, WorksLive DEF IsLive
  <2>2. live[r] # 0
    BY <1>2, <2>1
  <2>3. disk[r] # NoSave => disk[r] \subseteq sess[live[r]].mem
    BY <1>3, <2>2 DEF GrowInv, LiveHas
  <2> QED BY <1>1, <1>2, <1>3, <2>1, <2>3
<1> QED BY <1>4, <1>5

LEMMA LiveHasStep ==
    ASSUME GrowInv, [Next]_vars PROVE LiveHas'
<1>1. disk \in [Runs -> (SUBSET Plays) \cup {NoSave}] /\ live \in [Runs -> Builds \cup {0}]
      /\ sess \in [Builds -> [run : Runs \cup {0}, mem : SUBSET Plays, dirty : BOOLEAN, ending : BOOLEAN]]
      /\ thread \in [Threads -> ThreadState]
  BY DEF GrowInv, FreshInv, SessionsInv, SessionsTypeOK
<1> SUFFICES ASSUME NEW r \in Runs, live'[r] # 0, disk'[r] # NoSave
             PROVE  disk'[r] \subseteq sess'[live'[r]].mem
  BY DEF LiveHas
<1>2. CASE live'[r] = live[r]
  <2>1. live[r] \in Builds /\ live[r] <= epoch /\ live[r] # 0
    BY <1>1, <1>2 DEF GrowInv, FreshInv, SessionsInv, LiveTold
  <2>2. sess[live[r]].mem \subseteq sess'[live[r]].mem
    BY <2>1, MemGrows DEF GrowInv
  <2>3. CASE disk'[r] = disk[r]
    <3>1. disk[r] \subseteq sess[live[r]].mem
      BY <2>1, <2>3 DEF GrowInv, LiveHas
    <3> QED BY <1>2, <2>2, <2>3, <3>1
  <2>4. CASE PurgeFolder
    BY <2>4 DEF PurgeFolder
  <2>5. ASSUME NEW t \in Threads, WriteSave(t), disk'[r] # disk[r] PROVE disk'[r] \subseteq sess'[live'[r]].mem
    <3>1. PICK b, x : b = thread[t].on /\ x = sess[b].run
      OBVIOUS
    <3>2. /\ disk' = [disk EXCEPT ![x] = sess[b].mem] /\ UNCHANGED sess /\ x \in Runs
          /\ live[x] = b \/ live[x] = 0
      BY <2>5, <3>1, WriterOf
    <3>3. x = r
      BY <1>1, <2>5, <3>2
    <3>4. disk'[r] = sess[b].mem /\ live[r] = b
      BY <1>1, <2>1, <3>2, <3>3
    <3> QED BY <1>2, <3>2, <3>4
  <2> QED BY <2>3, <2>4, <2>5, DiskBy
<1>3. ASSUME NEW t \in Threads, Build(t), r = thread[t].run, live'[r] = epoch + 1
      PROVE  disk'[r] \subseteq sess'[live'[r]].mem
  <2>1. thread[t].at = "build" /\ UNCHANGED disk /\ epoch + 1 \in Builds
    BY <1>3 DEF Build, GrowInv, FreshInv, SessionsInv, SessionsTypeOK
  <2>2. thread[t].op # "create"
    BY <1>3, <2>1 DEF GrowInv, CreatesAnew
  <2>3. disk[r] \subseteq thread[t].got
    BY <1>3, <2>1 DEF GrowInv, LoadedHas
  <2>4. sess' = [sess EXCEPT ![epoch + 1] = [Unbuilt EXCEPT !.run = thread[t].run, !.mem = thread[t].got]]
    BY <1>3 DEF Build
  <2>5. sess'[epoch + 1].mem = thread[t].got
    BY <1>1, <2>1, <2>4 DEF Unbuilt
  <2> QED BY <1>3, <2>1, <2>3, <2>5
<1> QED BY <1>2, <1>3, LiveBy DEF GrowInv

LEMMA OthersSave ==
    ASSUME GrowInv, [Next]_vars, NEW r \in Runs, disk'[r] # NoSave, disk'[r] # disk[r]
    PROVE  \E t \in Threads : WriteSave(t) /\ sess[thread[t].on].run = r
<1>1. disk \in [Runs -> (SUBSET Plays) \cup {NoSave}]
  BY DEF GrowInv, FreshInv, SessionsInv, SessionsTypeOK
<1>2. ~PurgeFolder
  BY DEF PurgeFolder
<1>3. PICK t \in Threads : WriteSave(t)
  BY <1>2, DiskBy
<1>4. disk' = [disk EXCEPT ![sess[thread[t].on].run] = sess[thread[t].on].mem]
  BY <1>3 DEF WriteSave
<1>5. sess[thread[t].on].run = r
  BY <1>1, <1>4
<1> QED BY <1>3, <1>5

(* Who moves: a thread itself, or one of those nobody asks, picking up work. *)
LEMMA Mover ==
    ASSUME FreshInv, [Next]_vars, NEW u \in Threads
    PROVE  \/ thread'[u] = thread[u]
           \/ ThreadStep(u)
           \/ /\ Background /\ thread[u].at = "idle"
              /\ thread'[u].at \in {"found", "checking"} /\ thread'[u].then = "idle"
              /\ thread'[u].op \in {"saving", "flushing", "sweep"}
<1>1. thread \in [Threads -> ThreadState]
  BY DEF FreshInv, SessionsInv, SessionsTypeOK
<1>2. ASSUME NEW t \in Threads, ThreadStep(t) PROVE thread'[u] = thread[u] \/ ThreadStep(u)
  BY <1>2, OthersAlone DEF FreshInv
<1>3. ASSUME Background, thread'[u] # thread[u]
      PROVE  /\ thread[u].at = "idle" /\ thread'[u].at \in {"found", "checking"} /\ thread'[u].then = "idle"
             /\ thread'[u].op \in {"saving", "flushing", "sweep"}
  <2> DEFINE Picks == /\ thread[u].at = "idle" /\ thread'[u].at \in {"found", "checking"} /\ thread'[u].then = "idle"
                      /\ thread'[u].op \in {"saving", "flushing", "sweep"}
  <2>1. ASSUME NEW b \in Builds, SaverPops(b) PROVE Picks
    <3>1. thread[u].at = "idle" /\ thread'[u] = [Idle EXCEPT !.at = "found", !.op = "saving", !.on = b]
      BY <1>1, <1>3, <2>1 DEF SaverPops
    <3> QED BY <3>1 DEF Idle
  <2>2. ASSUME NEW b \in Builds, FlushAll(b) PROVE Picks
    <3>1. thread[u].at = "idle" /\ thread'[u] = [Idle EXCEPT !.at = "found", !.op = "flushing", !.on = b]
      BY <1>1, <1>3, <2>2 DEF FlushAll
    <3> QED BY <3>1 DEF Idle
  <2>3. ASSUME NEW r \in Runs, Sweep(r) PROVE Picks
    <3>1. thread[u].at = "idle" /\ thread'[u] = [Idle EXCEPT !.at = "checking", !.op = "sweep",
                                                               !.how = "now", !.on = live[r]]
      BY <1>1, <1>3, <2>3 DEF Sweep
    <3> QED BY <3>1 DEF Idle
  <2> QED BY <1>3, <2>1, <2>2, <2>3 DEF Background
<1>4. AdminStep \/ UNCHANGED vars => thread'[u] = thread[u]
  BY DEF vars, AdminStep, AdminEnds, EndListed, Disable, Enable, ListOwned, EndWhenDone, OwnerEnded, PurgeFolder
<1> QED BY <1>2, <1>3, <1>4 DEF Next

LEMMA CreatesAnewStep ==
    ASSUME GrowInv, [Next]_vars PROVE CreatesAnew'
<1>1. thread \in [Threads -> ThreadState]
  BY DEF GrowInv, FreshInv, SessionsInv, SessionsTypeOK
<1> SUFFICES ASSUME NEW u \in Threads, thread'[u].op = "create", thread'[u].at \in {"in", "build"},
                    disk'[thread'[u].run] # NoSave
             PROVE  FALSE
  BY DEF CreatesAnew
<1>2. CASE thread[u].op = "create" /\ thread[u].at \in {"in", "build"} /\ thread'[u].run = thread[u].run
  <2>1. disk[thread[u].run] = NoSave /\ thread[u].run \in Runs
    BY <1>2 DEF GrowInv, CreatesAnew, FreshInv, SessionsInv, Placed
  <2>2. PICK t \in Threads : WriteSave(t) /\ sess[thread[t].on].run = thread[u].run
    BY <1>2, <2>1, OthersSave
  <2>3. thread[t].at = "writing"
    BY <2>2 DEF WriteSave
  <2>4. t # u /\ thread[t].on # 0
    BY <1>2, <2>3, ThreadIs DEF Locked, GrowInv
  <2> QED BY <1>2, <2>2, <2>4 DEF GrowInv, FreshInv, FreshTold
<1>3. CASE thread'[u] = thread[u]
  BY <1>2, <1>3
<1>4. CASE ThreadStep(u)
  <2>1. Arrived(u)
    BY <1>4, Arrives DEF GrowInv
  <2>2. CASE thread'[u].at = "build"
    <3>1. thread'[u].run = thread[u].run /\ thread[u].op = "create"
      BY <2>1, <2>2 DEF Arrived
    <3>2. thread[u].at = "in" \/ thread[u].at = "load"
      BY <2>1, <2>2 DEF Arrived, FirstLook, Load
    <3>3. thread[u].at # "load"
      BY <3>1, ThreadIs DEF GrowInv, Told, CreateTold, Starts
    <3> QED BY <1>2, <3>1, <3>2, <3>3
  <2>3. CASE thread'[u].at = "in"
    <3>1. PICK r \in Runs, op \in {"turn", "action", "write", "create", "resume"} : LetIn(u, r, op)
      BY <2>1, <2>3 DEF Arrived
    <3>2. thread'[u] = [Idle EXCEPT !.at = "in", !.op = op, !.run = r] /\ UNCHANGED disk
      BY <1>1, <3>1 DEF LetIn
    <3>3. op = "create" /\ thread'[u].run = r
      BY <3>2 DEF Idle
    <3>4. disk[r] = NoSave
      BY <3>1, <3>3 DEF LetIn, Unused
    <3> QED BY <3>2, <3>3, <3>4
  <2> QED BY <2>2, <2>3
<1>5. thread'[u].op \notin {"saving", "flushing", "sweep"}
  OBVIOUS
<1> QED BY <1>3, <1>4, <1>5, Mover DEF GrowInv

(* Who resumes a run was resuming it, or has just looked. *)
LEMMA LoadingWas ==
    ASSUME GrowInv, [Next]_vars, NEW u \in Threads, Loading(u)'
    PROVE  /\ thread'[u].run = thread[u].run /\ thread[u].run \in Runs
           /\ Loading(u) \/ FirstLook(u)
<1>1. Told(u) /\ Placed(thread[u])
  BY ThreadIs DEF GrowInv, FreshInv, SessionsInv
<1>2. CASE thread'[u] = thread[u]
  BY <1>1, <1>2 DEF Loading, Placed
<1>3. CASE ThreadStep(u)
  <2>1. Arrived(u)
    BY <1>3, Arrives DEF GrowInv
  <2>2. thread'[u].run = thread[u].run /\ thread'[u].op = thread[u].op
    BY <2>1 DEF Loading, Arrived
  <2>3. FirstLook(u) \/ FlushBeforeLoad(u) \/ thread[u].then = "load" \/ (Load(u) /\ thread[u].op # "create")
    BY <2>1, <2>2 DEF Loading, Arrived
  <2>4. FlushBeforeLoad(u) => thread[u].at = "start" /\ thread[u].op # "create"
    BY <1>1 DEF FlushBeforeLoad, Told, CreateTold, Starts
  <2>5. Load(u) => thread[u].at = "load"
    BY DEF Load
  <2>6. FirstLook(u) => thread[u].at = "in"
    BY DEF FirstLook
  <2> QED BY <1>1, <2>2, <2>3, <2>4, <2>5, <2>6 DEF Loading, Placed
<1>4. CASE thread'[u].at \in {"found", "checking"} /\ thread'[u].then = "idle"
  BY <1>4 DEF Loading
<1> QED BY <1>2, <1>3, <1>4, Mover DEF GrowInv

LEMMA LoadedHasStep ==
    ASSUME GrowInv, [Next]_vars PROVE LoadedHas'
<1>1. thread \in [Threads -> ThreadState]
  BY DEF GrowInv, FreshInv, SessionsInv, SessionsTypeOK
<1> SUFFICES ASSUME NEW u \in Threads, thread'[u].at = "build", disk'[thread'[u].run] # NoSave
             PROVE  disk'[thread'[u].run] \subseteq thread'[u].got
  BY DEF LoadedHas
<1>2. CASE thread'[u] = thread[u]
  <2>1. thread[u].at = "build" /\ thread[u].run \in Runs
    BY <1>2 DEF GrowInv, FreshInv, SessionsInv, Placed
  <2>2. CASE disk'[thread[u].run] = disk[thread[u].run]
    BY <1>2, <2>1, <2>2 DEF GrowInv, LoadedHas
  <2>3. CASE disk'[thread[u].run] # disk[thread[u].run]
    <3>1. PICK t \in Threads : WriteSave(t) /\ sess[thread[t].on].run = thread[u].run
      BY <1>2, <2>1, <2>3, OthersSave
    <3>2. thread[t].at = "writing"
      BY <3>1 DEF WriteSave
    <3>3. t # u /\ thread[t].on # 0
      BY <2>1, <3>2, ThreadIs DEF Locked, GrowInv
    <3>4. thread[u].op # "create"
      BY <3>1, <3>3 DEF GrowInv, FreshInv, FreshTold
    <3>5. PICK b : b = thread[t].on
      OBVIOUS
    <3>6. /\ b \in Builds
          /\ (lock[b] = t /\ live[thread[u].run] = b) \/ (live[thread[u].run] = 0 /\ NoneBuilds(thread[u].run))
      BY <3>1, <3>5, WriterOf
    <3>7. lock[b] = t /\ live[thread[u].run] = b
      BY <2>1, <3>4, <3>6 DEF NoneBuilds
    <3>8. b \in LiveBuilds
      BY <2>1, <3>6, <3>7 DEF LiveBuilds
    <3>9. lock[b] \in {Free, u}
      BY <2>1, <3>1, <3>4, <3>5, <3>8 DEF GrowInv, LoadsAlone, Loading
    <3> QED BY <3>3, <3>7, <3>9
  <2> QED BY <2>2, <2>3
<1>3. CASE ThreadStep(u)
  <2>1. Arrived(u)
    BY <1>3, Arrives DEF GrowInv
  <2>2. CASE Load(u)
    <3>1. ~GoIdle(u)
      BY <1>1 DEF GoIdle, Idle
    <3>2. thread' = [thread EXCEPT ![u].at = "build", ![u].got = disk[thread[u].run]] /\ UNCHANGED disk
      BY <2>2, <3>1 DEF Load
    <3>3. thread'[u].got = disk[thread[u].run] /\ thread'[u].run = thread[u].run
      BY <1>1, <3>2 DEF ThreadState
    <3> QED BY <3>2, <3>3
  <2>3. CASE FirstLook(u)
    <3>1. ~GoIdle(u)
      BY <1>1 DEF GoIdle, Idle
    <3>2. PICK place \in {"build", "start", "load"} :
             Go(u, place) /\ (place = "build" => thread[u].op = "create")
      BY <2>3, <3>1 DEF FirstLook
    <3>3. thread'[u].at = place /\ thread'[u].run = thread[u].run
      BY <1>1, <3>2 DEF Go, ThreadState
    <3>4. thread[u].op = "create" /\ thread[u].at = "in" /\ UNCHANGED disk
      BY <2>3, <3>2, <3>3 DEF FirstLook
    <3>5. disk[thread[u].run] = NoSave
      BY <3>4 DEF GrowInv, CreatesAnew
    <3> QED BY <3>3, <3>4, <3>5
  <2> QED BY <2>1, <2>2, <2>3 DEF Arrived
<1>4. CASE thread'[u].at \in {"found", "checking"}
  BY <1>4
<1> QED BY <1>2, <1>3, <1>4, Mover DEF GrowInv

LEMMA WorksHeldStep ==
    ASSUME GrowInv, [Next]_vars PROVE WorksHeld'
<1>1. thread \in [Threads -> ThreadState] /\ lock \in [Builds -> Threads \cup {Free, Kept}]
  BY DEF GrowInv, FreshInv, SessionsInv, SessionsTypeOK
<1>2. SessionsInv'
  BY StepInv DEF GrowInv, FreshInv
<1> SUFFICES ASSUME NEW u \in Threads, thread'[u].at \in Locked, lock'[thread'[u].on] = Kept,
                    thread'[u].at \notin {"checking", "writing", "marking"}
             PROVE  FALSE
  BY DEF WorksHeld, Flushes
<1>3. thread'[u].how = "now" /\ thread'[u].at # "release"
  BY <1>2 DEF SessionsInv, LockTold
<1>4. thread'[u].at \in {"playing", "after"}
  BY <1>3 DEF Locked
<1>5. CASE thread'[u] = thread[u]
  <2>1. thread[u].at \in Locked /\ ~Flushes(u)
    BY <1>4, <1>5 DEF Locked, Flushes
  <2>2. thread[u].on \in Builds /\ lock[thread[u].on] = u
    BY <2>1, WorksLive
  <2>3. lock'[thread[u].on] = u
    BY <1>5, <2>2, StaysHeld DEF GrowInv
  <2> QED BY <1>5, <2>3
<1>6. CASE ThreadStep(u)
  <2>1. Arrived(u) /\ Told(u)
    BY <1>6, Arrives, ThreadIs DEF GrowInv
  <2>2. CASE WriteSave(u) /\ thread'[u].at = "after"
    <3>1. thread[u].at = "writing" /\ ((Go(u, "after") /\ thread[u].op = "turn") \/ Leave(u))
      BY <2>2 DEF WriteSave
    <3>2. ASSUME Leave(u) PROVE FALSE
      <4>1. ASSUME NEW place, LeaveFor(u, place) PROVE FALSE
        <5>1. CASE place = "idle" /\ thread[u].op # "create"
          BY <1>1, <2>2, <4>1, <5>1 DEF LeaveFor, Idle
        <5>2. CASE ~(place = "idle" /\ thread[u].op # "create")
          BY <1>1, <2>2, <4>1, <5>2 DEF LeaveFor, ThreadState
        <5> QED BY <5>1, <5>2
      <4>2. ASSUME GoOn(u) PROVE FALSE
        <5>1. CASE thread[u].then = "idle"
          BY <1>1, <2>2, <4>2, <5>1 DEF GoOn, GoIdle, Idle
        <5>2. CASE thread[u].then # "idle"
          BY <1>1, <2>2, <4>2, <5>2 DEF GoOn, ThreadState, Steps
        <5> QED BY <5>1, <5>2
      <4> QED BY <3>2, <4>1, <4>2 DEF Leave
    <3>3. thread'[u].how = thread[u].how /\ thread[u].op = "turn"
      BY <1>1, <3>1, <3>2 DEF Go, ThreadState
    <3> QED BY <1>3, <2>1, <3>3 DEF Told, TurnTold
  <2>3. CASE TakeLock(u) /\ thread'[u].at = "playing"
    <3>1. thread[u].on # 0
      BY <2>3 DEF TakeLock, GrowInv, FreshInv, SessionsInv, Placed
    <3>2. lock'[thread[u].on] = u
      BY <1>1, <2>3, <3>1, ThreadIs DEF TakeLock, GrowInv
    <3>3. ASSUME LeaveFor(u, "idle") PROVE FALSE
      <4>1. CASE thread[u].op # "create"
        BY <1>1, <2>3, <3>3, <4>1 DEF LeaveFor, Idle
      <4>2. CASE thread[u].op = "create"
        BY <1>1, <2>3, <3>3, <4>2 DEF LeaveFor, ThreadState
      <4> QED BY <4>1, <4>2
    <3>4. thread' = [thread EXCEPT ![u].at = Begins(thread[u].op), ![u].how = SaveOf(thread[u].op)]
      BY <2>3, <3>3 DEF TakeLock
    <3>5. thread'[u].on = thread[u].on
      BY <1>1, <3>4 DEF ThreadState
    <3> QED BY <3>2, <3>5
  <2> QED BY <1>4, <2>1, <2>2, <2>3 DEF Arrived
<1>7. CASE thread'[u].at \in {"found", "checking"}
  BY <1>4, <1>7
<1> QED BY <1>5, <1>6, <1>7, Mover DEF GrowInv

(* A flush before a load goes on under its lock, in the order of the code.  *)
LEMMA FlushGoesOn ==
    ASSUME GrowInv, Resumed, NEW u \in Threads, ThreadStep(u), thread[u].then = "load", thread'[u].then = "load"
    PROVE  /\ thread'[u].on = thread[u].on
           /\ \/ CheckSave(u) /\ thread'[u].at = "writing" /\ thread'[u].how = thread[u].how /\ UNCHANGED lock
              \/ SaveRefused(u) /\ thread'[u].at = "release"
              \/ thread[u].at # "checking" /\ thread'[u].at \in {"release", "hook"}
<1>1. thread \in [Threads -> ThreadState] /\ Told(u) /\ thread[u].op # "create" /\ thread[u].op # "turn"
  BY ThreadIs DEF GrowInv, Told, CreateTold, TurnTold, Starts
<1>2. /\ thread[u].at \in {"checking", "writing", "release", "hook"}
      /\ thread[u].at \in {"checking", "writing"} => thread[u].how = "now" /\ lock[thread[u].on] = u
  BY DEF GrowInv, FlushLoads
<1>3. ASSUME NEW place, Go(u, place)
      PROVE  thread'[u].at = place /\ thread'[u].on = thread[u].on /\ thread'[u].how = thread[u].how
  BY <1>1, <1>3 DEF Go, ThreadState
<1>4. ASSUME Leave(u), thread[u].at \in {"checking", "writing"}
      PROVE  thread'[u].at = "release" /\ thread'[u].on = thread[u].on
  <2>1. LeaveFor(u, "load")
    BY <1>2, <1>4 DEF Leave
  <2>2. thread' = [thread EXCEPT ![u] = [thread[u] EXCEPT !.at = "release", !.how = "none", !.then = "load"]]
    BY <2>1 DEF LeaveFor
  <2> QED BY <1>1, <2>2 DEF ThreadState
<1>5. CASE CheckSave(u)
  BY <1>3, <1>5 DEF CheckSave
<1>6. CASE SaveRefused(u)
  BY <1>1, <1>4, <1>6 DEF SaveRefused
<1>7. CASE WriteSave(u)
  BY <1>1, <1>4, <1>7 DEF WriteSave
<1>8. CASE SaveFails(u)
  <2>1. thread[u].at = "writing" /\ thread'[u].at = "marking"
    BY <1>2, <1>3, <1>8 DEF SaveFails
  <2> QED BY <2>1 DEF Resumed, Loading
<1>9. CASE ReleaseTurn(u)
  BY <1>3, <1>9 DEF ReleaseTurn
<1>10. CASE AfterTurn(u)
  BY <1>1, <1>10 DEF AfterTurn, GoOn, ThreadState
<1> QED BY <1>2, <1>5, <1>6, <1>7, <1>8, <1>9, <1>10 DEF ThreadStep, LetIn, FindRun, FirstLook, TakeLock, LockTaken,
    NotPlayed, PlayTurn, PlayAndSave, PlayAndMark, Mark, FlushBeforeLoad, Load, Build, BuildRefused, StepTaken,
    StepSkipped, Delete, Steps

LEMMA FlushLoadsStep ==
    ASSUME GrowInv, [Next]_vars, Resumed \/ UNCHANGED vars PROVE FlushLoads'
<1>1. thread \in [Threads -> ThreadState] /\ lock \in [Builds -> Threads \cup {Free, Kept}]
      /\ live \in [Runs -> Builds \cup {0}]
  BY DEF GrowInv, FreshInv, SessionsInv, SessionsTypeOK
<1> SUFFICES ASSUME NEW u \in Threads, thread'[u].then = "load"
             PROVE  /\ thread'[u].at \in {"checking", "writing", "release", "hook"}
                    /\ thread'[u].on # 0 /\ sess'[thread'[u].on].run = thread'[u].run
                    /\ thread'[u].at \in {"checking", "writing"} =>
                          thread'[u].how = "now" /\ lock'[thread'[u].on] = u
  BY DEF FlushLoads
<1>2. ASSUME thread[u].then = "load"
      PROVE  /\ thread[u].at \in {"checking", "writing", "release", "hook"}
             /\ thread[u].on \in Builds /\ sess'[thread[u].on].run = thread[u].run
             /\ thread[u].at \in {"checking", "writing"} => thread[u].how = "now" /\ lock[thread[u].on] = u
  <2>1. thread[u].on # 0 /\ sess[thread[u].on].run = thread[u].run
    BY <1>2 DEF GrowInv, FlushLoads
  <2>2. thread[u].on \in Builds /\ thread[u].on <= epoch
    BY <2>1, ThreadIs DEF GrowInv
  <2>3. sess'[thread[u].on].run = sess[thread[u].on].run
    BY <2>2, RunForGood DEF GrowInv, FreshInv
  <2> QED BY <1>2, <2>1, <2>2, <2>3 DEF GrowInv, FlushLoads
<1>3. CASE thread'[u] = thread[u]
  BY <1>2, <1>3, StaysHeld DEF GrowInv
<1>4. CASE ThreadStep(u) /\ thread'[u] # thread[u]
  <2>1. Arrived(u) /\ Resumed
    BY <1>4, Arrives DEF GrowInv, vars
  <2>2. thread'[u].run = thread[u].run
    BY <2>1 DEF Arrived
  <2>3. CASE thread[u].then = "load"
    <3>1. /\ thread'[u].on = thread[u].on
          /\ thread'[u].at \in {"writing", "release", "hook"}
          /\ thread'[u].at = "writing" => thread[u].at = "checking" /\ thread'[u].how = thread[u].how /\ UNCHANGED lock
      BY <1>4, <2>1, <2>3, FlushGoesOn DEF CheckSave
    <3> QED BY <1>2, <2>2, <2>3, <3>1
  <2>4. CASE FlushBeforeLoad(u) /\ thread[u].then # "load"
    <3>1. ~Go(u, "load")
      BY <1>1, <2>4 DEF Go, ThreadState
    <3>2. PICK b : b = live[thread[u].run]
      OBVIOUS
    <3>3. /\ b # 0 /\ lock' = [lock EXCEPT ![b] = u] /\ UNCHANGED sess
          /\ thread' = [thread EXCEPT ![u].at = IF sess[b].dirty THEN "checking" ELSE "release",
                                      ![u].on = b, ![u].how = "now", ![u].then = "load"]
          /\ thread[u].run \in Runs
      BY <2>4, <3>1, <3>2 DEF FlushBeforeLoad, GrowInv, FreshInv, SessionsInv, Placed
    <3>4. b \in Builds /\ sess[b].run = thread[u].run
      BY <1>1, <3>2, <3>3 DEF GrowInv, FreshInv, SessionsInv, LiveTold
    <3>5. lock'[b] = u
      BY <1>1, <3>3, <3>4
    <3>6. thread'[u].at \in {"checking", "release"} /\ thread'[u].on = b /\ thread'[u].how = "now"
      BY <1>1, <3>3 DEF ThreadState
    <3> QED BY <2>2, <3>3, <3>4, <3>5, <3>6
  <2> QED BY <2>1, <2>3, <2>4 DEF Arrived
<1>5. CASE thread'[u].then = "idle"
  BY <1>5
<1> QED BY <1>3, <1>4, <1>5, Mover DEF GrowInv

(* Nothing is played on a run that is resumed.                              *)
LEMMA AloneLocked ==
    ASSUME GrowInv, [Next]_vars, Resumed \/ UNCHANGED vars, NEW u \in Threads, Loading(u),
           NEW b \in LiveBuilds, b \in LiveBuilds', sess[b].run = thread[u].run
    PROVE  lock'[b] \in {Free, u}
<1>1. SessionsInv'
  BY StepInv DEF GrowInv, FreshInv
<1>2. b \in Builds /\ lock'[b] # Kept
  <2>1. b \in Builds
    BY LiveIs DEF GrowInv, FreshInv
  <2>2. \E r \in Runs : live'[r] = b /\ b # 0
    BY DEF LiveBuilds
  <2> QED BY <1>1, <2>1, <2>2 DEF SessionsInv, LiveTold
<1>3. lock[b] \in {Free, u}
  BY DEF GrowInv, LoadsAlone
<1>4. CASE lock[b] = Free
  <2>1. CASE Resumed
    BY <1>2, <1>4, <2>1 DEF Resumed
  <2>2. CASE UNCHANGED vars
    BY <1>4, <2>2 DEF vars
  <2> QED BY <2>1, <2>2
<1>5. CASE lock[b] = u
  BY <1>2, <1>5, LockOf DEF GrowInv
<1> QED BY <1>3, <1>4, <1>5

LEMMA AloneClean ==
    ASSUME GrowInv, [Next]_vars, Resumed \/ UNCHANGED vars, NEW u \in Threads, Loading(u),
           NEW b \in LiveBuilds, b \in LiveBuilds', sess[b].run = thread[u].run, ~sess[b].dirty
    PROVE  ~sess'[b].dirty
<1>1. b \in Builds /\ b <= epoch /\ lock[b] \in {Free, u} /\ lock[b] # Kept
  BY LiveIs DEF GrowInv, FreshInv, LoadsAlone
<1>2. SUFFICES ASSUME sess'[b].dirty PROVE FALSE
  OBVIOUS
<1>3. PICK t \in Threads :
         /\ ThreadStep(t) /\ thread[t].on = b
         /\ PlayAndMark(t) \/ SaveFails(t) \/ (thread[t].at = "away" /\ lock[b] = Free /\ lock'[b] = t)
  BY <1>1, <1>2, DirtyBy DEF GrowInv
<1>4. ASSUME thread[t].at \in Locked PROVE t = u
  <2>1. lock[b] = t
    BY <1>1, <1>3, <1>4 DEF GrowInv, FreshInv, SessionsInv, LockTold
  <2> QED BY <1>1, <2>1
<1>5. ~(UNCHANGED vars) /\ Resumed
  BY <1>2 DEF vars
<1>6. CASE PlayAndMark(t)
  <2>1. thread[t].at \in {"playing", "after"}
    BY <1>6 DEF PlayAndMark
  <2>2. Loading(t)
    BY <1>4, <2>1 DEF Locked
  <2> QED BY <2>1, <2>2 DEF Loading, GrowInv, FlushLoads
<1>7. CASE SaveFails(t)
  <2>1. thread[t].at = "writing" /\ thread[t].at \in Locked
    BY <1>7 DEF SaveFails, Locked
  <2>2. thread[t].how = "now"
    BY <1>2, <1>7 DEF SaveFails
  <2>3. thread'[t].at = "marking"
    <3>1. Go(t, "marking") /\ thread \in [Threads -> ThreadState]
      BY <1>7, <2>2, ThreadIs DEF SaveFails, GrowInv
    <3> QED BY <3>1 DEF Go, ThreadState
  <2>4. Loading(t)
    BY <1>4, <2>1
  <2> QED BY <1>5, <2>1, <2>3, <2>4 DEF Resumed
<1>8. CASE thread[t].at = "away" /\ lock[b] = Free /\ lock'[b] = t
  <2>1. t = u
    BY <1>5, <1>8 DEF Resumed
  <2> QED BY <1>8, <2>1 DEF Loading, GrowInv, FlushLoads
<1> QED BY <1>3, <1>6, <1>7, <1>8

(* What was settled stays settled.                                          *)
LEMMA StaysSettled ==
    ASSUME GrowInv, [Next]_vars, Resumed \/ UNCHANGED vars, NEW u \in Threads, Loading(u),
           NEW b \in LiveBuilds, b \in LiveBuilds', sess[b].run = thread[u].run, Settled(b)
    PROVE  Settled(b)'
<1>1. b \in Builds /\ b <= epoch
  BY LiveIs DEF GrowInv, FreshInv
<1>2. phone' = phone
  BY DEF Next, vars
<1>3. sess[b].ending => sess'[b].ending
  BY <1>1, MemGrows DEF GrowInv
<1>4. ~open => ~open'
  <2>1. thread[u].at # "idle"
    BY DEF Loading, GrowInv, FlushLoads
  <2> QED BY <2>1, StaysShut DEF GrowInv
<1>5. ~sess[b].dirty => ~sess'[b].dirty
  BY AloneClean
<1> QED BY <1>2, <1>3, <1>4, <1>5 DEF Settled

(* The flush before a load settles its run.                                 *)
LEMMA Settles ==
    ASSUME GrowInv, [Next]_vars, Resumed \/ UNCHANGED vars, NEW u \in Threads, Loading(u), ThreadStep(u),
           PastFlush(u)', ~PastFlush(u), NEW b \in LiveBuilds, sess[b].run = thread[u].run
    PROVE  Settled(b)'
<1>1. thread \in [Threads -> ThreadState] /\ live \in [Runs -> Builds \cup {0}]
      /\ sess \in [Builds -> [run : Runs \cup {0}, mem : SUBSET Plays, dirty : BOOLEAN, ending : BOOLEAN]]
      /\ Told(u) /\ Arrived(u)
  BY ThreadIs, Arrives DEF GrowInv, FreshInv, SessionsInv, SessionsTypeOK
<1>2. b \in Builds /\ lock[b] # Kept /\ live[thread[u].run] = b /\ b # 0 /\ lock[b] \in {Free, u}
  BY LiveIs DEF GrowInv, FreshInv, IsLive, LoadsAlone
<1>3. CASE thread[u].then = "load"
  <2>1. thread[u].at = "checking" /\ thread[u].how = "now" /\ lock[thread[u].on] = u
        /\ sess[thread[u].on].run = thread[u].run /\ thread[u].on \in Builds
    BY <1>1, <1>3 DEF PastFlush, GrowInv, FlushLoads, ThreadState
  <2>2. thread[u].on = b
    <3>1. lock[thread[u].on] # Kept
      BY <2>1
    <3>2. IsLive(thread[u].on)
      BY <2>1, <3>1 DEF GrowInv, LiveOrKept
    <3> QED BY <1>2, <2>1, <3>2 DEF IsLive
  <2>3. CheckSave(u) \/ SaveRefused(u)
    BY <2>1 DEF ThreadStep, LetIn, FindRun, FirstLook, TakeLock, LockTaken, ReleaseTurn, AfterTurn, NotPlayed,
       PlayTurn, PlayAndSave, PlayAndMark, Mark, WriteSave, SaveFails, FlushBeforeLoad, Load, Build,
       BuildRefused, StepTaken, StepSkipped, Delete, Steps
  <2>4. CASE CheckSave(u)
    <3>1. sess' = [sess EXCEPT ![b].dirty = FALSE]
      BY <2>1, <2>2, <2>4 DEF CheckSave
    <3>2. sess'[b].dirty = FALSE
      BY <1>1, <1>2, <3>1
    <3> QED BY <3>2 DEF Settled
  <2>5. CASE SaveRefused(u)
    <3>1. UNCHANGED <<sess, open>> /\ (sess[b].ending \/ ~open)
      BY <2>1, <2>2, <2>5 DEF SaveRefused, MayWrite
    <3> QED BY <3>1 DEF Settled
  <2> QED BY <2>3, <2>4, <2>5
<1>4. CASE thread[u].then # "load"
  <2>1. thread[u].at = "start" /\ thread[u].op # "create"
    BY <1>4 DEF Loading, PastFlush
  <2>2. FlushBeforeLoad(u)
    BY <2>1 DEF ThreadStep, LetIn, FindRun, FirstLook, TakeLock, LockTaken, ReleaseTurn, AfterTurn, NotPlayed,
       PlayTurn, PlayAndSave, PlayAndMark, Mark, CheckSave, SaveRefused, WriteSave, SaveFails, Load, Build,
       BuildRefused, StepTaken, StepSkipped, Delete, Steps
  <2>3. lock[b] # u
    BY <1>2, <2>1 DEF GrowInv, FreshInv, SessionsInv, LockTold, Locked
  <2>4. lock[b] = Free
    BY <1>2, <2>3
  <2>5. UNCHANGED sess
        /\ thread' = [thread EXCEPT ![u].at = IF sess[b].dirty THEN "checking" ELSE "release",
                                    ![u].on = b, ![u].how = "now", ![u].then = "load"]
    BY <1>2, <2>2, <2>4 DEF FlushBeforeLoad
  <2>6. thread'[u].at = IF sess[b].dirty THEN "checking" ELSE "release"
    BY <1>1, <2>5 DEF ThreadState
  <2>7. ~sess[b].dirty
    BY <2>6 DEF PastFlush
  <2> QED BY <2>5, <2>7 DEF Settled
<1> QED BY <1>3, <1>4

LEMMA LooksFirst ==
    ASSUME GrowInv, [Next]_vars, NEW u \in Threads, FirstLook(u), Loading(u)', ~Loading(u),
           NEW b \in LiveBuilds
    PROVE  lock'[b] = Free /\ (PastFlush(u)' => Settled(b)')
<1>1. thread \in [Threads -> ThreadState] /\ phone' = phone
  BY ThreadIs DEF GrowInv, Next, vars
<1>2. ~GoIdle(u)
  BY <1>1 DEF GoIdle, Idle, Loading
<1>3. lock[b] = Free /\ UNCHANGED lock
  BY <1>2 DEF FirstLook, OwnerBusy
<1>4. PICK place : /\ Go(u, place)
                   /\ place = IF thread[u].op = "create" THEN "build" ELSE IF phone THEN "start" ELSE "load"
  BY <1>2 DEF FirstLook
<1>5. thread'[u].at = place /\ thread'[u].op = thread[u].op /\ thread'[u].then = thread[u].then
  BY <1>1, <1>4 DEF Go, ThreadState
<1>6. thread[u].then # "load"
  BY DEF Loading
<1>7. PastFlush(u)' => ~phone
  BY <1>4, <1>5, <1>6 DEF PastFlush
<1> QED BY <1>1, <1>3, <1>7 DEF Settled

LEMMA LoadsAloneStep ==
    ASSUME GrowInv, [Next]_vars, Resumed \/ UNCHANGED vars PROVE LoadsAlone'
<1>1. SessionsInv' /\ thread \in [Threads -> ThreadState] /\ lock \in [Builds -> Threads \cup {Free, Kept}]
      /\ live \in [Runs -> Builds \cup {0}] /\ epoch \in Nat
  BY StepInv, ThreadIs DEF GrowInv, FreshInv, SessionsInv, SessionsTypeOK
<1> SUFFICES ASSUME NEW u \in Threads, Loading(u)', NEW b \in LiveBuilds', sess'[b].run = thread'[u].run
             PROVE  lock'[b] \in {Free, u} /\ (PastFlush(u)' => Settled(b)')
  BY DEF LoadsAlone
<1>2. thread'[u].run = thread[u].run /\ thread[u].run \in Runs /\ (Loading(u) \/ FirstLook(u))
  BY LoadingWas
<1>3. CASE b \in LiveBuilds
  <2>1. sess[b].run = thread[u].run
    <3>1. b \in Builds /\ b <= epoch
      BY <1>3, LiveIs DEF GrowInv, FreshInv
    <3>2. sess'[b].run = sess[b].run
      BY <3>1, RunForGood DEF GrowInv, FreshInv
    <3> QED BY <1>2, <3>2
  <2>2. CASE Loading(u)
    <3>1. lock'[b] \in {Free, u}
      BY <1>3, <2>1, <2>2, AloneLocked
    <3>2. ASSUME PastFlush(u)', PastFlush(u) PROVE Settled(b)'
      <4>1. Settled(b)
        BY <1>3, <2>1, <2>2, <3>2 DEF GrowInv, LoadsAlone
      <4> QED BY <1>3, <2>1, <2>2, <4>1, StaysSettled
    <3>3. ASSUME PastFlush(u)', ~PastFlush(u) PROVE Settled(b)'
      <4>1. CASE ThreadStep(u)
        BY <1>3, <2>1, <2>2, <3>3, <4>1, Settles
      <4>2. thread'[u] # thread[u]
        BY <3>3 DEF PastFlush
      <4>3. ~(thread'[u].at \in {"found", "checking"} /\ thread'[u].then = "idle")
        BY DEF Loading
      <4> QED BY <4>1, <4>2, <4>3, Mover DEF GrowInv
    <3> QED BY <3>1, <3>2, <3>3
  <2> QED BY <1>2, <1>3, <2>2, LooksFirst
<1>4. CASE b \notin LiveBuilds
  <2>1. PICK r \in Runs : live'[r] = b /\ b # 0
    BY DEF LiveBuilds
  <2>2. live[r] # b
    BY <1>4, <2>1 DEF LiveBuilds
  <2>3. PICK t \in Threads : Build(t) /\ b = epoch + 1
    BY <2>1, <2>2, LiveBy DEF GrowInv
  <2>4. b \in Builds /\ lock[b] = Free
    <3>1. epoch < MaxBuilds
      BY <2>3 DEF Build
    <3>2. b \in Builds /\ ~(b <= epoch)
      BY <1>1, <2>3, <3>1
    <3> QED BY <3>2 DEF GrowInv, FreshInv, SessionsInv, UnmadeTold
  <2>5. lock' = [x \in Builds |-> IF x \in LiveBuilds THEN Kept ELSE lock[x]]
    BY <2>3 DEF Build, Taken
  <2>6. lock'[b] = Free
    BY <1>4, <2>4, <2>5
  <2>7. sess'[b].dirty = FALSE
    BY <2>3, BuiltAnew DEF GrowInv, FreshInv
  <2> QED BY <2>6, <2>7 DEF Settled
<1> QED BY <1>3, <1>4

(* Two flushes do not begin in one step.                                    *)
LEMMA BeginsAlone ==
    ASSUME GrowInv, [Next]_vars, NEW u \in Threads, Flushes(u)', ~Flushes(u),
           NEW v \in Threads, Flushes(v)', ~Flushes(v)
    PROVE  u = v
<1>1. ASSUME NEW x \in Threads, Build(x), NEW y \in Threads, y # x, Flushes(y)' PROVE Flushes(y)
  <2>1. thread'[y] = thread[y]
    BY <1>1, OthersAlone DEF ThreadStep, GrowInv, FreshInv
  <2> QED BY <1>1, <2>1, NotFlushing
<1>2. CASE Build(u) \/ Build(v)
  BY <1>1, <1>2
<1>3. CASE ~Build(u) /\ ~Build(v)
  BY <1>3, NewFlush
<1> QED BY <1>2, <1>3

(* What a flush begins with: dirty state of a run that is live no more, or  *)
(* that is nobody's to save.                                                *)
Untouched(b) ==
    sess[b].ending \/ ~open \/ \A u \in Threads : PastFlush(u) => thread[u].run # sess[b].run
LEMMA DirtyAlone ==
    ASSUME GrowInv, NEW b \in LiveBuilds, phone, sess[b].dirty
    PROVE  Untouched(b)
<1> SUFFICES ASSUME NEW u \in Threads, PastFlush(u), thread[u].run = sess[b].run
             PROVE  sess[b].ending \/ ~open
  BY DEF Untouched
<1>1. Loading(u)
  BY DEF PastFlush, Loading
<1>2. Settled(b)
  BY <1>1 DEF GrowInv, LoadsAlone
<1> QED BY <1>2 DEF Settled

LEMMA StillNone ==
    ASSUME GrowInv, NEW u \in Threads, \A v \in Threads : v # u => thread'[v] = thread[v], thread'[u].at = "checking",
           NEW r, \A v \in Threads : PastFlush(v) => thread[v].run # r
    PROVE  NoneBuilds(r)'
BY DEF NoneBuilds, PastFlush

LEMMA FlushBegins ==
    ASSUME GrowInv, [Next]_vars, NEW u \in Threads, Flushes(u)', ~Flushes(u),
           NEW b, b = thread'[u].on, NEW r, r = sess'[b].run
    PROVE  /\ live[r] # 0
           /\ disk'[r] # NoSave => disk'[r] \subseteq sess'[b].mem
           /\ thread'[u].at = "checking"
           /\ sess'[b].ending \/ ~open' \/ (live'[r] = 0 /\ NoneBuilds(r)')
<1>1. thread \in [Threads -> ThreadState] /\ live \in [Runs -> Builds \cup {0}] /\ epoch \in Nat
      /\ sess \in [Builds -> [run : Runs \cup {0}, mem : SUBSET Plays, dirty : BOOLEAN, ending : BOOLEAN]]
  BY ThreadIs DEF GrowInv, FreshInv, SessionsInv, SessionsTypeOK
<1>2. thread'[u].at = "checking"
  BY NewFlush
<1>3. ASSUME NEW x \in LiveBuilds, b = x, sess'[x] = sess[x]
      PROVE  /\ x \in Builds /\ r = sess[x].run /\ r \in Runs /\ live[r] = x /\ live[r] # 0
             /\ disk[r] # NoSave => disk[r] \subseteq sess[x].mem
  <2>1. x \in Builds /\ IsLive(x)
    BY <1>3, LiveIs DEF GrowInv, FreshInv
  <2>2. r = sess[x].run /\ r \in Runs /\ live[r] = x /\ live[r] # 0
    BY <1>3, <2>1 DEF IsLive
  <2>3. disk[r] # NoSave => disk[r] \subseteq sess[live[r]].mem
    BY <2>2 DEF GrowInv, LiveHas
  <2> QED BY <2>1, <2>2, <2>3
<1>4. CASE Build(u)
  <2>1. PICK o \in LiveBuilds : sess[o].dirty /\ phone /\ thread'[u].on = o
    <3> DEFINE me == [thread[u] EXCEPT !.at = IF thread[u].op = "create" THEN "stamp" ELSE "away",
                                       !.on = epoch + 1, !.new = epoch + 1, !.got = {}]
    <3>1. me.at \in {"stamp", "away"} /\ DOMAIN me = DOMAIN Idle
      BY <1>1 DEF ThreadState, Idle
    <3>2. CASE phone /\ \E o \in LiveBuilds : sess[o].dirty
      <4> DEFINE o == CHOOSE x \in LiveBuilds : sess[x].dirty
      <4>1. o \in LiveBuilds /\ sess[o].dirty
        BY <3>2
      <4>2. thread'[u] = [me EXCEPT !.at = "checking", !.how = "now", !.then = me.at, !.on = o]
        BY <1>1, <1>4, <3>2 DEF Build, Taken
      <4> HIDE DEF me, o
      <4>3. thread'[u].on = o
        BY <3>1, <4>2 DEF Idle
      <4> QED BY <3>2, <4>1, <4>3
    <3>3. CASE ~(phone /\ \E o \in LiveBuilds : sess[o].dirty)
      <4>1. thread'[u] = me
        BY <1>1, <1>4, <3>3 DEF Build, Taken
      <4> HIDE DEF me
      <4> QED BY <1>2, <3>1, <4>1
    <3> QED BY <3>2, <3>3
  <2>2. o \in Builds /\ o <= epoch
    BY LiveIs DEF GrowInv, FreshInv
  <2>3. sess'[o] = sess[o] /\ UNCHANGED <<disk, open>>
    <3>1. sess' = [sess EXCEPT ![epoch + 1] = [Unbuilt EXCEPT !.run = thread[u].run, !.mem = thread[u].got]]
          /\ UNCHANGED <<disk, open>>
      BY <1>4 DEF Build
    <3>2. o # epoch + 1
      BY <1>1, <2>2
    <3> QED BY <1>1, <2>2, <3>1, <3>2
  <2>4. /\ r = sess[o].run /\ r \in Runs /\ live[r] = o /\ live[r] # 0
        /\ disk[r] # NoSave => disk[r] \subseteq sess[o].mem
    BY <1>3, <2>1, <2>3
  <2>5. Untouched(o)
    BY <2>1, DirtyAlone
  <2>6. ASSUME ~sess[o].ending, open PROVE live'[r] = 0 /\ NoneBuilds(r)'
    <3>1. \A v \in Threads : PastFlush(v) => thread[v].run # r
      BY <2>4, <2>5, <2>6 DEF Untouched
    <3>2. \A v \in Threads : v # u => thread'[v] = thread[v]
      BY <1>4, OthersAlone DEF ThreadStep, GrowInv, FreshInv
    <3>3. thread[u].run # r
      <4>1. thread[u].at = "build"
        BY <1>4 DEF Build
      <4>2. CASE thread[u].op = "create"
        <5>1. sess[o].run # thread[u].run
          BY <2>1, <2>2, <4>2 DEF GrowInv, FreshInv, FreshTold
        <5> QED BY <2>4, <5>1
      <4>3. CASE thread[u].op # "create"
        BY <3>1, <4>1, <4>3 DEF PastFlush
      <4> QED BY <4>2, <4>3
    <3>4. live'[r] = 0
      BY <1>4, <2>1, <2>4, <3>3 DEF Build, Taken
    <3> QED BY <1>2, <3>1, <3>2, <3>4, StillNone
  <2> QED BY <1>2, <2>1, <2>3, <2>4, <2>6
<1>5. ASSUME NEW x \in Runs, Sweep(x), u = Keeper, thread'[u].on = live[x], phone, sess[live[x]].dirty
      PROVE  /\ live[r] # 0
             /\ disk'[r] # NoSave => disk'[r] \subseteq sess'[b].mem
             /\ sess'[b].ending \/ ~open' \/ (live'[r] = 0 /\ NoneBuilds(r)')
  <2>1. live[x] # 0 /\ UNCHANGED <<sess, disk, open>> /\ live' = [live EXCEPT ![x] = 0]
    BY <1>5 DEF Sweep, CanEnd, End
  <2>2. live[x] \in LiveBuilds /\ sess[live[x]].run = x
    BY <1>5, <2>1 DEF LiveBuilds, GrowInv, FreshInv, SessionsInv, LiveTold
  <2>3. r = x /\ (disk[r] # NoSave => disk[r] \subseteq sess[live[x]].mem)
    BY <1>3, <1>5, <2>1, <2>2
  <2>4. Untouched(live[x])
    BY <1>5, <2>2, DirtyAlone
  <2>5. ASSUME ~sess[live[x]].ending, open PROVE live'[r] = 0 /\ NoneBuilds(r)'
    <3>1. \A v \in Threads : PastFlush(v) => thread[v].run # r
      BY <2>2, <2>3, <2>4, <2>5 DEF Untouched
    <3>2. \A v \in Threads : v # u => thread'[v] = thread[v]
      BY <1>1, <1>5 DEF Sweep
    <3>3. live'[r] = 0
      BY <1>1, <2>1, <2>3
    <3> QED BY <1>2, <3>1, <3>2, <3>3, StillNone
  <2> QED BY <1>5, <2>1, <2>3, <2>5
<1> QED BY <1>2, <1>4, <1>5, NewFlush

LEMMA FlushMoves ==
    ASSUME GrowInv, NEW u \in Threads, ThreadStep(u), Flushes(u), Flushes(u)'
    PROVE  /\ thread'[u].on = thread[u].on /\ UNCHANGED <<disk, live>>
           /\ \/ /\ thread[u].at = "checking" /\ thread'[u].at = "writing"
                 /\ ~sess[thread[u].on].ending /\ open
              \/ thread'[u].at = "marking"
<1>1. thread \in [Threads -> ThreadState] /\ Arrived(u)
      /\ thread[u].at \in {"checking", "writing", "marking"} /\ thread'[u].at \in {"checking", "writing", "marking"}
  BY ThreadIs, Arrives DEF GrowInv, Flushes
<1>2. thread[u].how = "now"
  BY <1>1 DEF Flushes, GrowInv, FreshInv, SessionsInv, LockTold, Locked
<1>3. ASSUME NEW place, Go(u, place) PROVE thread'[u].at = place /\ thread'[u].on = thread[u].on
  BY <1>1, <1>3 DEF Go, ThreadState
<1>4. CASE CheckSave(u)
  BY <1>2, <1>3, <1>4 DEF CheckSave, MayWrite
<1>5. CASE SaveFails(u)
  BY <1>2, <1>3, <1>5 DEF SaveFails
<1>6. ASSUME TakeLock(u) \/ PlayTurn(u) \/ PlayAndSave(u) \/ FlushBeforeLoad(u) \/ StepTaken(u) \/ Build(u)
             \/ PlayAndMark(u)
      PROVE  FALSE
  BY <1>1, <1>6 DEF TakeLock, PlayTurn, PlayAndSave, FlushBeforeLoad, StepTaken, Build, PlayAndMark, Steps
<1> QED BY <1>1, <1>4, <1>5, <1>6 DEF Arrived

(* What may still be written was already, or its flush has just begun.      *)
LEMMA SaveWas ==
    ASSUME GrowInv, [Next]_vars, NEW u \in Threads, MaySave(u)', Flushes(u)
    PROVE  MaySave(u) /\ thread'[u].on = thread[u].on
<1>1. Flushes(u)' /\ thread'[u].at \in {"checking", "writing"} /\ thread[u].at \in Locked
  BY DEF MaySave, Flushes, Locked
<1>2. CASE thread'[u] = thread[u]
  <2>1. thread[u].on \in Builds /\ thread[u].on <= epoch
    BY <1>1, ThreadIs DEF GrowInv
  <2>2. sess[thread[u].on].ending => sess'[thread[u].on].ending
    BY <2>1, MemGrows DEF GrowInv
  <2>3. ~open => ~open'
    BY <1>1, StaysShut DEF GrowInv, Locked
  <2> QED BY <1>2, <2>2, <2>3 DEF MaySave
<1>3. CASE ThreadStep(u)
  BY <1>1, <1>3, FlushMoves DEF MaySave
<1> QED BY <1>1, <1>2, <1>3, Mover DEF GrowInv, Locked

LEMMA NoneBuildsStill ==
    ASSUME GrowInv, [Next]_vars, LoadsFlushed \/ UNCHANGED vars, NEW u \in Threads, Flushes(u),
           NEW r, r = sess[thread[u].on].run, NoneBuilds(r)
    PROVE  NoneBuilds(r)'
<1> SUFFICES ASSUME NEW v \in Threads, thread'[v].op # "create", thread'[v].at = "build", thread'[v].run = r
             PROVE  FALSE
  BY DEF NoneBuilds
<1>1. CASE thread'[v] = thread[v]
  BY <1>1 DEF NoneBuilds
<1>2. CASE ThreadStep(v) /\ thread'[v] # thread[v]
  <2>1. Arrived(v) /\ thread \in [Threads -> ThreadState]
    BY <1>2, Arrives, ThreadIs DEF GrowInv
  <2>2. thread[v].run = r /\ thread[v].op # "create"
    BY <2>1 DEF Arrived
  <2>3. CASE Load(v)
    BY <1>2, <2>2, <2>3 DEF LoadsFlushed, vars
  <2>4. CASE FirstLook(v)
    <3>1. ASSUME GoIdle(v) PROVE FALSE
      BY <2>1, <3>1 DEF GoIdle, Idle
    <3>2. Go(v, IF phone THEN "start" ELSE "load")
      BY <2>2, <2>4, <3>1 DEF FirstLook
    <3> QED BY <2>1, <3>2 DEF Go, ThreadState
  <2> QED BY <2>1, <2>3, <2>4 DEF Arrived
<1> QED BY <1>1, <1>2, Mover DEF GrowInv

LEMMA StaysUnlive ==
    ASSUME GrowInv, [Next]_vars, NEW u \in Threads, Flushes(u),
           NEW r \in Runs, r = sess[thread[u].on].run, NoneBuilds(r), live[r] = 0
    PROVE  live'[r] = 0
<1>1. ASSUME NEW t \in Threads, Build(t), r = thread[t].run PROVE FALSE
  <2>1. thread[t].at = "build" /\ t # u /\ thread[u].on # 0
    BY <1>1, ThreadIs DEF Build, Flushes, Locked, GrowInv
  <2>2. thread[t].op = "create"
    BY <1>1, <2>1 DEF NoneBuilds
  <2> QED BY <1>1, <2>1, <2>2 DEF GrowInv, FreshInv, FreshTold
<1> QED BY <1>1, LiveBy DEF GrowInv

LEMMA FlushStays ==
    ASSUME GrowInv, [Next]_vars, LoadsFlushed \/ UNCHANGED vars, NEW u \in Threads, MaySave(u), MaySave(u)',
           thread'[u].on = thread[u].on, NEW b, b = thread[u].on, NEW r, r = sess[b].run
    PROVE  /\ b \in Builds /\ r \in Runs /\ sess'[b].run = r /\ live[r] = 0
           /\ live'[r] = 0 /\ NoneBuilds(r)'
           /\ disk'[r] # NoSave => disk'[r] \subseteq sess'[b].mem
<1>1. Flushes(u) /\ b \in Builds /\ b <= epoch
  BY ThreadIs DEF MaySave, Flushes, Locked, GrowInv
<1>2. r \in Runs /\ sess'[b].run = r /\ sess[b].mem \subseteq sess'[b].mem
  BY <1>1, RunForGood, MemGrows DEF GrowInv, FreshInv, SessionsInv, UnmadeTold
<1>3. /\ live[r] = 0 /\ NoneBuilds(r)
      /\ disk[r] # NoSave => disk[r] \subseteq sess[b].mem
      /\ \A v \in Threads : v # u /\ MaySave(v) => sess[thread[v].on].run # r
  BY DEF GrowInv, FlushTold
<1>4. live'[r] = 0 /\ NoneBuilds(r)'
  BY <1>1, <1>2, <1>3, StaysUnlive, NoneBuildsStill
<1>5. ASSUME disk'[r] # NoSave PROVE disk'[r] \subseteq sess'[b].mem
  <2>1. CASE disk'[r] = disk[r]
    BY <1>2, <1>3, <1>5, <2>1
  <2>2. CASE disk'[r] # disk[r]
    <3>1. PICK t \in Threads : WriteSave(t) /\ sess[thread[t].on].run = r
      BY <1>2, <1>5, <2>2, OthersSave
    <3>2. thread[t].at = "writing" /\ thread[t].at \in Locked
      BY <3>1 DEF WriteSave, Locked
    <3>3. Flushes(t)
      <4>1. ASSUME ~Flushes(t) PROVE FALSE
        <5>1. thread[t].on \in Builds /\ IsLive(thread[t].on)
          BY <3>2, <4>1, WorksLive
        <5> QED BY <1>3, <3>1, <5>1 DEF IsLive
      <4> QED BY <4>1
    <3>4. t = u
      BY <1>3, <3>1, <3>2, <3>3 DEF MaySave
    <3>5. disk' = [disk EXCEPT ![r] = sess[b].mem] /\ disk \in [Runs -> (SUBSET Plays) \cup {NoSave}]
      BY <3>1, <3>4 DEF WriteSave, GrowInv, FreshInv, SessionsInv, SessionsTypeOK
    <3> QED BY <1>2, <3>5
  <2> QED BY <2>1, <2>2
<1> QED BY <1>1, <1>2, <1>3, <1>4, <1>5

LEMMA FlushToldStep ==
    ASSUME GrowInv, [Next]_vars, LoadsFlushed \/ UNCHANGED vars PROVE FlushTold'
(* Of a flush under way; of one that has just begun. *)
<1>1. ASSUME NEW u \in Threads, MaySave(u)', Flushes(u), NEW b, b = thread'[u].on, NEW r, r = sess'[b].run
      PROVE  /\ live[r] = 0 /\ MaySave(u) /\ b = thread[u].on /\ r = sess[b].run
             /\ live'[r] = 0 /\ NoneBuilds(r)' /\ (disk'[r] # NoSave => disk'[r] \subseteq sess'[b].mem)
  <2>1. MaySave(u) /\ thread'[u].on = thread[u].on /\ MaySave(u)' /\ b = thread[u].on
    BY <1>1, SaveWas
  <2>2. PICK x : x = sess[b].run
    OBVIOUS
  <2>3. /\ x \in Runs /\ sess'[b].run = x /\ live[x] = 0
        /\ live'[x] = 0 /\ NoneBuilds(x)' /\ (disk'[x] # NoSave => disk'[x] \subseteq sess'[b].mem)
    BY <2>1, <2>2, FlushStays
  <2> QED BY <1>1, <2>1, <2>2, <2>3
<1>2. ASSUME NEW u \in Threads, MaySave(u)', ~Flushes(u), NEW b, b = thread'[u].on, NEW r, r = sess'[b].run
      PROVE  /\ live[r] # 0
             /\ live'[r] = 0 /\ NoneBuilds(r)' /\ (disk'[r] # NoSave => disk'[r] \subseteq sess'[b].mem)
  <2>1. Flushes(u)'
    BY <1>2 DEF MaySave
  <2>2. /\ live[r] # 0 /\ (disk'[r] # NoSave => disk'[r] \subseteq sess'[b].mem) /\ thread'[u].at = "checking"
        /\ sess'[b].ending \/ ~open' \/ (live'[r] = 0 /\ NoneBuilds(r)')
    BY <1>2, <2>1, FlushBegins
  <2> QED BY <1>2, <2>2 DEF MaySave
<1>3. ASSUME NEW u \in Threads, MaySave(u)', NEW v \in Threads, MaySave(v)', v # u,
             NEW r, r = sess'[thread'[u].on].run, r = sess'[thread'[v].on].run
      PROVE  FALSE
  <2> PICK b, c : b = thread'[u].on /\ c = thread'[v].on
    OBVIOUS
  <2>0. MaySave(u)' /\ MaySave(v)' /\ r = sess'[b].run /\ r = sess'[c].run
    BY <1>3
  <2>1. CASE Flushes(u) /\ Flushes(v)
    <3>1. MaySave(u) /\ b = thread[u].on /\ r = sess[b].run
      BY <1>1, <1>3, <2>0, <2>1
    <3>2. MaySave(v) /\ c = thread[v].on /\ r = sess[c].run
      BY <1>1, <1>3, <2>0, <2>1
    <3>3. \A x \in Threads : x # u /\ MaySave(x) => sess[thread[x].on].run # sess[thread[u].on].run
      BY <3>1 DEF GrowInv, FlushTold
    <3>4. sess[thread[v].on].run # sess[thread[u].on].run
      BY <1>3, <3>2, <3>3
    <3>5. sess[thread[v].on].run = sess[thread[u].on].run
      BY <3>1, <3>2
    <3> QED BY <3>4, <3>5
  <2>2. CASE Flushes(u) /\ ~Flushes(v)
    <3>1. live[r] = 0
      <4>1. MaySave(u) /\ b = thread[u].on /\ r = sess[b].run
        BY <1>1, <1>3, <2>0, <2>2
      <4> QED BY <4>1 DEF GrowInv, FlushTold
    <3>2. live[r] # 0
      BY <1>2, <2>0, <2>2
    <3> QED BY <3>1, <3>2
  <2>3. CASE ~Flushes(u) /\ Flushes(v)
    <3>1. live[r] = 0
      <4>1. MaySave(v) /\ c = thread[v].on /\ r = sess[c].run
        BY <1>1, <1>3, <2>0, <2>3
      <4> QED BY <4>1 DEF GrowInv, FlushTold
    <3>2. live[r] # 0
      BY <1>2, <2>0, <2>3
    <3> QED BY <3>1, <3>2
  <2>4. CASE ~Flushes(u) /\ ~Flushes(v)
    <3>1. Flushes(u)' /\ Flushes(v)'
      BY <1>3 DEF MaySave
    <3> QED BY <1>3, <2>4, <3>1, BeginsAlone
  <2> QED BY <2>1, <2>2, <2>3, <2>4
<1> SUFFICES ASSUME NEW u \in Threads, MaySave(u)', NEW b, b = thread'[u].on, NEW r, r = sess'[b].run
             PROVE  /\ live'[r] = 0 /\ NoneBuilds(r)'
                    /\ disk'[r] # NoSave => disk'[r] \subseteq sess'[b].mem
                    /\ \A v \in Threads : v # u /\ MaySave(v)' => sess'[thread'[v].on].run # r
  BY DEF FlushTold
<1>4. live'[r] = 0 /\ NoneBuilds(r)' /\ (disk'[r] # NoSave => disk'[r] \subseteq sess'[b].mem)
  BY <1>1, <1>2
<1>5. \A v \in Threads : v # u /\ MaySave(v)' => sess'[thread'[v].on].run # r
  BY <1>3
<1> QED BY <1>4, <1>5

LEMMA GrowStep == GrowInv /\ [Next]_vars /\ [GrowWindow]_vars => GrowInv'
<1> SUFFICES ASSUME GrowInv, [Next]_vars, [GrowWindow]_vars PROVE GrowInv'
  OBVIOUS
<1>1. (Resumed \/ UNCHANGED vars) /\ (LoadsFlushed \/ UNCHANGED vars)
  BY DEF GrowWindow
<1>2. FreshInv' /\ LiveOrKept'
  BY FreshStep, LiveOrKeptStep DEF GrowInv
<1>3. AdminTyped' /\ NothingBegun'
  BY AdminTypes, BeginsOpen DEF GrowInv, FreshInv
<1>4. LiveHas' /\ CreatesAnew' /\ LoadedHas' /\ WorksHeld'
  BY LiveHasStep, CreatesAnewStep, LoadedHasStep, WorksHeldStep
<1>5. LoadsAlone' /\ FlushTold' /\ FlushLoads'
  BY <1>1, LoadsAloneStep, FlushToldStep, FlushLoadsStep
<1> QED BY <1>2, <1>3, <1>4, <1>5 DEF GrowInv

(* No save of a run loses a play that an earlier one had (SavesOnlyGrow,    *)
(* store.py, _take_owned, _flush_before_load, _flush_taken).  Left out is a *)
(* play on a run between its flush and its build by a resume, that flush    *)
(* failing, and a load between a run's release and the end of its flush.    *)
THEOREM SavesOnlyGrowHolds == Spec /\ [][GrowWindow]_vars => SavesOnlyGrow
<1>1. Init => GrowInv
  <2> SUFFICES ASSUME Init PROVE GrowInv
    OBVIOUS
  <2>1. FreshInv /\ AdminTyped /\ NothingBegun
    BY FreshInit, DirtyInit DEF DirtyInv
  <2>2. \A t \in Threads : thread[t] = Idle
    BY DEF Init
  <2>3. Idle.op = "none" /\ Idle.at = "idle" /\ Idle.then = "idle" /\ Idle.on = 0 /\ Idle.new = 0
    BY DEF Idle
  <2>4. LiveOrKept /\ CreatesAnew /\ LoadedHas /\ WorksHeld /\ FlushLoads
    BY <2>2, <2>3 DEF LiveOrKept, CreatesAnew, LoadedHas, WorksHeld, FlushLoads, Locked
  <2>5. (\A t \in Threads : ~Loading(t)) /\ (\A t \in Threads : ~Flushes(t))
    BY <2>2, <2>3 DEF Loading, Flushes
  <2>6. LoadsAlone /\ FlushTold
    BY <2>5 DEF LoadsAlone, FlushTold, MaySave
  <2>7. LiveHas
    BY DEF Init, LiveHas
  <2> QED BY <2>1, <2>4, <2>6, <2>7 DEF GrowInv
<1>2. GrowInv /\ [Next]_vars =>
         [\A r \in Runs : disk[r] # NoSave /\ disk'[r] # NoSave => disk[r] \subseteq disk'[r]]_vars
  <2> SUFFICES ASSUME GrowInv, [Next]_vars, NEW r \in Runs, disk[r] # NoSave, disk'[r] # NoSave
               PROVE  disk[r] \subseteq disk'[r]
    OBVIOUS
  <2>1. disk \in [Runs -> (SUBSET Plays) \cup {NoSave}]
    BY DEF GrowInv, FreshInv, SessionsInv, SessionsTypeOK
  <2>2. CASE UNCHANGED disk
    BY <2>2
  <2>3. CASE PurgeFolder
    BY <2>3 DEF PurgeFolder
  <2>4. ASSUME NEW t \in Threads, WriteSave(t) PROVE disk[r] \subseteq disk'[r]
    <3>1. PICK b, x : b = thread[t].on /\ x = sess[b].run
      OBVIOUS
    <3>2. /\ disk' = [disk EXCEPT ![x] = sess[b].mem]
          /\ disk[x] # NoSave => disk[x] \subseteq sess[b].mem
      BY <2>4, <3>1, WriterOf
    <3> QED BY <2>1, <3>2
  <2> QED BY <2>2, <2>3, <2>4, DiskBy
<1> QED BY <1>1, <1>2, GrowStep, PTL DEF Spec, SavesOnlyGrow
=============================================================================
