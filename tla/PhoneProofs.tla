------------------------------ MODULE PhoneProofs ------------------------------
(***************************************************************************)
(* Theorems about the phone of one run (Phone.tla), for any messages,       *)
(* scheduler threads, players and passes.                                   *)
(*                                                                          *)
(* OneNarration is the turnstile's: it speaks of two threads, and follows   *)
(* because a thread inside is the one the turnstile names.  That            *)
(* (HolderTold) is inductive together with the types: every way in sets     *)
(* `holder' to the thread that goes in, and finds it free; every way out    *)
(* clears it.                                                               *)
(*                                                                          *)
(* RequestKept is the scheduler's: the passes are apart (PassesApart), and  *)
(* a cancel tells the threads it calls off (CancelsTold).                   *)
(* NothingAfterLeaving is shown of each step, and of a drained inbox item   *)
(* by item.  OneReplyEach needs what a mark stands for (ReplyInv), on top   *)
(* of the passes that are apart.                                            *)
(***************************************************************************)
EXTENDS Phone, FiniteSetTheorems, WellFoundedInduction, TLAPS

USE PhoneConstants DEF PhoneConstants, Nobody

(* The places of a thread that is inside the turnstile. *)
Voicing == {"look", "admit", "snap", "call", "recapping"}
InWorld == {"took", "turn", "letgo"}

HolderTold ==
    /\ \A w \in Workers : worker[w].at \in Voicing => holder = w
    /\ \A q \in Players : player[q] \in InWorld => holder = q

PhoneInv == PhoneTypeOK /\ HolderTold

(* What the invariant reads. *)
inside == <<worker, player, holder, waits, queue, flying>>

LEMMA InitInv == PhoneInit => PhoneInv
BY DEF PhoneInit, PhoneInv, PhoneTypeOK, WorkerState, PlayerPlaces, Resting,
       WorkerPlaces, HolderTold, Voicing, InWorld

LEMMA NothingMoves == PhoneInv /\ UNCHANGED inside => PhoneInv'
BY DEF PhoneInv, PhoneTypeOK, HolderTold, inside

(* A request keeps one pass at most queued or in flight. *)
LEMMA Requesting ==
    ASSUME PhoneTypeOK, Request
    PROVE  queue' \in Passes \cup {0} /\ flying' = flying /\ (queue' = 0 \/ flying' = 0)
BY DEF Request, PhoneTypeOK, AFresh, Fresh

----------------------------------------------------------------------------
(* One scheduler thread moves: what it does to the turnstile is what its    *)
(* new place says.                                                          *)
LEMMA WorkerMoves ==
    ASSUME PhoneInv, NEW w \in Workers, NEW r \in WorkerState,
           worker' = [worker EXCEPT ![w] = r],
           \/ holder' = holder /\ (r.at \in Voicing => worker[w].at \in Voicing)
           \/ holder = Nobody /\ holder' = w
           \/ worker[w].at \in Voicing /\ holder' = Nobody /\ r.at \notin Voicing,
           UNCHANGED <<player, waits, queue, flying>>
    PROVE  PhoneInv'
<1>1. PhoneTypeOK'
  BY DEF PhoneInv, PhoneTypeOK
<1>2. HolderTold'
  BY DEF PhoneInv, PhoneTypeOK, HolderTold, Voicing, InWorld
<1> QED BY <1>1, <1>2 DEF PhoneInv

(* The call's ends: the pass is over, or a place outside is gone to. *)
LEMMA PassEnds ==
    ASSUME PhoneInv, NEW w \in Workers,
           NEW outcome \in {"ok", "busy", "deferred", "cancelled", "failed"},
           EndsAs(w, outcome),
           \/ worker[w].at \in Voicing /\ LetGo(w)
           \/ worker[w].at \notin Voicing /\ holder' = holder,
           UNCHANGED <<player, waits, queue, flying>>
    PROVE  PhoneInv'
<1> DEFINE r == [worker[w] EXCEPT !.at = "clear", !.outcome = outcome, !.words = {}]
<1>1. worker[w] \in WorkerState /\ worker \in [Workers -> WorkerState]
  BY DEF PhoneInv, PhoneTypeOK
<1>2. r \in WorkerState /\ r.at = "clear"
  BY <1>1 DEF WorkerState, WorkerPlaces
<1>3. worker' = [worker EXCEPT ![w] = r]
  BY <1>1 DEF EndsAs, WorkerState
<1> QED BY <1>2, <1>3, WorkerMoves DEF LetGo, Voicing

LEMMA CallVoiced ==
    ASSUME PhoneInv, NEW w \in Workers, worker[w].at = "call", Voiced(w), LetGo(w),
           UNCHANGED <<player, waits, queue, flying>>
    PROVE  PhoneInv'
<1> DEFINE r == [worker[w] EXCEPT !.at = "next", !.calls = worker[w].calls + 1, !.words = {}]
<1>1. worker[w] \in WorkerState /\ worker \in [Workers -> WorkerState]
  BY DEF PhoneInv, PhoneTypeOK
<1>2. r \in WorkerState /\ r.at = "next"
  <2>1. worker[w].calls + 1 \in Nat  BY <1>1 DEF WorkerState
  <2> QED BY <1>1, <2>1 DEF WorkerState, WorkerPlaces
<1>3. worker' = [worker EXCEPT ![w] = r]
  BY <1>1 DEF Voiced, WorkerState
<1> QED BY <1>2, <1>3, WorkerMoves DEF LetGo, Voicing

LEMMA CallSteps ==
    ASSUME PhoneInv, NEW w \in Workers, Calls(w)
    PROVE  PhoneInv'
<1> USE DEF PhoneInv, PhoneTypeOK, WorkerState, WorkerPlaces, HolderTold, Voicing, InWorld,
            GoTo, LetGo, session, scheduler
<1>1. CASE LookTaken(w)
  <2>1. CASE Live(w)   BY <1>1, <2>1 DEF LookTaken
  <2>2. CASE ~Live(w)  BY <1>1, <2>2, PassEnds DEF LookTaken
  <2> QED BY <2>1, <2>2
<1>2. CASE Admitted(w)
  <2>1. CASE GoTo(w, "snap") /\ UNCHANGED holder  BY <1>2, <2>1 DEF Admitted
  <2>2. CASE Live(w) /\ EndsAs(w, "busy") /\ LetGo(w)
    BY <1>2, <2>2, PassEnds DEF Admitted
  <2>3. CASE ~Live(w) /\ EndsAs(w, "cancelled") /\ LetGo(w)
    BY <1>2, <2>3, PassEnds DEF Admitted
  <2> QED BY <1>2, <2>1, <2>2, <2>3 DEF Admitted
<1>3. CASE SnapshotTaken(w)     BY <1>3, PassEnds DEF SnapshotTaken
<1>4. ASSUME NEW faulty, LookFirst(w, faulty) PROVE PhoneInv'
  <2>1. CASE GoTo(w, "admit") /\ UNCHANGED holder  BY <1>4, <2>1 DEF LookFirst
  <2>2. CASE GoTo(w, "recap") /\ LetGo(w)          BY <1>4, <2>2 DEF LookFirst
  <2> QED BY <1>4, <2>1, <2>2 DEF LookFirst
<1>5. ASSUME NEW faulty, Snapshot(w, faulty) PROVE PhoneInv'
  <2> DEFINE due == Voiceable(Drained(faulty))
  <2>1. due \subseteq Messages BY DEF Voiceable, Unmarked
  <2>2. CASE ~DueBeyond(worker[w].pass, Drained(faulty))
    <3>1. worker[w].at = "snap" /\ GoTo(w, "recap") /\ LetGo(w)
          /\ UNCHANGED <<player, waits, queue, flying>>
      BY <1>5, <2>2 DEF Snapshot
    <3> QED BY <3>1
  <2>3. CASE DueBeyond(worker[w].pass, Drained(faulty))
    <3>1. PICK words \in SUBSET Messages :
             worker' = [worker EXCEPT ![w].at = "call", ![w].words = words]
      BY <1>5, <2>1, <2>3 DEF Snapshot
    <3>2. worker[w].at = "snap" /\ UNCHANGED <<holder, player, waits, queue, flying>>
      BY <1>5, <2>3 DEF Snapshot
    <3> DEFINE r == [worker[w] EXCEPT !.at = "call", !.words = words]
    <3>3. r \in WorkerState /\ r.at = "call" /\ worker' = [worker EXCEPT ![w] = r]
      BY <3>1
    <3> HIDE DEF r
    <3> QED BY <3>2, <3>3, WorkerMoves
  <2> QED BY <2>2, <2>3
<1>6. ASSUME NEW more, Commit(w, more) PROVE PhoneInv'
  BY <1>6, CallVoiced DEF Commit
<1>7. CASE Park(w)              BY <1>7, CallVoiced DEF Park
<1>8. CASE Discard(w)           BY <1>8, PassEnds DEF Discard
<1>9. CASE PassFails(w)         BY <1>9, PassEnds DEF PassFails
<1>10. CASE RecapEnds(w)
  <2> DEFINE r == [worker[w] EXCEPT !.at = "overdue", !.outcome = "ok"]
  <2>1. r \in WorkerState /\ r.at = "overdue" /\ worker' = [worker EXCEPT ![w] = r]
    BY <1>10 DEF RecapEnds
  <2>2. worker[w].at = "recapping" /\ LetGo(w) /\ UNCHANGED <<player, waits, queue, flying>>
    BY <1>10 DEF RecapEnds
  <2> HIDE DEF r
  <2> QED BY <2>1, <2>2, WorkerMoves
<1> QED BY <1>1, <1>2, <1>3, <1>4, <1>5, <1>6, <1>7, <1>8, <1>9, <1>10 DEF Calls

LEMMA WorkerSteps ==
    ASSUME PhoneInv, NEW w \in Workers, WorkerStep(w)
    PROVE  PhoneInv'
<1> USE DEF PhoneInv, PhoneTypeOK, WorkerState, WorkerPlaces, HolderTold, Voicing, InWorld,
            GoTo, EndsAs, LetGo, Resting, session, scheduler
<1>1. CASE Begin(w)       BY <1>1 DEF Begin
<1>2. CASE NextCall(w)    BY <1>2 DEF NextCall, MayVoice
<1>3. CASE Recap(w)       BY <1>3 DEF Recap, MayVoice
<1>4. CASE Overdue(w)     BY <1>4 DEF Overdue
<1>5. CASE Finish(w)      BY <1>5 DEF Finish
<1>6. CASE ClearMarks(w)
  <2> DEFINE r == [worker[w] EXCEPT !.at = "after", !.calls = 0]
  <2>1. r \in WorkerState /\ r.at = "after" /\ worker' = [worker EXCEPT ![w] = r]
    BY <1>6 DEF ClearMarks
  <2>2. worker[w].at = "clear" /\ UNCHANGED <<holder, player, waits, queue, flying>>
    BY <1>6 DEF ClearMarks
  <2> HIDE DEF r
  <2> QED BY <2>1, <2>2, WorkerMoves
<1>7. CASE After(w)       BY <1>7 DEF After, Succeeded, Requeued, Forgotten, AFresh, Fresh
<1>8. CASE Dropped(w)     BY <1>8 DEF Dropped
<1> QED BY <1>1, <1>2, <1>3, <1>4, <1>5, <1>6, <1>7, <1>8 DEF WorkerStep

LEMMA PlayerSteps ==
    ASSUME PhoneInv, NEW q \in Players, PlayerStep(q)
    PROVE  PhoneInv'
<1> USE DEF PhoneInv, PhoneTypeOK, PlayerPlaces, HolderTold, Voicing, InWorld, PlayerAt,
            session, scheduler
<1>1. CASE RequestIfDue(q)
  BY <1>1, Requesting DEF RequestIfDue
<1>2. CASE WorldWaits(q)    BY <1>2 DEF WorldWaits
<1>3. CASE WorldTakes(q)    BY <1>3 DEF WorldTakes
<1>4. CASE WorldGivesUp(q)  BY <1>4 DEF WorldGivesUp
<1>5. CASE WorldRefused(q)  BY <1>5 DEF WorldRefused
<1>6. CASE WorldLetsGo(q)   BY <1>6 DEF WorldLetsGo
<1>7. CASE WorldAsks(q)     BY <1>7, Requesting DEF WorldAsks
<1>8. ASSUME NEW faulty, WorldBegins(q, faulty) PROVE PhoneInv'
  BY <1>8 DEF WorldBegins
<1>9. ASSUME NEW due, NEW leave, WorldEnds(q, due, leave) PROVE PhoneInv'
  BY <1>9 DEF WorldEnds
<1>10. ASSUME NEW due, NEW leave, NEW faulty, PhoneAction(q, faulty, due, leave)
       PROVE  PhoneInv'
  BY <1>10 DEF PhoneAction
<1> QED BY <1>1, <1>2, <1>3, <1>4, <1>5, <1>6, <1>7, <1>8, <1>9, <1>10 DEF PlayerStep

LEMMA StepInv == PhoneInv /\ [PhoneNext]_phoneVars => PhoneInv'
<1> SUFFICES ASSUME PhoneInv, [PhoneNext]_phoneVars PROVE PhoneInv'
  OBVIOUS
<1> USE DEF session, scheduler
<1>1. CASE \E w \in Workers : Calls(w) \/ WorkerStep(w)
  BY <1>1, CallSteps, WorkerSteps
<1>2. CASE \E q \in Players : PlayerStep(q)
  BY <1>2, PlayerSteps
<1>3. CASE Join
  <2>1. PhoneTypeOK BY DEF PhoneInv
  <2> QED BY <1>3, <2>1, Requesting DEF Join, PhoneInv, PhoneTypeOK, HolderTold
<1>4. CASE Overflow  BY <1>4 DEF Overflow, PhoneInv, PhoneTypeOK, HolderTold
<1>5. CASE Judge     BY <1>5, NothingMoves DEF Judge, inside
<1>6. CASE TakeOut   BY <1>6 DEF TakeOut, PhoneInv, PhoneTypeOK, HolderTold
<1>7. CASE Fire      BY <1>7, NothingMoves DEF Fire, inside
<1>8. CASE Release   BY <1>8, NothingMoves DEF Release, inside
<1>9. CASE UNCHANGED phoneVars
  BY <1>9, NothingMoves DEF phoneVars, inside
<1> QED BY <1>1, <1>2, <1>3, <1>4, <1>5, <1>6, <1>7, <1>8, <1>9 DEF PhoneNext

(* Every variable the turnstile and the scheduler keep has its type, and a  *)
(* run has one pass at most that is queued or in flight (voicer.py,         *)
(* request, _next, _after).                                                 *)
THEOREM PhoneTypes == PhoneSpec => []PhoneTypeOK
<1>1. PhoneInv => PhoneTypeOK BY DEF PhoneInv
<1> QED BY <1>1, InitInv, StepInv, PTL DEF PhoneSpec

(* One player's world turn and their voicing pass never both ask for a      *)
(* narration ticket (turnstile.py, voicer.py, run_pass).                    *)
THEOREM OneNarrationHolds == PhoneSpec => []OneNarration
<1>1. PhoneInv => OneNarration
  BY DEF PhoneInv, HolderTold, OneNarration, Voicing, InWorld
<1> QED BY <1>1, InitInv, StepInv, PTL DEF PhoneSpec

----------------------------------------------------------------------------
(* A request is kept: from the request to the pass that serves it, through  *)
(* a pass that is called off, too busy, deferred, tired or dropped.         *)
PassState ==
    [attempts : Nat, rerun : BOOLEAN, cancelled : BOOLEAN, progressed : BOOLEAN,
     people : SUBSET People, parked : SUBSET Messages]

PassesTyped ==
    /\ pass \in [Passes -> PassState]
    /\ alive \in BOOLEAN /\ asked \in BOOLEAN /\ again \in BOOLEAN
    /\ calloff \in [at : {"idle", "judged", "out"}, of : SUBSET Passes]

(* A pass is queued, in flight, being dropped, or nobody's; a thread at     *)
(* work has the one in flight.                                              *)
AtWork(w) == worker[w].at \notin {"idle", "drop"}
PassesApart ==
    /\ \A w \in Workers :
          /\ worker[w].at = "idle" => worker[w].pass = 0
          /\ worker[w].at = "drop" => worker[w].pass \notin {0, flying}
          /\ AtWork(w) => worker[w].pass = flying /\ flying # 0
          /\ queue # 0 => worker[w].pass # queue
    /\ \A w, v \in Workers : worker[w].pass = worker[v].pass => w = v \/ worker[w].pass = 0

(* Only a pass some thread has is cancelled; a thread that saw its pass     *)
(* called off ends as called off.  Nothing asked outlives a cancel, which   *)
(* leaves nothing in the queue that it is about to fire.                    *)
CancelsTold ==
    /\ \A p \in Passes : pass[p].cancelled => \E w \in Workers : worker[w].pass = p
    /\ \A w \in Workers :
          worker[w].pass # 0 /\ worker[w].outcome = "cancelled" /\ alive =>
              pass[worker[w].pass].cancelled
    /\ calloff.at # "idle" => ~asked
    /\ calloff.at = "out" => queue \notin calloff.of

ApartInv == PhoneInv /\ PassesTyped /\ PassesApart
KeptInv == CancelsTold /\ RequestKept

(* A window of the code left out where RequestKept is asked: a cancel, once *)
(* begun, is over before anybody else moves.                                *)
CancelAtOnce == calloff.at # "idle" => TakeOut \/ Fire

(* What each step is shown to do. *)
Keeps == PassesTyped' /\ PassesApart' /\ (KeptInv /\ CancelAtOnce => KeptInv')

(* What it reads. *)
requesting == <<alive, scheduler, pass, worker, calloff>>

LEMMA RequestInit == PhoneInit => ApartInv /\ KeptInv
<1> SUFFICES ASSUME PhoneInit PROVE ApartInv /\ KeptInv
  OBVIOUS
<1>1. PhoneInv
  BY InitInv
<1>2. NewPass \in PassState
  BY DEF NewPass, PassState
<1>3. PassesTyped
  BY <1>2 DEF PhoneInit, PassesTyped
<1>4. \A w \in Workers : worker[w] = Resting
  BY DEF PhoneInit
<1>5. PassesApart /\ CancelsTold /\ RequestKept
  BY <1>4 DEF PhoneInit, PassesApart, AtWork, CancelsTold, RequestKept, Resting, NewPass
<1> QED BY <1>1, <1>3, <1>5 DEF ApartInv, KeptInv

LEMMA NothingAsked ==
    ASSUME ApartInv, UNCHANGED requesting
    PROVE  Keeps
<1>1. PassesTyped' /\ PassesApart'
  BY DEF ApartInv, PassesTyped, PassesApart, AtWork, requesting, scheduler
<1>2. ASSUME KeptInv PROVE KeptInv'
  BY <1>2 DEF KeptInv, CancelsTold, RequestKept, requesting, scheduler
<1> QED BY <1>1, <1>2 DEF Keeps

(* While the cancel stands as it did, there is none. *)
LEMMA NoCancel ==
    ASSUME ApartInv, CancelAtOnce, UNCHANGED calloff
    PROVE  calloff.at = "idle"
<1>1. ~TakeOut
  BY DEF TakeOut, ApartInv, PassesTyped
<1>2. ~Fire
  BY DEF Fire, ApartInv, PassesTyped
<1> QED BY <1>1, <1>2 DEF CancelAtOnce

(* A thread goes on within its pass, and may note something on it. *)
LEMMA PassGoesOn ==
    ASSUME ApartInv, NEW w \in Workers, AtWork(w),
           NEW r \in WorkerState, r.at \notin {"idle", "drop"}, r.pass = worker[w].pass,
           worker' = [worker EXCEPT ![w] = r],
           r.outcome = "cancelled" => worker[w].outcome = "cancelled" \/ ~Live(w),
           NEW s \in PassState, s.cancelled = pass[worker[w].pass].cancelled,
           pass[worker[w].pass].rerun => s.rerun,
           pass' = [pass EXCEPT ![worker[w].pass] = s],
           UNCHANGED <<alive, scheduler, calloff>>
    PROVE  Keeps
<1>1. worker \in [Workers -> WorkerState] /\ pass \in [Passes -> PassState]
  BY DEF ApartInv, PhoneInv, PhoneTypeOK, PassesTyped
<1>2. /\ worker[w].pass = flying /\ flying # 0 /\ flying \in Passes /\ queue \in Passes \cup {0}
      /\ queue = 0
  BY DEF ApartInv, PassesApart, PhoneInv, PhoneTypeOK
<1>3. \A v \in Workers : worker'[v].pass = worker[v].pass
  BY <1>1
<1>4. \A p \in Passes : pass'[p].cancelled = pass[p].cancelled /\ (pass[p].rerun => pass'[p].rerun)
  BY <1>1, <1>2
<1>5. PassesTyped'
  BY <1>1 DEF ApartInv, PassesTyped, scheduler
<1>6. PassesApart'
  <2>1. \A v \in Workers \ {w} : worker'[v] = worker[v]
    BY <1>1
  <2>2. worker'[w] = r
    BY <1>1
  <2> QED BY <1>2, <1>3, <2>1, <2>2 DEF ApartInv, PassesApart, AtWork, scheduler
<1>7. ASSUME KeptInv PROVE CancelsTold'
  <2>1. \A p \in Passes : pass'[p].cancelled => \E v \in Workers : worker'[v].pass = p
    BY <1>7, <1>3, <1>4 DEF ApartInv, KeptInv, CancelsTold
  <2>2. ASSUME NEW v \in Workers, worker'[v].pass # 0, worker'[v].outcome = "cancelled", alive'
        PROVE  pass'[worker'[v].pass].cancelled
    <3>1. worker[v].pass \in Passes
      BY <1>1, <1>3, <2>2 DEF WorkerState
    <3>2. CASE v = w
      BY <1>7, <1>1, <1>2, <1>4, <2>2, <3>1, <3>2
         DEF ApartInv, KeptInv, CancelsTold, Live, scheduler
    <3>3. CASE v # w
      BY <1>7, <1>1, <1>3, <1>4, <2>2, <3>1, <3>3 DEF ApartInv, KeptInv, CancelsTold
    <3> QED BY <3>2, <3>3
  <2> QED BY <1>7, <2>1, <2>2 DEF ApartInv, KeptInv, CancelsTold, scheduler
<1>8. ASSUME KeptInv PROVE RequestKept'
  BY <1>8, <1>2, <1>4 DEF ApartInv, KeptInv, RequestKept, scheduler
<1> QED BY <1>5, <1>6, <1>7, <1>8 DEF Keeps, KeptInv

(* ... or notes nothing. *)
LEMMA ThreadGoesOn ==
    ASSUME ApartInv, NEW w \in Workers, AtWork(w),
           NEW r \in WorkerState, r.at \notin {"idle", "drop"}, r.pass = worker[w].pass,
           worker' = [worker EXCEPT ![w] = r],
           r.outcome = "cancelled" => worker[w].outcome = "cancelled" \/ ~Live(w),
           UNCHANGED <<alive, scheduler, pass, calloff>>
    PROVE  Keeps
<1>1. pass \in [Passes -> PassState] /\ worker[w].pass \in Passes
  BY DEF ApartInv, PassesTyped, PassesApart, PhoneInv, PhoneTypeOK
<1>2. PICK s \in PassState : s = pass[worker[w].pass]
  BY <1>1
<1>3. pass' = [pass EXCEPT ![worker[w].pass] = s]
  BY <1>1, <1>2
<1> QED BY <1>2, <1>3, PassGoesOn

(* A request is told to the pass queued or in flight, or makes a new one. *)
LEMMA RequestKeeps ==
    ASSUME ApartInv, Request, UNCHANGED <<alive, worker, calloff>>
    PROVE  Keeps
<1>1. /\ pass \in [Passes -> PassState] /\ worker \in [Workers -> WorkerState]
      /\ flying \in Passes \cup {0} /\ queue \in Passes \cup {0}
  BY DEF ApartInv, PassesTyped, PhoneInv, PhoneTypeOK
<1>2. asked' = TRUE /\ flying' = flying
  BY DEF Request
<1>3. CASE queue # 0
  <2>1. UNCHANGED <<queue, again, pass>>
    BY <1>3 DEF Request
  <2>2. PassesTyped' /\ PassesApart'
    BY <1>2, <2>1 DEF ApartInv, PassesTyped, PassesApart, AtWork
  <2>3. ASSUME KeptInv, calloff.at = "idle" PROVE KeptInv'
    <3>1. ~pass[queue].cancelled
      BY <1>1, <1>3, <2>3 DEF ApartInv, PassesApart, KeptInv, CancelsTold
    <3> QED BY <1>2, <1>3, <2>1, <2>3, <3>1 DEF KeptInv, CancelsTold, RequestKept
  <2> QED BY <2>2, <2>3, NoCancel DEF Keeps
<1>4. CASE queue = 0 /\ flying # 0 /\ pass[flying].cancelled
  <2>1. again' = TRUE /\ UNCHANGED <<queue, pass>>
    BY <1>4 DEF Request
  <2>2. PassesTyped' /\ PassesApart'
    BY <1>2, <2>1 DEF ApartInv, PassesTyped, PassesApart, AtWork
  <2>3. ASSUME KeptInv, calloff.at = "idle" PROVE KeptInv'
    BY <1>2, <1>4, <2>1, <2>3 DEF KeptInv, CancelsTold, RequestKept
  <2> QED BY <2>2, <2>3, NoCancel DEF Keeps
<1>5. CASE queue = 0 /\ flying # 0 /\ ~pass[flying].cancelled
  <2>1. pass' = [pass EXCEPT ![flying].rerun = TRUE] /\ UNCHANGED <<queue, again>>
    BY <1>5 DEF Request
  <2>2. PICK s \in PassState : s = [pass[flying] EXCEPT !.rerun = TRUE]
    BY <1>1, <1>5 DEF PassState
  <2>3. pass' = [pass EXCEPT ![flying] = s] /\ s.rerun /\ s.cancelled = pass[flying].cancelled
    BY <1>1, <1>5, <2>1, <2>2 DEF PassState
  <2>4. PassesTyped'
    BY <1>1, <1>2, <2>1, <2>3 DEF ApartInv, PassesTyped
  <2>5. \A p \in Passes : pass'[p].cancelled = pass[p].cancelled
    BY <1>1, <2>3
  <2>6. PassesApart'
    BY <1>2, <2>1 DEF ApartInv, PassesApart, AtWork
  <2>7. ASSUME KeptInv, calloff.at = "idle" PROVE CancelsTold'
    BY <2>7, <1>1, <1>2, <2>1, <2>5 DEF ApartInv, KeptInv, CancelsTold, WorkerState
  <2>8. ASSUME KeptInv, calloff.at = "idle" PROVE RequestKept'
    BY <2>8, <1>1, <1>2, <1>5, <2>3 DEF RequestKept
  <2> QED BY <2>4, <2>6, <2>7, <2>8, NoCancel DEF Keeps, KeptInv
<1>6. CASE queue = 0 /\ flying = 0
  <2>1. /\ Fresh # {} /\ queue' = AFresh /\ again' = again
        /\ pass' = [pass EXCEPT ![AFresh] = NewPass]
    BY <1>6 DEF Request
  <2>2. PICK f : f = AFresh
    OBVIOUS
  <2>3. f \in Passes /\ f \notin Referred
    BY <2>1, <2>2 DEF AFresh, Fresh
  <2>4. \A w \in Workers : worker[w].pass # f
    BY <2>3 DEF Referred
  <2>5. NewPass \in PassState /\ ~NewPass.cancelled
    BY DEF NewPass, PassState
  <2>6. pass' = [pass EXCEPT ![f] = NewPass] /\ queue' = f /\ f # 0
    BY <2>1, <2>2, <2>3
  <2>7. PassesTyped'
    BY <1>1, <1>2, <2>1, <2>3, <2>5, <2>6 DEF ApartInv, PassesTyped
  <2>8. PassesApart'
    BY <1>2, <2>4, <2>6 DEF ApartInv, PassesApart, AtWork
  <2>9. ASSUME KeptInv, calloff.at = "idle" PROVE CancelsTold'
    BY <2>9, <1>1, <1>2, <2>4, <2>5, <2>6 DEF ApartInv, KeptInv, CancelsTold, WorkerState
  <2>10. ASSUME KeptInv, calloff.at = "idle" PROVE RequestKept'
    BY <2>10, <1>1, <2>3, <2>5, <2>6 DEF RequestKept
  <2> QED BY <2>7, <2>8, <2>9, <2>10, NoCancel DEF Keeps, KeptInv
<1> QED BY <1>3, <1>4, <1>5, <1>6

----------------------------------------------------------------------------
(* A thread that voices keeps what was asked, whatever it does.             *)
LEMMA GoesTo ==
    ASSUME ApartInv, NEW w \in Workers, AtWork(w),
           NEW place \in WorkerPlaces \ {"idle", "drop"}, GoTo(w, place),
           UNCHANGED <<alive, scheduler, pass, calloff>>
    PROVE  Keeps
<1>1. worker \in [Workers -> WorkerState]
  BY DEF ApartInv, PhoneInv, PhoneTypeOK
<1>2. PICK r \in WorkerState : r = [worker[w] EXCEPT !.at = place]
  BY <1>1 DEF WorkerState
<1>3. r.at = place /\ r.pass = worker[w].pass /\ r.outcome = worker[w].outcome
  BY <1>1, <1>2 DEF WorkerState
<1>4. worker' = [worker EXCEPT ![w] = r]
  BY <1>1, <1>2 DEF GoTo, WorkerState
<1> QED BY <1>3, <1>4, ThreadGoesOn

LEMMA EndsPass ==
    ASSUME ApartInv, NEW w \in Workers, AtWork(w),
           NEW outcome \in {"ok", "busy", "deferred", "cancelled", "failed"},
           EndsAs(w, outcome), outcome = "cancelled" => ~Live(w),
           UNCHANGED <<alive, scheduler, pass, calloff>>
    PROVE  Keeps
<1>1. worker \in [Workers -> WorkerState]
  BY DEF ApartInv, PhoneInv, PhoneTypeOK
<1>2. PICK r \in WorkerState :
         r = [worker[w] EXCEPT !.at = "clear", !.outcome = outcome, !.words = {}]
  BY <1>1 DEF WorkerState, WorkerPlaces
<1>3. r.at = "clear" /\ r.pass = worker[w].pass /\ r.outcome = outcome
  BY <1>1, <1>2 DEF WorkerState
<1>4. worker' = [worker EXCEPT ![w] = r]
  BY <1>1, <1>2 DEF EndsAs, WorkerState
<1> QED BY <1>3, <1>4, ThreadGoesOn

(* A recap, had or not, says how the pass ends. *)
LEMMA RecapsAs ==
    ASSUME ApartInv, NEW w \in Workers, AtWork(w), NEW outcome \in {"ok", "deferred"},
           worker' = [worker EXCEPT ![w].at = "overdue", ![w].outcome = outcome],
           UNCHANGED <<alive, scheduler, pass, calloff>>
    PROVE  Keeps
<1>1. worker \in [Workers -> WorkerState]
  BY DEF ApartInv, PhoneInv, PhoneTypeOK
<1>2. PICK r \in WorkerState : r = [worker[w] EXCEPT !.at = "overdue", !.outcome = outcome]
  BY <1>1 DEF WorkerState, WorkerPlaces
<1>3. r.at = "overdue" /\ r.pass = worker[w].pass /\ r.outcome = outcome
  BY <1>1, <1>2 DEF WorkerState
<1>4. worker' = [worker EXCEPT ![w] = r]
  BY <1>1, <1>2 DEF WorkerState
<1> QED BY <1>3, <1>4, ThreadGoesOn

(* A call that is over notes on its pass what it left to do. *)
LEMMA VoicedKeeps ==
    ASSUME ApartInv, NEW w \in Workers, worker[w].at = "call", Voiced(w),
           NEW s \in PassState, s.cancelled = pass[worker[w].pass].cancelled,
           pass[worker[w].pass].rerun => s.rerun,
           pass' = [pass EXCEPT ![worker[w].pass] = s],
           UNCHANGED <<alive, scheduler, calloff>>
    PROVE  Keeps
<1>1. worker \in [Workers -> WorkerState] /\ AtWork(w)
  BY DEF ApartInv, PhoneInv, PhoneTypeOK, AtWork
<1>2. worker[w].calls + 1 \in Nat
  BY <1>1 DEF WorkerState
<1>3. PICK r \in WorkerState :
         r = [worker[w] EXCEPT !.at = "next", !.calls = worker[w].calls + 1, !.words = {}]
  BY <1>1, <1>2 DEF WorkerState, WorkerPlaces
<1>4. r.at = "next" /\ r.pass = worker[w].pass /\ r.outcome = worker[w].outcome
  BY <1>1, <1>3 DEF WorkerState
<1>5. worker' = [worker EXCEPT ![w] = r]
  BY <1>1, <1>3 DEF Voiced, WorkerState
<1> QED BY <1>1, <1>4, <1>5, PassGoesOn

LEMMA SnapshotKeeps ==
    ASSUME ApartInv, NEW w \in Workers, NEW faulty, Snapshot(w, faulty)
    PROVE  Keeps
<1> DEFINE msgs == Drained(faulty)
           due == Voiceable(msgs)
<1>1. PICK p : p = worker[w].pass
  OBVIOUS
<1>2. PICK earlier \in BOOLEAN : earlier = (\E m \in due : PersonOf[m] \in pass[p].people)
  OBVIOUS
<1>3. worker \in [Workers -> WorkerState] /\ pass \in [Passes -> PassState]
  BY DEF ApartInv, PhoneInv, PhoneTypeOK, PassesTyped
<1>4. AtWork(w) /\ p \in Passes /\ p = flying
  BY <1>1, <1>3 DEF Snapshot, AtWork, ApartInv, PassesApart, PhoneInv, PhoneTypeOK
<1>5. UNCHANGED <<alive, scheduler, calloff>>
  BY DEF Snapshot
<1>6. due \subseteq Messages
  BY DEF Voiceable, Unmarked
<1>7. pass[p] \in PassState
  BY <1>3, <1>4
<1> HIDE DEF due, msgs
<1>8. CASE ~DueBeyond(p, Drained(faulty))
  <2>1. pass' = [pass EXCEPT ![p].rerun = @ \/ earlier] /\ GoTo(w, "recap")
    BY <1>1, <1>2, <1>8 DEF Snapshot, due, msgs
  <2>2. PICK s \in PassState : s = [pass[p] EXCEPT !.rerun = pass[p].rerun \/ earlier]
    BY <1>7 DEF PassState
  <2>3. s.cancelled = pass[p].cancelled /\ (pass[p].rerun => s.rerun)
    BY <1>7, <2>2 DEF PassState
  <2>4. pass' = [pass EXCEPT ![p] = s]
    BY <1>3, <1>4, <2>1, <2>2
  <2>5. PICK r \in WorkerState : r = [worker[w] EXCEPT !.at = "recap"]
    BY <1>3 DEF WorkerState, WorkerPlaces
  <2>6. r.at = "recap" /\ r.pass = p /\ r.outcome = worker[w].outcome
    BY <1>1, <1>3, <2>5 DEF WorkerState
  <2>7. worker' = [worker EXCEPT ![w] = r]
    BY <1>3, <2>1, <2>5 DEF GoTo, WorkerState
  <2> QED BY <1>1, <1>4, <1>5, <2>3, <2>4, <2>6, <2>7, PassGoesOn
<1>9. CASE DueBeyond(p, Drained(faulty))
  <2>1. PICK who \in People :
           /\ worker' = [worker EXCEPT ![w].at = "call", ![w].words = {m \in due : PersonOf[m] = who}]
           /\ pass' = [pass EXCEPT ![p].people = @ \cup {who}, ![p].rerun = @ \/ earlier]
    BY <1>1, <1>2, <1>9 DEF Snapshot, due, msgs
  <2>2. PICK words \in SUBSET Messages : words = {m \in due : PersonOf[m] = who}
    BY <1>6
  <2>3. pass[p].people \cup {who} \in SUBSET People
    BY <1>7 DEF PassState
  <2>4. PICK s \in PassState : s = [pass[p] EXCEPT !.people = pass[p].people \cup {who},
                                                  !.rerun = pass[p].rerun \/ earlier]
    BY <1>7, <2>3 DEF PassState
  <2>5. s.cancelled = pass[p].cancelled /\ (pass[p].rerun => s.rerun)
    BY <1>7, <2>4 DEF PassState
  <2>6. pass' = [pass EXCEPT ![p] = s]
    BY <1>3, <1>4, <2>1, <2>4
  <2>7. PICK r \in WorkerState : r = [worker[w] EXCEPT !.at = "call", !.words = words]
    BY <1>3 DEF WorkerState, WorkerPlaces
  <2>8. r.at = "call" /\ r.pass = p /\ r.outcome = worker[w].outcome
    BY <1>1, <1>3, <2>7 DEF WorkerState
  <2>9. worker' = [worker EXCEPT ![w] = r]
    BY <1>3, <2>1, <2>2, <2>7 DEF WorkerState
  <2> QED BY <1>1, <1>4, <1>5, <2>5, <2>6, <2>8, <2>9, PassGoesOn
<1> QED BY <1>8, <1>9

LEMMA CallsKeep ==
    ASSUME ApartInv, NEW w \in Workers, Calls(w)
    PROVE  Keeps
<1> USE DEF AtWork, WorkerPlaces, session
<1>1. CASE LookTaken(w)
  <2>1. CASE Live(w)   BY <1>1, <2>1, GoesTo DEF LookTaken
  <2>2. CASE ~Live(w)  BY <1>1, <2>2, EndsPass DEF LookTaken
  <2> QED BY <2>1, <2>2
<1>2. CASE Admitted(w)
  <2>1. CASE GoTo(w, "snap")
    BY <1>2, <2>1, GoesTo DEF Admitted
  <2>2. CASE Live(w) /\ EndsAs(w, "busy")
    BY <1>2, <2>2, EndsPass DEF Admitted
  <2>3. CASE ~Live(w) /\ EndsAs(w, "cancelled")
    BY <1>2, <2>3, EndsPass DEF Admitted
  <2> QED BY <1>2, <2>1, <2>2, <2>3 DEF Admitted
<1>3. CASE SnapshotTaken(w)
  <2>1. CASE Live(w)   BY <1>3, <2>1, EndsPass DEF SnapshotTaken
  <2>2. CASE ~Live(w)  BY <1>3, <2>2, EndsPass DEF SnapshotTaken
  <2> QED BY <2>1, <2>2
<1>4. ASSUME NEW faulty, LookFirst(w, faulty) PROVE Keeps
  <2>1. CASE GoTo(w, "admit")  BY <1>4, <2>1, GoesTo DEF LookFirst
  <2>2. CASE GoTo(w, "recap")  BY <1>4, <2>2, GoesTo DEF LookFirst
  <2> QED BY <1>4, <2>1, <2>2 DEF LookFirst
<1>5. ASSUME NEW faulty, Snapshot(w, faulty) PROVE Keeps
  BY <1>5, SnapshotKeeps
<1>6. pass \in [Passes -> PassState] /\ worker \in [Workers -> WorkerState]
  BY DEF ApartInv, PassesTyped, PhoneInv, PhoneTypeOK
<1>7. ASSUME worker[w].at = "call" PROVE worker[w].pass \in Passes
  BY <1>7 DEF ApartInv, PassesApart, PhoneInv, PhoneTypeOK
<1>8. ASSUME NEW more, Commit(w, more) PROVE Keeps
  <2>1. PICK p \in Passes : p = worker[w].pass
    BY <1>7, <1>8 DEF Commit
  <2>2. PICK told \in BOOLEAN : told = (more # {})
    OBVIOUS
  <2>3. PICK s \in PassState : s = [pass[p] EXCEPT !.progressed = TRUE, !.rerun = pass[p].rerun \/ told]
    BY <1>6 DEF PassState
  <2>4. s.cancelled = pass[p].cancelled /\ (pass[p].rerun => s.rerun)
    BY <1>6, <2>3 DEF PassState
  <2>5. pass' = [pass EXCEPT ![p].progressed = TRUE, ![p].rerun = @ \/ told]
    BY <1>8, <2>1, <2>2 DEF Commit
  <2>6. pass' = [pass EXCEPT ![p] = s]
    BY <1>6, <2>3, <2>5
  <2>7. worker[w].at = "call" /\ Voiced(w) /\ UNCHANGED <<alive, scheduler, calloff>>
    BY <1>8 DEF Commit
  <2> QED BY <2>1, <2>4, <2>6, <2>7, VoicedKeeps
<1>9. CASE Park(w)
  <2>1. PICK p \in Passes : p = worker[w].pass
    BY <1>7, <1>9 DEF Park
  <2>2. PICK words \in SUBSET Messages : words = worker[w].words
    BY <1>6 DEF WorkerState
  <2>3. pass[p].parked \cup words \in SUBSET Messages
    BY <1>6 DEF PassState
  <2>4. PICK s \in PassState : s = [pass[p] EXCEPT !.parked = pass[p].parked \cup words, !.rerun = TRUE]
    BY <1>6, <2>3 DEF PassState
  <2>5. s.cancelled = pass[p].cancelled /\ s.rerun
    BY <1>6, <2>4 DEF PassState
  <2>6. pass' = [pass EXCEPT ![p].parked = @ \cup words, ![p].rerun = TRUE]
    BY <1>9, <2>1, <2>2 DEF Park
  <2>7. pass' = [pass EXCEPT ![p] = s]
    BY <1>6, <2>4, <2>6
  <2>8. worker[w].at = "call" /\ Voiced(w) /\ UNCHANGED <<alive, scheduler, calloff>>
    BY <1>9 DEF Park
  <2> QED BY <2>1, <2>5, <2>7, <2>8, VoicedKeeps
<1>10. CASE Discard(w)    BY <1>10, EndsPass DEF Discard
<1>11. CASE PassFails(w)  BY <1>11, EndsPass DEF PassFails
<1>12. CASE RecapEnds(w)  BY <1>12, RecapsAs DEF RecapEnds
<1> QED BY <1>1, <1>2, <1>3, <1>4, <1>5, <1>8, <1>9, <1>10, <1>11, <1>12 DEF Calls

LEMMA ClearsKeep ==
    ASSUME ApartInv, NEW w \in Workers, ClearMarks(w)
    PROVE  Keeps
<1>1. worker \in [Workers -> WorkerState]
  BY DEF ApartInv, PhoneInv, PhoneTypeOK
<1>2. PICK r \in WorkerState : r = [worker[w] EXCEPT !.at = "after", !.calls = 0]
  BY <1>1 DEF WorkerState, WorkerPlaces
<1>3. r.at = "after" /\ r.pass = worker[w].pass /\ r.outcome = worker[w].outcome
  BY <1>1, <1>2 DEF WorkerState
<1>4. worker' = [worker EXCEPT ![w] = r]
  BY <1>1, <1>2 DEF ClearMarks, WorkerState
<1>5. AtWork(w) /\ UNCHANGED <<alive, scheduler, pass, calloff>>
  BY DEF ClearMarks, AtWork
<1> QED BY <1>3, <1>4, <1>5, ThreadGoesOn

LEMMA FinishKeeps ==
    ASSUME ApartInv, NEW w \in Workers, Finish(w)
    PROVE  Keeps
<1>1. worker \in [Workers -> WorkerState] /\ pass \in [Passes -> PassState]
  BY DEF ApartInv, PhoneInv, PhoneTypeOK, PassesTyped
<1>2. AtWork(w) /\ GoTo(w, "clear") /\ UNCHANGED <<alive, scheduler, calloff>>
  BY DEF Finish, AtWork, session
<1>3. PICK p \in Passes : p = worker[w].pass
  BY <1>2 DEF ApartInv, PassesApart, PhoneInv, PhoneTypeOK
<1>4. CASE UNCHANGED pass
  BY <1>2, <1>4, GoesTo DEF WorkerPlaces
<1>5. CASE pass' # pass
  <2>1. PICK more \in BOOLEAN : pass' = [pass EXCEPT ![p].rerun = @ \/ more]
    <3>1. PICK recapped \in BOOLEAN :
             pass' = [pass EXCEPT ![p].rerun = @ \/ ((worker[w].calls = MaxPerPass \/ recapped)
                                                      /\ Voiceable(Phone) # {})]
      BY <1>3, <1>5 DEF Finish
    <3>2. PICK more \in BOOLEAN : more = ((worker[w].calls = MaxPerPass \/ recapped)
                                           /\ Voiceable(Phone) # {})
      OBVIOUS
    <3> QED BY <3>1, <3>2
  <2>2. PICK s \in PassState : s = [pass[p] EXCEPT !.rerun = pass[p].rerun \/ more]
    BY <1>1 DEF PassState
  <2>3. s.cancelled = pass[p].cancelled /\ (pass[p].rerun => s.rerun)
    BY <1>1, <2>2 DEF PassState
  <2>4. pass' = [pass EXCEPT ![p] = s]
    BY <1>1, <2>1, <2>2
  <2>5. PICK r \in WorkerState : r = [worker[w] EXCEPT !.at = "clear"]
    BY <1>1 DEF WorkerState, WorkerPlaces
  <2>6. r.at = "clear" /\ r.pass = p /\ r.outcome = worker[w].outcome
    BY <1>1, <1>3, <2>5 DEF WorkerState
  <2>7. worker' = [worker EXCEPT ![w] = r]
    BY <1>1, <1>2, <2>5 DEF GoTo, WorkerState
  <2> QED BY <1>2, <1>3, <2>3, <2>4, <2>6, <2>7, PassGoesOn
<1> QED BY <1>4, <1>5

(* A pass begins: what was asked is what it is for. *)
LEMMA BeginKeeps ==
    ASSUME ApartInv, NEW w \in Workers, Begin(w)
    PROVE  Keeps
<1>1. /\ worker \in [Workers -> WorkerState] /\ pass \in [Passes -> PassState]
      /\ queue \in Passes /\ flying = 0
  BY DEF ApartInv, PhoneInv, PhoneTypeOK, PassesTyped, Begin
<1>2. PICK p \in Passes : p = queue
  BY <1>1
<1>3. p # 0 /\ \A v \in Workers : worker[v].pass # p
  BY <1>2 DEF Begin, ApartInv, PassesApart
<1>4. asked \in BOOLEAN /\ pass[p].cancelled \in BOOLEAN
  BY <1>1 DEF ApartInv, PassesTyped, PassState
<1>5. /\ flying' = p /\ queue' = 0 /\ asked' = (asked /\ pass[p].cancelled)
      /\ UNCHANGED <<alive, pass, again, calloff>>
  BY <1>2 DEF Begin, session
<1>6. worker'[w] = [Resting EXCEPT !.at = "next", !.pass = p]
  BY <1>1, <1>2 DEF Begin
<1>7. worker'[w].at = "next" /\ worker'[w].pass = p /\ worker'[w].outcome = "ok"
  BY <1>6 DEF Resting
<1>8. \A v \in Workers \ {w} : worker'[v] = worker[v]
  BY <1>1 DEF Begin
<1>9. worker[w].pass = 0
  BY DEF Begin, ApartInv, PassesApart
<1>10. PassesTyped'
  BY <1>4, <1>5 DEF ApartInv, PassesTyped
<1>11. PassesApart'
  <2>1. ASSUME NEW v \in Workers
        PROVE  /\ worker'[v].at = "idle" => worker'[v].pass = 0
               /\ worker'[v].at = "drop" => worker'[v].pass \notin {0, flying'}
               /\ worker'[v].at \notin {"idle", "drop"} => worker'[v].pass = flying' /\ flying' # 0
               /\ queue' # 0 => worker'[v].pass # queue'
    <3>1. CASE v = w
      BY <1>3, <1>5, <1>7, <3>1
    <3>2. CASE v # w
      <4>1. worker'[v] = worker[v] /\ worker[v].pass # p
        BY <1>3, <1>8, <3>2
      <4> QED BY <1>1, <1>5, <4>1 DEF ApartInv, PassesApart, AtWork
    <3> QED BY <3>1, <3>2
  <2>2. \A v, u \in Workers : worker'[v].pass = worker'[u].pass => v = u \/ worker'[v].pass = 0
    BY <1>3, <1>7, <1>8 DEF ApartInv, PassesApart
  <2> QED BY <2>1, <2>2 DEF PassesApart, AtWork
<1>12. ASSUME KeptInv PROVE CancelsTold'
  <2>1. \A o \in Passes : pass'[o].cancelled => \E v \in Workers : worker'[v].pass = o
    <3>1. ASSUME NEW o \in Passes, pass[o].cancelled PROVE \E v \in Workers : worker'[v].pass = o
      <4>1. PICK v \in Workers : worker[v].pass = o
        BY <1>12, <3>1 DEF ApartInv, KeptInv, CancelsTold
      <4>2. v # w
        BY <1>1, <1>9, <4>1
      <4> QED BY <1>8, <4>1, <4>2
    <3> QED BY <1>5, <3>1
  <2>2. \A v \in Workers : worker'[v].pass # 0 /\ worker'[v].outcome = "cancelled" /\ alive'
                             => pass'[worker'[v].pass].cancelled
    BY <1>12, <1>5, <1>7, <1>8 DEF ApartInv, KeptInv, CancelsTold
  <2>3. calloff'.at = "out" => queue' \notin calloff'.of
    BY <1>5 DEF ApartInv, PassesTyped
  <2>4. calloff'.at # "idle" => ~asked'
    BY <1>5, <1>12 DEF KeptInv, CancelsTold
  <2> QED BY <2>1, <2>2, <2>3, <2>4 DEF CancelsTold
<1>13. ASSUME KeptInv PROVE RequestKept'
  <2>1. ~pass[p].cancelled
    BY <1>3, <1>13 DEF KeptInv, CancelsTold
  <2> QED BY <1>5, <2>1 DEF RequestKept
<1> QED BY <1>10, <1>11, <1>12, <1>13 DEF Keeps, KeptInv

(* The last of a pass dropped: it is nobody's, and nothing was asked of it. *)
LEMMA DroppedKeeps ==
    ASSUME ApartInv, NEW w \in Workers, Dropped(w)
    PROVE  Keeps
<1>1. worker \in [Workers -> WorkerState] /\ pass \in [Passes -> PassState]
  BY DEF ApartInv, PhoneInv, PhoneTypeOK, PassesTyped
<1>2. PICK p \in Passes : p = worker[w].pass
  BY <1>1 DEF Dropped, ApartInv, PassesApart, WorkerState
<1>3. /\ p # 0 /\ p # flying /\ p # queue
      /\ \A v \in Workers \ {w} : worker[v].pass # p
  BY <1>2 DEF Dropped, ApartInv, PassesApart
<1>4. UNCHANGED <<alive, scheduler, calloff>>
  BY DEF Dropped, FallBack, session
<1>5. pass' = [pass EXCEPT ![p] = NewPass] /\ worker' = [worker EXCEPT ![w] = Resting]
  BY <1>2 DEF Dropped, Forgotten
<1>6. worker'[w].at = "idle" /\ worker'[w].pass = 0
  BY <1>1, <1>5 DEF Resting
<1>7. \A v \in Workers \ {w} : worker'[v] = worker[v]
  BY <1>1, <1>5
<1>8. NewPass \in PassState /\ ~NewPass.cancelled
  BY DEF NewPass, PassState
<1>9. (\A o \in Passes \ {p} : pass'[o] = pass[o]) /\ ~pass'[p].cancelled
  BY <1>1, <1>5, <1>8
<1>10. PassesTyped'
  BY <1>4, <1>5, <1>8 DEF ApartInv, PassesTyped, scheduler
<1>11. PassesApart'
  BY <1>4, <1>6, <1>7 DEF ApartInv, PassesApart, AtWork, scheduler
<1>12. ASSUME KeptInv PROVE CancelsTold'
  <2>1. \A o \in Passes : pass'[o].cancelled => \E v \in Workers : worker'[v].pass = o
    BY <1>12, <1>2, <1>7, <1>9 DEF ApartInv, KeptInv, CancelsTold
  <2>2. ASSUME NEW v \in Workers, worker'[v].pass # 0, worker'[v].outcome = "cancelled", alive'
        PROVE  pass'[worker'[v].pass].cancelled
    <3>1. v # w /\ worker'[v] = worker[v]
      BY <1>6, <1>7, <2>2
    <3>2. worker[v].pass \in Passes \ {p}
      BY <1>1, <1>3, <2>2, <3>1 DEF WorkerState
    <3> QED BY <1>12, <1>4, <1>9, <2>2, <3>1, <3>2 DEF ApartInv, KeptInv, CancelsTold
  <2> QED BY <1>12, <1>4, <2>1, <2>2 DEF ApartInv, KeptInv, CancelsTold, scheduler
<1>13. ASSUME KeptInv PROVE RequestKept'
  <2>1. queue # 0 => pass'[queue] = pass[queue]
    BY <1>3, <1>9 DEF ApartInv, PhoneInv, PhoneTypeOK
  <2>2. flying # 0 => pass'[flying] = pass[flying]
    BY <1>3, <1>9 DEF ApartInv, PhoneInv, PhoneTypeOK
  <2> QED BY <1>13, <1>4, <2>1, <2>2 DEF ApartInv, KeptInv, RequestKept, scheduler
<1> QED BY <1>10, <1>11, <1>12, <1>13 DEF Keeps, KeptInv

----------------------------------------------------------------------------
(* A pass that ends: it is queued again, has a successor, or is let go.     *)
LEMMA PassLeaves ==
    ASSUME ApartInv, NEW w \in Workers, worker[w].at = "after",
           NEW p \in Passes, p = worker[w].pass,
           NEW k \in PassState, ~k.cancelled, pass' = [pass EXCEPT ![p] = k],
           NEW r \in WorkerState, worker' = [worker EXCEPT ![w] = r],
           (r.at = "idle" /\ r.pass = 0) \/ (r.at = "drop" /\ r.pass = p), r.outcome = "ok",
           NEW n \in Passes \cup {0}, queue' = n,
           n = 0 \/ r.at = "idle",
           n = 0 \/ n = p \/ \A v \in Workers : worker[v].pass # n,
           flying' = 0, again' = FALSE, asked' \in BOOLEAN, asked' => asked,
           KeptInv /\ calloff.at = "idle" /\ asked' /\ alive => n # 0,
           UNCHANGED <<alive, calloff>>
    PROVE  Keeps
<1>1. worker \in [Workers -> WorkerState] /\ pass \in [Passes -> PassState]
  BY DEF ApartInv, PhoneInv, PhoneTypeOK, PassesTyped
<1>2. p # 0 /\ \A v \in Workers \ {w} : worker[v].pass # p /\ ~AtWork(v)
  BY DEF AtWork, ApartInv, PassesApart
<1>3. worker'[w] = r /\ \A v \in Workers \ {w} : worker'[v] = worker[v]
  BY <1>1
<1>4. pass'[p] = k /\ \A o \in Passes \ {p} : pass'[o] = pass[o]
  BY <1>1
<1>5. PassesTyped'
  BY <1>1 DEF ApartInv, PassesTyped
<1>6. PassesApart'
  <2>1. ASSUME NEW v \in Workers
        PROVE  /\ worker'[v].at = "idle" => worker'[v].pass = 0
               /\ worker'[v].at = "drop" => worker'[v].pass \notin {0, flying'}
               /\ worker'[v].at \notin {"idle", "drop"} => worker'[v].pass = flying' /\ flying' # 0
               /\ queue' # 0 => worker'[v].pass # queue'
    <3>1. CASE v = w
      BY <1>2, <1>3, <3>1
    <3>2. CASE v # w
      <4>1. worker'[v] = worker[v] /\ worker[v].pass # p /\ worker[v].at \in {"idle", "drop"}
        BY <1>2, <1>3, <3>2 DEF AtWork
      <4> QED BY <4>1 DEF ApartInv, PassesApart
    <3> QED BY <3>1, <3>2
  <2>2. \A v, u \in Workers : worker'[v].pass = worker'[u].pass => v = u \/ worker'[v].pass = 0
    BY <1>2, <1>3 DEF ApartInv, PassesApart
  <2> QED BY <2>1, <2>2 DEF PassesApart, AtWork
<1>7. ASSUME KeptInv, calloff.at = "idle" PROVE CancelsTold'
  <2>1. ASSUME NEW o \in Passes, pass'[o].cancelled PROVE \E v \in Workers : worker'[v].pass = o
    <3>1. o # p /\ pass[o].cancelled
      BY <1>4, <2>1
    <3>2. PICK v \in Workers : worker[v].pass = o
      BY <1>7, <3>1 DEF ApartInv, KeptInv, CancelsTold
    <3> QED BY <1>3, <3>1, <3>2
  <2>2. ASSUME NEW v \in Workers, worker'[v].pass # 0, worker'[v].outcome = "cancelled", alive'
        PROVE  pass'[worker'[v].pass].cancelled
    <3>1. v # w /\ worker'[v] = worker[v]
      BY <1>3, <2>2
    <3>2. worker[v].pass \in Passes \ {p}
      BY <1>1, <1>2, <2>2, <3>1 DEF WorkerState
    <3> QED BY <1>7, <1>4, <2>2, <3>1, <3>2 DEF ApartInv, KeptInv, CancelsTold
  <2> QED BY <1>7, <2>1, <2>2 DEF CancelsTold
<1>8. ASSUME KeptInv, calloff.at = "idle" PROVE RequestKept'
  <2>1. ASSUME n # 0 PROVE ~pass'[n].cancelled
    <3>1. CASE n = p
      BY <1>4, <3>1
    <3>2. CASE n # p
      BY <1>8, <1>4, <2>1, <3>2 DEF ApartInv, KeptInv, CancelsTold
    <3> QED BY <3>1, <3>2
  <2> QED BY <1>8, <2>1 DEF RequestKept
<1> QED BY <1>5, <1>6, <1>7, <1>8, NoCancel DEF Keeps, KeptInv

(* A request that was made and not called off: the pass in flight was told. *)
LEMMA AfterKeeps ==
    ASSUME ApartInv, NEW w \in Workers, After(w)
    PROVE  Keeps
<1>1. worker \in [Workers -> WorkerState] /\ pass \in [Passes -> PassState]
  BY DEF ApartInv, PhoneInv, PhoneTypeOK, PassesTyped
<1>2. PICK p \in Passes : p = worker[w].pass
  BY DEF After, AtWork, ApartInv, PassesApart, PhoneInv, PhoneTypeOK
<1>3. flying = p /\ p # 0 /\ queue = 0 /\ worker[w].at = "after"
  BY <1>2 DEF After, AtWork, ApartInv, PassesApart, PhoneInv, PhoneTypeOK
<1>4. PICK me \in PassState : me = pass[p]
  BY <1>1
<1>5. PICK outcome \in {"ok", "busy", "deferred", "cancelled", "failed"} :
         outcome = worker[w].outcome
  BY <1>1 DEF WorkerState
<1>6. PICK live \in BOOLEAN :
         live = (outcome \in {"ok", "busy", "deferred"} /\ ~me.cancelled /\ alive)
  OBVIOUS
<1>7. PICK tired \in BOOLEAN :
         tired = (live /\ outcome = "busy" /\ ~me.progressed /\ me.attempts + 1 >= MaxAttempts)
  OBVIOUS
<1>8. /\ flying' = 0 /\ again' = FALSE
      /\ asked' = (asked /\ ~tired /\ outcome # "failed")
      /\ UNCHANGED <<alive, calloff>>
  BY <1>2, <1>4, <1>5, <1>6, <1>7 DEF After, session
<1>9. /\ ~live => Succeeded(p) /\ Forgotten(p)
      /\ live /\ outcome = "deferred" => Requeued(p, me)
      /\ live /\ tired => UNCHANGED queue /\ Forgotten(p)
      /\ live /\ outcome = "busy" /\ ~tired =>
            Requeued(p, [me EXCEPT !.attempts = IF me.progressed THEN 0 ELSE @ + 1])
      /\ live /\ outcome = "ok" /\ (me.rerun \/ again) =>
            Requeued(p, [me EXCEPT !.rerun = FALSE, !.attempts = 0])
      /\ live /\ outcome = "ok" /\ ~(me.rerun \/ again) => UNCHANGED queue /\ Forgotten(p)
  BY <1>2, <1>4, <1>5, <1>6, <1>7 DEF After
<1>10. PICK r \in WorkerState :
          r = IF tired THEN [Resting EXCEPT !.at = "drop", !.pass = p] ELSE Resting
  BY DEF Resting, WorkerState, WorkerPlaces
<1>11. /\ worker' = [worker EXCEPT ![w] = r] /\ r.outcome = "ok"
       /\ tired => r.at = "drop" /\ r.pass = p
       /\ ~tired => r.at = "idle" /\ r.pass = 0
  BY <1>2, <1>4, <1>5, <1>6, <1>7, <1>10 DEF After, Resting
<1>12. asked \in BOOLEAN /\ again \in BOOLEAN /\ alive \in BOOLEAN
  BY DEF ApartInv, PassesTyped
<1>13. ASSUME KeptInv, calloff.at = "idle", asked, alive PROVE again \/ me.rerun
  BY <1>3, <1>4, <1>12, <1>13 DEF KeptInv, RequestKept
<1>14. NewPass \in PassState /\ ~NewPass.cancelled
  BY DEF NewPass, PassState
<1>15. ASSUME Forgotten(p), NEW n \in Passes \cup {0}, queue' = n,
              n = 0 \/ ~tired, n = 0 \/ \A v \in Workers : worker[v].pass # n,
              KeptInv /\ calloff.at = "idle" /\ asked' /\ alive => n # 0
       PROVE  Keeps
  <2>1. PICK k \in PassState : k = NewPass
    BY <1>14
  <2>2. ~k.cancelled /\ pass' = [pass EXCEPT ![p] = k]
    BY <1>14, <1>15, <2>1 DEF Forgotten
  <2>3. asked' \in BOOLEAN /\ (asked' => asked)
    BY <1>8, <1>12
  <2>4. (r.at = "idle" /\ r.pass = 0) \/ (r.at = "drop" /\ r.pass = p)
    BY <1>11
  <2>5. n = 0 \/ r.at = "idle"
    BY <1>11, <1>15
  <2> QED BY <1>2, <1>3, <1>8, <1>11, <1>15, <2>2, <2>3, <2>4, <2>5, PassLeaves
<1>16. ASSUME NEW kept \in PassState, ~kept.cancelled, Requeued(p, kept), ~tired
       PROVE  Keeps
  <2>1. PICK k \in PassState : k = [kept EXCEPT !.progressed = FALSE, !.people = {}]
    BY DEF PassState
  <2>2. ~k.cancelled /\ pass' = [pass EXCEPT ![p] = k] /\ queue' = p
    BY <1>16, <2>1 DEF Requeued, PassState
  <2>3. asked' \in BOOLEAN /\ (asked' => asked)
    BY <1>8, <1>12
  <2>4. r.at = "idle" /\ r.pass = 0
    BY <1>11, <1>16
  <2> QED BY <1>2, <1>3, <1>8, <1>11, <2>2, <2>3, <2>4, PassLeaves
<1>17. CASE ~live
  <2>1. Succeeded(p) /\ Forgotten(p) /\ ~tired
    BY <1>7, <1>9, <1>17
  <2>2. CASE alive /\ (again \/ (me.rerun /\ me.cancelled))
    <3>1. Fresh # {} /\ queue' = AFresh
      BY <1>4, <2>1, <2>2 DEF Succeeded
    <3>2. PICK n : n = AFresh
      OBVIOUS
    <3>3. n \in Passes /\ n \notin Referred
      BY <3>1, <3>2 DEF AFresh, Fresh
    <3>4. \A v \in Workers : worker[v].pass # n
      BY <3>3 DEF Referred
    <3> QED BY <1>15, <2>1, <3>1, <3>2, <3>3, <3>4
  <2>3. CASE ~(alive /\ (again \/ (me.rerun /\ me.cancelled)))
    <3>1. queue' = 0
      BY <1>3, <1>4, <2>1, <2>3 DEF Succeeded
    <3>2. ASSUME KeptInv, outcome = "cancelled", alive PROVE me.cancelled
      BY <1>2, <1>3, <1>4, <1>5, <3>2 DEF KeptInv, CancelsTold
    <3>3. KeptInv /\ calloff.at = "idle" => ~(asked' /\ alive)
      BY <1>6, <1>8, <1>12, <1>13, <1>17, <2>3, <3>2
    <3> QED BY <1>15, <2>1, <3>1, <3>3
  <2> QED BY <2>2, <2>3
<1>18. CASE live /\ outcome = "deferred"
  <2>1. ~me.cancelled /\ ~tired
    BY <1>6, <1>7, <1>18
  <2> QED BY <1>9, <1>16, <1>18, <2>1
<1>19. CASE live /\ tired
  <2>1. queue' = 0 /\ Forgotten(p) /\ ~asked'
    BY <1>3, <1>8, <1>9, <1>19
  <2> QED BY <1>15, <2>1
<1>20. CASE live /\ outcome = "busy" /\ ~tired
  <2>1. PICK kept \in PassState :
           kept = [me EXCEPT !.attempts = IF me.progressed THEN 0 ELSE @ + 1]
    <3>1. (IF me.progressed THEN 0 ELSE me.attempts + 1) \in Nat
      BY DEF PassState
    <3> QED BY <3>1 DEF PassState
  <2>2. ~kept.cancelled
    BY <1>6, <1>20, <2>1 DEF PassState
  <2>3. Requeued(p, kept)
    BY <1>9, <1>20, <2>1
  <2> QED BY <1>16, <1>20, <2>2, <2>3
<1>21. CASE live /\ outcome = "ok" /\ (me.rerun \/ again)
  <2>1. PICK kept \in PassState : kept = [me EXCEPT !.rerun = FALSE, !.attempts = 0]
    BY DEF PassState
  <2>2. ~kept.cancelled /\ ~tired
    BY <1>6, <1>7, <1>21, <2>1 DEF PassState
  <2>3. Requeued(p, kept)
    BY <1>9, <1>21, <2>1
  <2> QED BY <1>16, <2>2, <2>3
<1>22. CASE live /\ outcome = "ok" /\ ~(me.rerun \/ again)
  <2>1. queue' = 0 /\ Forgotten(p)
    BY <1>3, <1>9, <1>22
  <2>2. KeptInv /\ calloff.at = "idle" => ~(asked' /\ alive)
    BY <1>8, <1>13, <1>22
  <2> QED BY <1>15, <2>1, <2>2
<1> QED BY <1>6, <1>17, <1>18, <1>19, <1>20, <1>21, <1>22

----------------------------------------------------------------------------
(* What calls off: the queue's oldest dropped, and a cancel's three steps.  *)
LEMMA QueueLeft ==
    ASSUME ApartInv, NEW p \in Passes, queue = p, queue' = 0, asked' \in BOOLEAN,
           KeptInv => ~asked', pass' = [pass EXCEPT ![p] = NewPass],
           NEW c, calloff' = c, c \in [at : {"idle", "judged", "out"}, of : SUBSET Passes],
           UNCHANGED <<alive, flying, again, worker>>
    PROVE  Keeps
<1>1. worker \in [Workers -> WorkerState] /\ pass \in [Passes -> PassState]
  BY DEF ApartInv, PhoneInv, PhoneTypeOK, PassesTyped
<1>2. p # 0 /\ \A w \in Workers : worker[w].pass # p
  BY DEF ApartInv, PassesApart
<1>3. NewPass \in PassState /\ ~NewPass.cancelled
  BY DEF NewPass, PassState
<1>4. ~pass'[p].cancelled /\ \A o \in Passes \ {p} : pass'[o] = pass[o]
  BY <1>1, <1>3
<1>5. PassesTyped'
  BY <1>1, <1>3 DEF ApartInv, PassesTyped
<1>6. PassesApart'
  BY DEF ApartInv, PassesApart, AtWork
<1>7. ASSUME KeptInv PROVE CancelsTold'
  <2>1. \A o \in Passes : pass'[o].cancelled => \E w \in Workers : worker'[w].pass = o
    BY <1>7, <1>4 DEF ApartInv, KeptInv, CancelsTold
  <2>2. ASSUME NEW w \in Workers, worker'[w].pass # 0, worker'[w].outcome = "cancelled", alive'
        PROVE  pass'[worker'[w].pass].cancelled
    <3>1. worker[w].pass \in Passes \ {p}
      BY <1>1, <1>2, <2>2 DEF WorkerState
    <3> QED BY <1>7, <1>4, <2>2, <3>1 DEF ApartInv, KeptInv, CancelsTold
  <2>3. queue' \notin calloff'.of /\ ~asked'
    BY <1>7
  <2> QED BY <2>1, <2>2, <2>3 DEF CancelsTold
<1>8. ASSUME KeptInv PROVE RequestKept'
  BY <1>8 DEF RequestKept
<1> QED BY <1>5, <1>6, <1>7, <1>8 DEF Keeps, KeptInv

LEMMA TakeOutKeeps ==
    ASSUME ApartInv, TakeOut
    PROVE  Keeps
<1>1. PICK c : c = [calloff EXCEPT !.at = "out"]
  OBVIOUS
<1>2. /\ c \in [at : {"idle", "judged", "out"}, of : SUBSET Passes]
      /\ c.at = "out" /\ c.of = calloff.of /\ calloff' = c
  BY <1>1 DEF TakeOut, ApartInv, PassesTyped
<1>3. (KeptInv => ~asked') /\ asked' \in BOOLEAN
  BY DEF TakeOut, scheduler, ApartInv, KeptInv, CancelsTold, PassesTyped
<1>4. UNCHANGED <<alive, flying, again, worker>>
  BY DEF TakeOut, session
<1>5. CASE queue \in calloff.of
  <2>1. PICK p \in Passes : p = queue
    BY <1>5 DEF ApartInv, PassesTyped
  <2>2. queue' = 0 /\ pass' = [pass EXCEPT ![p] = NewPass]
    BY <1>5, <2>1 DEF TakeOut, Forgotten
  <2> QED BY <1>2, <1>3, <1>4, <2>1, <2>2, QueueLeft
<1>6. CASE queue \notin calloff.of
  <2>1. UNCHANGED <<queue, pass>>
    BY <1>6 DEF TakeOut
  <2>2. PassesTyped'
    BY <1>2, <1>3, <1>4, <2>1 DEF ApartInv, PassesTyped
  <2>3. PassesApart'
    BY <1>4, <2>1 DEF ApartInv, PassesApart, AtWork
  <2>4. ASSUME KeptInv PROVE CancelsTold'
    BY <2>4, <1>2, <1>3, <1>4, <1>6, <2>1 DEF ApartInv, KeptInv, CancelsTold
  <2>5. ASSUME KeptInv PROVE RequestKept'
    BY <2>5, <1>3 DEF RequestKept
  <2> QED BY <2>2, <2>3, <2>4, <2>5 DEF Keeps, KeptInv
<1> QED BY <1>5, <1>6

LEMMA FireKeeps ==
    ASSUME ApartInv, Fire
    PROVE  Keeps
<1>1. pass \in [Passes -> PassState]
  BY DEF ApartInv, PassesTyped
<1>2. PICK told \in SUBSET Passes :
         told = calloff.of \cap ({queue} \cup {worker[w].pass : w \in Workers})
  BY DEF ApartInv, PassesTyped
<1>3. ASSUME KeptInv PROVE \A p \in told : \E w \in Workers : worker[w].pass = p
  <2>1. queue \notin calloff.of
    BY <1>3 DEF Fire, KeptInv, CancelsTold
  <2> QED BY <1>2, <2>1
<1>4. pass' = [p \in Passes |-> IF p \in told THEN [pass[p] EXCEPT !.cancelled = TRUE] ELSE pass[p]]
  <2>1. \A p \in Passes :
           p \in told <=> p \in calloff.of \cap ({queue} \cup {worker[w].pass : w \in Workers})
    BY <1>2
  <2> QED BY <2>1 DEF Fire
<1>5. pass' \in [Passes -> PassState]
  <2>1. \A p \in Passes : [pass[p] EXCEPT !.cancelled = TRUE] \in PassState
    BY <1>1 DEF PassState
  <2> QED BY <1>1, <1>4, <2>1
<1>6. \A p \in Passes : pass'[p].cancelled <=> p \in told \/ pass[p].cancelled
  <2>1. \A p \in Passes : [pass[p] EXCEPT !.cancelled = TRUE].cancelled
    BY <1>1 DEF PassState
  <2> QED BY <1>4, <2>1
<1>7. calloff'.at = "idle" /\ calloff' \in [at : {"idle", "judged", "out"}, of : SUBSET Passes]
  BY DEF Fire
<1>8. UNCHANGED <<alive, scheduler, worker>> /\ (KeptInv => ~asked)
  BY DEF Fire, session, KeptInv, CancelsTold
<1>9. PassesTyped'
  BY <1>5, <1>7, <1>8 DEF ApartInv, PassesTyped, scheduler
<1>10. PassesApart'
  BY <1>8 DEF ApartInv, PassesApart, AtWork, scheduler
<1>11. ASSUME KeptInv PROVE CancelsTold'
  <2>1. \A p \in Passes : pass'[p].cancelled => \E w \in Workers : worker'[w].pass = p
    BY <1>11, <1>3, <1>6, <1>8 DEF ApartInv, KeptInv, CancelsTold
  <2>2. ASSUME NEW w \in Workers, worker'[w].pass # 0, worker'[w].outcome = "cancelled", alive'
        PROVE  pass'[worker'[w].pass].cancelled
    <3>1. worker[w].pass \in Passes
      BY <1>8, <2>2 DEF ApartInv, PhoneInv, PhoneTypeOK, WorkerState
    <3> QED BY <1>11, <1>6, <1>8, <2>2, <3>1 DEF ApartInv, KeptInv, CancelsTold
  <2> QED BY <1>7, <2>1, <2>2 DEF CancelsTold
<1>12. ASSUME KeptInv PROVE RequestKept'
  BY <1>12, <1>8 DEF RequestKept, scheduler
<1> QED BY <1>9, <1>10, <1>11, <1>12 DEF Keeps, KeptInv

LEMMA JudgeKeeps ==
    ASSUME ApartInv, Judge
    PROVE  Keeps
<1>1. calloff'.at = "judged" /\ calloff' \in [at : {"idle", "judged", "out"}, of : SUBSET Passes]
  BY DEF Judge, ApartInv, PhoneInv, PhoneTypeOK
<1>2. asked' = FALSE /\ UNCHANGED <<alive, queue, flying, again, pass, worker>>
  BY DEF Judge, session
<1>3. PassesTyped' /\ PassesApart'
  BY <1>1, <1>2 DEF ApartInv, PassesTyped, PassesApart, AtWork
<1>4. ASSUME KeptInv PROVE KeptInv'
  BY <1>1, <1>2, <1>4 DEF KeptInv, CancelsTold, RequestKept
<1> QED BY <1>3, <1>4 DEF Keeps

----------------------------------------------------------------------------
(* Everything else: what a player does asks, or leaves the scheduler be.    *)
LEMMA PlayersKeep ==
    ASSUME ApartInv, NEW q \in Players, PlayerStep(q)
    PROVE  Keeps
<1> USE DEF session, scheduler, requesting
<1>1. CASE RequestIfDue(q)
  <2>1. CASE Request
    BY <1>1, <2>1, RequestKeeps DEF RequestIfDue
  <2>2. CASE UNCHANGED <<pass, scheduler>> /\ alive' = alive
    BY <1>1, <2>2, NothingAsked DEF RequestIfDue
  <2> QED BY <1>1, <2>1, <2>2 DEF RequestIfDue
<1>2. CASE WorldAsks(q)     BY <1>2, RequestKeeps DEF WorldAsks
<1>3. CASE WorldWaits(q)    BY <1>3, NothingAsked DEF WorldWaits
<1>4. CASE WorldTakes(q)    BY <1>4, NothingAsked DEF WorldTakes
<1>5. CASE WorldGivesUp(q)  BY <1>5, NothingAsked DEF WorldGivesUp
<1>6. CASE WorldRefused(q)  BY <1>6, NothingAsked DEF WorldRefused
<1>7. CASE WorldLetsGo(q)   BY <1>7, NothingAsked DEF WorldLetsGo
<1>8. ASSUME NEW faulty, WorldBegins(q, faulty) PROVE Keeps
  BY <1>8, NothingAsked DEF WorldBegins
<1>9. ASSUME NEW due, NEW leave, WorldEnds(q, due, leave) PROVE Keeps
  BY <1>9, NothingAsked DEF WorldEnds
<1>10. ASSUME NEW due, NEW leave, NEW faulty, PhoneAction(q, faulty, due, leave)
       PROVE  Keeps
  BY <1>10, NothingAsked DEF PhoneAction
<1> QED BY <1>1, <1>2, <1>3, <1>4, <1>5, <1>6, <1>7, <1>8, <1>9, <1>10 DEF PlayerStep

LEMMA WorkersKeep ==
    ASSUME ApartInv, NEW w \in Workers, WorkerStep(w)
    PROVE  Keeps
<1> USE DEF AtWork, WorkerPlaces, session
<1>1. CASE Begin(w)       BY <1>1, BeginKeeps
<1>2. CASE NextCall(w)
  <2>1. CASE EndsAs(w, "cancelled") /\ ~Live(w)  BY <1>2, <2>1, EndsPass DEF NextCall
  <2>2. CASE GoTo(w, "recap")                     BY <1>2, <2>2, GoesTo DEF NextCall
  <2>3. CASE GoTo(w, "look")                      BY <1>2, <2>3, GoesTo DEF NextCall
  <2>4. CASE EndsAs(w, "deferred")                BY <1>2, <2>4, EndsPass DEF NextCall
  <2> QED BY <1>2, <2>1, <2>2, <2>3, <2>4 DEF NextCall
<1>3. CASE Recap(w)
  <2>1. CASE GoTo(w, "recapping")  BY <1>3, <2>1, GoesTo DEF Recap
  <2>2. CASE worker' = [worker EXCEPT ![w].at = "overdue", ![w].outcome = "deferred"]
    BY <1>3, <2>2, RecapsAs DEF Recap
  <2> QED BY <1>3, <2>1, <2>2 DEF Recap
<1>4. CASE Overdue(w)
  <2>1. alive' = alive
    BY <1>4 DEF Overdue, FallBack
  <2>2. CASE GoTo(w, "finish")  BY <1>4, <2>1, <2>2, GoesTo DEF Overdue
  <2>3. CASE GoTo(w, "clear")   BY <1>4, <2>1, <2>3, GoesTo DEF Overdue
  <2> QED BY <1>4, <2>2, <2>3 DEF Overdue
<1>5. CASE Finish(w)      BY <1>5, FinishKeeps
<1>6. CASE ClearMarks(w)  BY <1>6, ClearsKeep
<1>7. CASE After(w)       BY <1>7, AfterKeeps
<1>8. CASE Dropped(w)     BY <1>8, DroppedKeeps
<1> QED BY <1>1, <1>2, <1>3, <1>4, <1>5, <1>6, <1>7, <1>8 DEF WorkerStep

LEMMA ReleaseKeeps ==
    ASSUME ApartInv, Release
    PROVE  Keeps
<1>1. alive' = FALSE /\ UNCHANGED <<scheduler, pass, worker, calloff>>
  BY DEF Release
<1>2. PassesTyped' /\ PassesApart'
  BY <1>1 DEF ApartInv, PassesTyped, PassesApart, AtWork, scheduler
<1>3. ASSUME KeptInv PROVE KeptInv'
  BY <1>1, <1>3 DEF KeptInv, CancelsTold, RequestKept, scheduler
<1> QED BY <1>2, <1>3 DEF Keeps

LEMMA StepKeeps ==
    ASSUME ApartInv, PhoneNext
    PROVE  Keeps
<1>1. CASE \E w \in Workers : Calls(w) \/ WorkerStep(w)
  BY <1>1, CallsKeep, WorkersKeep
<1>2. CASE \E q \in Players : PlayerStep(q)
  BY <1>2, PlayersKeep
<1>3. CASE Join
  BY <1>3, RequestKeeps DEF Join, session
<1>4. CASE Overflow
  <2>1. PICK p \in Passes : p = queue
    BY <1>4 DEF Overflow, ApartInv, PhoneInv, PhoneTypeOK
  <2>2. PICK c : c = calloff
    OBVIOUS
  <2>3. /\ calloff' = c /\ queue' = 0 /\ asked' = FALSE /\ pass' = [pass EXCEPT ![p] = NewPass]
        /\ UNCHANGED <<alive, flying, again, worker>>
    BY <1>4, <2>1, <2>2 DEF Overflow, Forgotten, session
  <2>4. c \in [at : {"idle", "judged", "out"}, of : SUBSET Passes]
    BY <2>2 DEF ApartInv, PassesTyped
  <2> QED BY <2>1, <2>3, <2>4, QueueLeft
<1>5. CASE Judge    BY <1>5, JudgeKeeps
<1>6. CASE TakeOut  BY <1>6, TakeOutKeeps
<1>7. CASE Fire     BY <1>7, FireKeeps
<1>8. CASE Release  BY <1>8, ReleaseKeeps
<1> QED BY <1>1, <1>2, <1>3, <1>4, <1>5, <1>6, <1>7, <1>8 DEF PhoneNext

LEMMA ApartStep ==
    ASSUME ApartInv, [PhoneNext]_phoneVars
    PROVE  ApartInv' /\ (KeptInv /\ [CancelAtOnce]_phoneVars => KeptInv')
<1>1. PhoneInv'
  BY StepInv DEF ApartInv
<1>2. CASE UNCHANGED phoneVars
  <2>1. UNCHANGED requesting
    BY <1>2 DEF phoneVars, session, scheduler, requesting
  <2>2. PassesTyped' /\ PassesApart'
    BY <2>1, NothingAsked DEF Keeps
  <2>3. ASSUME KeptInv PROVE KeptInv'
    BY <2>1, <2>3 DEF KeptInv, CancelsTold, RequestKept, requesting, scheduler
  <2> QED BY <1>1, <2>2, <2>3 DEF ApartInv
<1>3. CASE PhoneNext
  <2>1. Keeps
    BY <1>3, StepKeeps
  <2>2. CASE UNCHANGED phoneVars
    BY <1>2, <2>2
  <2>3. CASE ~UNCHANGED phoneVars
    BY <1>1, <2>1, <2>3 DEF Keeps, ApartInv
  <2> QED BY <2>2, <2>3
<1> QED BY <1>2, <1>3

(* A request made since the last cancel is served: a pass that is not       *)
(* called off is queued, or the one in flight will run again, whatever ends *)
(* it (voicer.py, request, _next, _after, _drop).  The window of the cancel *)
(* is left out: one begun is over before anybody else moves.                *)
THEOREM RequestKeptHolds ==
    PhoneSpec /\ [][CancelAtOnce]_phoneVars => []RequestKept
<1>1. ApartInv /\ KeptInv => RequestKept
  BY DEF KeptInv
<1> QED BY <1>1, RequestInit, ApartStep, PTL DEF PhoneSpec

----------------------------------------------------------------------------
(* What is said.  The inbox is drained by a fold, so what holds of the      *)
(* messages after each item is shown to hold after all of them: the fold    *)
(* is the function its recursion describes (FoldExists), and what each item *)
(* keeps it keeps (DrainGoesOn), both by the least length that does not.    *)
Applied(msgs, i, faulty) ==
    IF i.kind = "open_fallback" THEN FellBack(msgs)
    ELSE IF i.ids \cap faulty # {} THEN Unmark(msgs, i.pass, i.ids)
    ELSE Replied(msgs, i.pass, i.ids)
(* What the fold over the first items of the inbox is, given its values g   *)
(* for fewer of them.                                                       *)
DrainedSoFar(g, s, faulty) ==
    IF s = {} THEN Phone ELSE Applied(g[s \ {Max(s)}], inbox[Max(s)], faulty)
LEMMA DrainedIs ==
  ASSUME NEW faulty
  PROVE Drained(faulty) =
   (CHOOSE g : g = [s \in SUBSET DOMAIN inbox |-> DrainedSoFar(g, s, faulty)])[DOMAIN inbox]
 BY DEF Drained, FoldLeft, MapThenFoldSet, Applied, DrainedSoFar

LEMMA LeastNat ==
    ASSUME NEW S \in SUBSET Nat, S # {}
    PROVE  \E m \in S : \A n \in S : m <= n
<1>1. IsWellFoundedOn(OpToRel(<, Nat), Nat)
  BY NatLessThanWellFounded
<1>2. PICK m \in S : \A n \in S : ~ <<n, m>> \in OpToRel(<, Nat)
  BY <1>1, WFMin
<1>3. \A n \in S : ~ (n < m)
  BY <1>2 DEF OpToRel
<1> QED BY <1>3

LEMMA LastIsMax ==
    ASSUME NEW n \in Nat, NEW s \in SUBSET (1..n), n \in s
    PROVE  Max(s) = n
<1>1. \E x \in s : \A y \in s : x >= y
  BY DEF Max
<1>2. PICK x : x = Max(s)
  OBVIOUS
<1>3. x \in s /\ \A y \in s : x >= y
  BY <1>1, <1>2 DEF Max
<1>4. x \in 1..n /\ x >= n
  BY <1>3
<1>5. x = n
  BY <1>4
<1> QED BY <1>2, <1>5

(* The fold is defined, however long the inbox. *)
LEMMA FoldExists ==
    ASSUME NEW faulty, NEW n \in Nat
    PROVE  \E g : g = [s \in SUBSET (1..n) |-> DrainedSoFar(g, s, faulty)]
<1> DEFINE Undefined == {k \in Nat : ~ \E g : g = [s \in SUBSET (1..k) |-> DrainedSoFar(g, s, faulty)]}
<1> SUFFICES ASSUME Undefined # {} PROVE FALSE
  OBVIOUS
<1>1. PICK k \in Undefined : \A j \in Undefined : k <= j
  BY LeastNat
<1>2. k # 0
  <2>1. PICK g : g = [s \in SUBSET (1..0) |-> Phone]
    OBVIOUS
  <2>2. \A s \in SUBSET (1..0) : s = {}
    OBVIOUS
  <2>3. g = [s \in SUBSET (1..0) |-> DrainedSoFar(g, s, faulty)]
    BY <2>1, <2>2 DEF DrainedSoFar
  <2> QED BY <2>3
<1>3. k - 1 \in Nat /\ k - 1 \notin Undefined
  <2>1. k \in Nat /\ k - 1 \in Nat
    BY <1>2
  <2>2. ~ (k <= k - 1)
    BY <2>1
  <2> QED BY <1>1, <2>1, <2>2
<1>4. PICK g : g = [s \in SUBSET (1..(k - 1)) |-> DrainedSoFar(g, s, faulty)]
  BY <1>3
<1>5. PICK h : h = [s \in SUBSET (1..k) |->
                      IF k \in s THEN Applied(g[s \ {k}], inbox[k], faulty) ELSE g[s]]
  OBVIOUS
<1>6. \A s \in SUBSET (1..(k - 1)) : h[s] = g[s]
  <2>1. \A s \in SUBSET (1..(k - 1)) : s \in SUBSET (1..k) /\ k \notin s
    BY <1>3
  <2> QED BY <1>5, <2>1
<1>7. ASSUME NEW s \in SUBSET (1..k) PROVE h[s] = DrainedSoFar(h, s, faulty)
  <2>1. CASE k \in s
    <3>1. s \ {k} \in SUBSET (1..(k - 1)) /\ s # {}
      BY <1>3, <2>1
    <3>2. Max(s) = k
      BY <2>1, LastIsMax
    <3>3. h[s] = Applied(g[s \ {k}], inbox[k], faulty)
      BY <1>5, <2>1
    <3>4. g[s \ {k}] = h[s \ {k}]
      BY <1>6, <3>1
    <3> QED BY <3>1, <3>2, <3>3, <3>4 DEF DrainedSoFar
  <2>2. CASE k \notin s
    <3>1. s \in SUBSET (1..(k - 1))
      BY <1>3, <2>2
    <3>2. h[s] = g[s] /\ g[s] = DrainedSoFar(g, s, faulty)
      BY <1>4, <1>6, <3>1
    <3>3. s \ {Max(s)} \in SUBSET (1..(k - 1))
      BY <3>1
    <3>4. g[s \ {Max(s)}] = h[s \ {Max(s)}]
      BY <1>6, <3>3
    <3> QED BY <3>2, <3>4 DEF DrainedSoFar
  <2> QED BY <2>1, <2>2
<1>8. h = [s \in SUBSET (1..k) |-> DrainedSoFar(h, s, faulty)]
  BY <1>5, <1>7
<1> QED BY <1>8

(* What holds before the items, and of the first k once of those before the *)
(* k-th, holds of all of them.                                              *)
LEMMA DrainGoesOn ==
    ASSUME NEW faulty, NEW n \in Nat, DOMAIN inbox = 1..n, NEW Good, Phone \in Good[0],
           \A k \in 1..n : \A msgs \in Good[k - 1] : Applied(msgs, inbox[k], faulty) \in Good[k]
    PROVE  Drained(faulty) \in Good[n]
<1>1. PICK g : g = CHOOSE h : h = [s \in SUBSET (1..n) |-> DrainedSoFar(h, s, faulty)]
  OBVIOUS
<1>2. g = [s \in SUBSET (1..n) |-> DrainedSoFar(g, s, faulty)]
  BY <1>1, FoldExists
<1>3. Drained(faulty) = g[1..n]
  BY <1>1, DrainedIs
<1> DEFINE Lost == {k \in Nat : k <= n /\ g[1..k] \notin Good[k]}
<1>4. Lost = {}
  <2> SUFFICES ASSUME Lost # {} PROVE FALSE
    OBVIOUS
  <2>1. PICK k \in Lost : \A j \in Lost : k <= j
    BY LeastNat
  <2>2. k # 0
    <3>1. 1..0 = {} /\ g[1..0] = DrainedSoFar(g, 1..0, faulty)
      BY <1>2
    <3> QED BY <2>1, <3>1 DEF DrainedSoFar
  <2>3. k - 1 \in Nat /\ k - 1 <= n /\ g[1..(k - 1)] \in Good[k - 1]
    BY <2>1, <2>2
  <2>4. 1..k \in SUBSET (1..n) /\ 1..k # {} /\ k \in 1..k /\ (1..k) \ {k} = 1..(k - 1)
    <3>1. k \in Nat /\ k <= n /\ 1 <= k
      BY <2>1, <2>2
    <3>2. 1..k \in SUBSET (1..n) /\ k \in 1..k
      BY <3>1
    <3>3. \A j \in Int : j \in (1..k) \ {k} <=> j \in 1..(k - 1)
      BY <3>1
    <3>4. (1..k) \ {k} = 1..(k - 1)
      <4>1. (1..k) \ {k} \subseteq Int /\ 1..(k - 1) \subseteq Int
        BY <3>1
      <4> QED BY <3>3, <4>1
    <3> QED BY <3>2, <3>4
  <2>5. Max(1..k) = k
    BY <2>1, <2>4, LastIsMax
  <2>6. g[1..k] = Applied(g[1..(k - 1)], inbox[k], faulty)
    <3>1. g[1..k] = DrainedSoFar(g, 1..k, faulty)
      BY <1>2, <2>4
    <3> QED BY <2>4, <2>5, <3>1 DEF DrainedSoFar
  <2>7. k \in 1..n
    BY <2>4
  <2> QED BY <2>1, <2>3, <2>6, <2>7
<1> QED BY <1>3, <1>4

(* What each item keeps, draining the inbox keeps. *)
LEMMA DrainKeeps ==
    ASSUME NEW faulty, NEW Good, NEW Items, inbox \in Seq(Items), Phone \in Good,
           \A msgs \in Good, i \in Items : Applied(msgs, i, faulty) \in Good
    PROVE  Drained(faulty) \in Good
<1>1. PICK n \in Nat : DOMAIN inbox = 1..n /\ inbox \in [1..n -> Items]
  <2>1. Len(inbox) \in Nat /\ DOMAIN inbox = 1..Len(inbox)
        /\ inbox \in [1..Len(inbox) -> Items]
    OBVIOUS
  <2> QED BY <2>1
<1>2. PICK G : G = [k \in 0..n |-> Good]
  OBVIOUS
<1>3. G[0] = Good /\ G[n] = Good
  BY <1>2
<1>4. ASSUME NEW k \in 1..n, NEW msgs \in G[k - 1] PROVE Applied(msgs, inbox[k], faulty) \in G[k]
  <2>1. k \in 0..n /\ k - 1 \in 0..n
    OBVIOUS
  <2>2. msgs \in Good /\ G[k] = Good
    BY <1>2, <1>4, <2>1
  <2> QED BY <1>1, <2>2
<1> QED BY <1>1, <1>3, <1>4, DrainGoesOn

----------------------------------------------------------------------------
(* What a hold of the turn lock makes of the messages before it is let go:  *)
(* what was due may be withdrawn, or said unless who says it has left.      *)
MessageStates == {"later", "due", "voiced", "withdrawn"}
Reply == [kind : {"voiced", "open_fallback"}, pass : Passes \cup {0}, ids : SUBSET Messages]
PhoneState == [message : [Messages -> MessageStates], mark : [Messages -> Passes \cup {0}]]
Settled ==
    {msgs \in PhoneState : \A m \in Messages :
        \/ msgs.message[m] = message[m]
        \/ message[m] = "due" /\ msgs.message[m] = "withdrawn"
        \/ message[m] = "due" /\ msgs.message[m] = "voiced" /\ PersonOf[m] \notin gone}

(* What the messages are after each. *)
LEMMA WithdrawnIs ==
    ASSUME NEW msgs \in PhoneState, NEW ids
    PROVE  /\ Withdrawn(msgs, ids) \in PhoneState
           /\ \A m \in Messages :
                 /\ Withdrawn(msgs, ids).message[m] = (IF m \in ids THEN "withdrawn" ELSE msgs.message[m])
                 /\ Withdrawn(msgs, ids).mark[m] = (IF m \in ids THEN 0 ELSE msgs.mark[m])
<1>1. msgs.message \in [Messages -> MessageStates] /\ msgs.mark \in [Messages -> Passes \cup {0}]
  BY DEF PhoneState
<1>2. PICK now : now = [m \in Messages |-> IF m \in ids THEN "withdrawn" ELSE msgs.message[m]]
  OBVIOUS
<1>3. PICK marks : marks = [m \in Messages |-> IF m \in ids THEN 0 ELSE msgs.mark[m]]
  OBVIOUS
<1>4. now \in [Messages -> MessageStates] /\ marks \in [Messages -> Passes \cup {0}]
  BY <1>1, <1>2, <1>3 DEF MessageStates
<1>5. PICK new \in PhoneState : new = [message |-> now, mark |-> marks]
  BY <1>4 DEF PhoneState
<1>6. Withdrawn(msgs, ids) = new /\ new.message = now /\ new.mark = marks
  BY <1>2, <1>3, <1>5 DEF Withdrawn
<1> QED BY <1>2, <1>3, <1>6

LEMMA SaidIs ==
    ASSUME NEW msgs \in PhoneState, NEW ids
    PROVE  /\ Said(msgs, ids) \in PhoneState
           /\ \A m \in Messages :
                 /\ Said(msgs, ids).message[m] = (IF m \in ids THEN "voiced" ELSE msgs.message[m])
                 /\ Said(msgs, ids).mark[m] = (IF m \in ids THEN 0 ELSE msgs.mark[m])
<1>1. msgs.message \in [Messages -> MessageStates] /\ msgs.mark \in [Messages -> Passes \cup {0}]
  BY DEF PhoneState
<1>2. PICK now : now = [m \in Messages |-> IF m \in ids THEN "voiced" ELSE msgs.message[m]]
  OBVIOUS
<1>3. PICK marks : marks = [m \in Messages |-> IF m \in ids THEN 0 ELSE msgs.mark[m]]
  OBVIOUS
<1>4. now \in [Messages -> MessageStates] /\ marks \in [Messages -> Passes \cup {0}]
  BY <1>1, <1>2, <1>3 DEF MessageStates
<1>5. PICK new \in PhoneState : new = [message |-> now, mark |-> marks]
  BY <1>4 DEF PhoneState
<1>6. Said(msgs, ids) = new /\ new.message = now /\ new.mark = marks
  BY <1>2, <1>3, <1>5 DEF Said
<1> QED BY <1>2, <1>3, <1>6

LEMMA UnmarkIs ==
    ASSUME NEW msgs \in PhoneState, NEW p, NEW ids
    PROVE  /\ Unmark(msgs, p, ids) \in PhoneState /\ Unmark(msgs, p, ids).message = msgs.message
           /\ \A m \in Messages :
                 Unmark(msgs, p, ids).mark[m] = (IF m \in ids /\ msgs.mark[m] = p THEN 0 ELSE msgs.mark[m])
<1>1. msgs.mark \in [Messages -> Passes \cup {0}]
  BY DEF PhoneState
<1>2. PICK marks : marks = [m \in Messages |-> IF m \in ids /\ msgs.mark[m] = p THEN 0 ELSE msgs.mark[m]]
  OBVIOUS
<1>3. marks \in [Messages -> Passes \cup {0}]
  BY <1>1, <1>2
<1>4. PICK new : new = [msgs EXCEPT !.mark = marks]
  OBVIOUS
<1>5. new \in PhoneState /\ new.message = msgs.message /\ new.mark = marks
  BY <1>3, <1>4 DEF PhoneState
<1>6. Unmark(msgs, p, ids) = new
  BY <1>1, <1>2, <1>4 DEF Unmark, PhoneState
<1> QED BY <1>2, <1>5, <1>6

LEMMA WithdrawnSettles ==
    ASSUME NEW msgs \in Settled, NEW ids, \A m \in ids : m \in Messages => msgs.message[m] = "due"
    PROVE  Withdrawn(msgs, ids) \in Settled
<1>1. msgs \in PhoneState
  BY DEF Settled
<1>2. PICK new \in PhoneState :
         /\ new = Withdrawn(msgs, ids)
         /\ \A m \in Messages : new.message[m] = (IF m \in ids THEN "withdrawn" ELSE msgs.message[m])
  BY <1>1, WithdrawnIs
<1>3. ASSUME NEW m \in Messages
      PROVE  \/ new.message[m] = message[m]
             \/ message[m] = "due" /\ new.message[m] = "withdrawn"
             \/ message[m] = "due" /\ new.message[m] = "voiced" /\ PersonOf[m] \notin gone
  BY <1>2 DEF Settled
<1> QED BY <1>2, <1>3 DEF Settled

LEMMA SaidSettles ==
    ASSUME NEW msgs \in Settled, NEW ids,
           \A m \in ids : m \in Messages => msgs.message[m] = "due" /\ PersonOf[m] \notin gone
    PROVE  Said(msgs, ids) \in Settled
<1>1. msgs \in PhoneState
  BY DEF Settled
<1>2. PICK new \in PhoneState :
         /\ new = Said(msgs, ids)
         /\ \A m \in Messages : new.message[m] = (IF m \in ids THEN "voiced" ELSE msgs.message[m])
  BY <1>1, SaidIs
<1>3. ASSUME NEW m \in Messages
      PROVE  \/ new.message[m] = message[m]
             \/ message[m] = "due" /\ new.message[m] = "withdrawn"
             \/ message[m] = "due" /\ new.message[m] = "voiced" /\ PersonOf[m] \notin gone
  BY <1>2 DEF Settled
<1> QED BY <1>2, <1>3 DEF Settled

LEMMA UnmarkSettles ==
    ASSUME NEW msgs \in Settled, NEW p, NEW ids
    PROVE  Unmark(msgs, p, ids) \in Settled /\ Unmark(msgs, p, ids).message = msgs.message
<1>1. PICK new \in PhoneState : new = Unmark(msgs, p, ids) /\ new.message = msgs.message
  BY UnmarkIs DEF Settled
<1> QED BY <1>1 DEF Settled

LEMMA RetiredSettles ==
    ASSUME NEW msgs \in Settled
    PROVE  /\ Retired(msgs) \in Settled
           /\ \A m \in Messages : Retired(msgs).message[m] \in {msgs.message[m], "withdrawn"}
           /\ \A m \in Voiceable(msgs) : Retired(msgs).message[m] = "due"
<1>1. Retired(msgs) \in Settled
  BY WithdrawnSettles DEF Retired, Unmarked
<1>2. \A m \in Messages : Retired(msgs).message[m] \in {msgs.message[m], "withdrawn"}
  BY DEF Retired, Withdrawn
<1>3. \A m \in Voiceable(msgs) : Retired(msgs).message[m] = "due"
  BY DEF Retired, Withdrawn, Voiceable, Unmarked
<1> QED BY <1>1, <1>2, <1>3

LEMMA FellBackSettles ==
    ASSUME NEW msgs \in Settled
    PROVE  FellBack(msgs) \in Settled
<1>1. PICK r \in Settled : r = Retired(msgs)
  BY RetiredSettles
<1>2. \A m \in Voiceable(msgs) : r.message[m] = "due" /\ PersonOf[m] \notin gone
  BY <1>1, RetiredSettles DEF Voiceable
<1> QED BY <1>1, <1>2, SaidSettles DEF FellBack

LEMMA RepliedSettles ==
    ASSUME NEW msgs \in Settled, NEW p, NEW ids \in SUBSET Messages
    PROVE  Replied(msgs, p, ids) \in Settled
<1>1. PICK wanted : wanted = Wanted(msgs, p, ids)
  OBVIOUS
<1>2. PICK left : left = {m \in Messages : PersonOf[m] \in gone /\ \E i \in ids : PersonOf[i] = PersonOf[m]}
  OBVIOUS
<1>3. PICK u \in Settled : u = Unmark(msgs, p, ids) /\ u.message = msgs.message
  BY UnmarkSettles
<1>4. CASE left # {}
  <2>1. PICK out : out = {m \in left : msgs.message[m] = "due"}
    OBVIOUS
  <2>2. Replied(msgs, p, ids) = Withdrawn(u, out)
    BY <1>2, <1>3, <1>4, <2>1 DEF Replied
  <2> QED BY <1>3, <2>1, <2>2, WithdrawnSettles
<1>5. CASE left = {} /\ wanted = {}
  BY <1>1, <1>2, <1>3, <1>5 DEF Replied
<1>6. CASE left = {} /\ wanted # {}
  <2>1. Replied(msgs, p, ids) = Said(msgs, wanted)
    BY <1>1, <1>2, <1>6 DEF Replied
  <2>2. \A m \in wanted : msgs.message[m] = "due" /\ PersonOf[m] \notin gone
    BY <1>1, <1>2, <1>6 DEF Wanted
  <2> QED BY <2>1, <2>2, SaidSettles
<1> QED BY <1>4, <1>5, <1>6

LEMMA DrainedSettles ==
    ASSUME NEW faulty, message \in [Messages -> MessageStates],
           mark \in [Messages -> Passes \cup {0}], inbox \in Seq(Reply)
    PROVE  Phone \in Settled /\ Drained(faulty) \in Settled
<1>1. Phone \in Settled
  BY DEF Phone, Settled, PhoneState
<1>2. ASSUME NEW msgs \in Settled, NEW i \in Reply PROVE Applied(msgs, i, faulty) \in Settled
  BY <1>2, FellBackSettles, UnmarkSettles, RepliedSettles DEF Applied, Reply
<1> QED BY <1>1, <1>2, DrainKeeps

----------------------------------------------------------------------------
(* A player in a world turn has the turn lock, so the run is not released.  *)
VoiceTyped ==
    /\ message \in [Messages -> MessageStates] /\ mark \in [Messages -> Passes \cup {0}]
    /\ inbox \in Seq(Reply) /\ alive \in BOOLEAN /\ turnLock \in BOOLEAN
TurnHeld == \A q \in Players : player[q] = "turn" => turnLock /\ alive
SaidInv == PhoneInv /\ VoiceTyped /\ TurnHeld

InTime ==
    \A m \in Messages :
        message'[m] # message[m] =>
            /\ message[m] \in {"later", "due"}
            /\ message'[m] = "voiced" => alive /\ PersonOf[m] \notin gone

LEMMA SaidInit == PhoneInit => SaidInv
<1> SUFFICES ASSUME PhoneInit PROVE SaidInv
  OBVIOUS
<1>1. VoiceTyped
  <2>1. message \in [Messages -> MessageStates]
    BY DEF PhoneInit, MessageStates
  <2>2. mark \in [Messages -> Passes \cup {0}] /\ inbox \in Seq(Reply)
    BY DEF PhoneInit
  <2> QED BY <2>1, <2>2 DEF PhoneInit, VoiceTyped
<1>2. TurnHeld
  BY DEF PhoneInit, TurnHeld
<1> QED BY <1>1, <1>2, InitInv DEF SaidInv

LEMMA NothingSaid ==
    ASSUME VoiceTyped, UNCHANGED <<message, mark, inbox>>, alive' \in BOOLEAN, turnLock' \in BOOLEAN
    PROVE  VoiceTyped' /\ InTime
BY DEF VoiceTyped, InTime

LEMMA Says ==
    ASSUME VoiceTyped, NEW msgs \in Settled,
           NEW due, \A m \in Messages : m \in due => msgs.message[m] = "later",
           message' = [m \in Messages |-> IF m \in due THEN "due" ELSE msgs.message[m]],
           mark' \in [Messages -> Passes \cup {0}], inbox' \in Seq(Reply),
           UNCHANGED alive, turnLock' \in BOOLEAN,
           alive \/ \A m \in Messages : msgs.message[m] \in {message[m], "withdrawn"}
    PROVE  VoiceTyped' /\ InTime
<1>1. msgs.message \in [Messages -> MessageStates]
  BY DEF Settled, PhoneState
<1>2. message' \in [Messages -> MessageStates]
  BY <1>1 DEF MessageStates
<1>3. InTime
  <2> SUFFICES ASSUME NEW m \in Messages, message'[m] # message[m]
               PROVE  /\ message[m] \in {"later", "due"}
                      /\ message'[m] = "voiced" => alive /\ PersonOf[m] \notin gone
    BY DEF InTime
  <2>1. CASE m \in due
    BY <2>1 DEF Settled
  <2>2. CASE m \notin due
    <3>1. message'[m] = msgs.message[m]
      BY <2>2
    <3> QED BY <3>1 DEF Settled
  <2> QED BY <2>1, <2>2
<1> QED BY <1>2, <1>3 DEF VoiceTyped

LEMMA SaysThat ==
    ASSUME VoiceTyped, NEW msgs \in Settled, message' = msgs.message,
           mark' \in [Messages -> Passes \cup {0}], inbox' \in Seq(Reply),
           UNCHANGED alive, turnLock' \in BOOLEAN,
           alive \/ \A m \in Messages : msgs.message[m] \in {message[m], "withdrawn"}
    PROVE  VoiceTyped' /\ InTime
<1>1. msgs.message \in [Messages -> MessageStates]
  BY DEF Settled, PhoneState
<1>2. message' = [m \in Messages |-> IF m \in {} THEN "due" ELSE msgs.message[m]]
  BY <1>1
<1> QED BY <1>2, Says

LEMMA RetiredSays ==
    ASSUME VoiceTyped, Becomes(Retired(Phone)), UNCHANGED <<alive, turnLock, inbox>>
    PROVE  VoiceTyped' /\ InTime
<1>1. Phone \in Settled /\ Phone.message = message
  BY DrainedSettles DEF VoiceTyped, Phone
<1>2. PICK r \in Settled : r = Retired(Phone)
  BY <1>1, RetiredSettles
<1>3. \A m \in Messages : r.message[m] \in {message[m], "withdrawn"}
  BY <1>1, <1>2, RetiredSettles
<1>4. message' = r.message /\ mark' = r.mark
  BY <1>2 DEF Becomes
<1>5. mark' \in [Messages -> Passes \cup {0}]
  BY <1>4 DEF Settled, PhoneState
<1> QED BY <1>3, <1>4, <1>5, SaysThat DEF VoiceTyped

LEMMA FallsBack ==
    ASSUME VoiceTyped, NEW w, FallBack(w)
    PROVE  VoiceTyped' /\ InTime
<1>1. Phone \in Settled
  BY DrainedSettles DEF VoiceTyped
<1>2. CASE Live(w) /\ Becomes(FellBack(Phone)) /\ UNCHANGED <<alive, turnLock, gone, inbox>>
  <2>1. PICK msgs \in Settled : msgs = FellBack(Phone)
    BY <1>1, FellBackSettles
  <2>2. message' = msgs.message /\ mark' = msgs.mark /\ alive
    BY <1>2, <2>1 DEF Becomes, Live
  <2>3. mark' \in [Messages -> Passes \cup {0}]
    BY <2>2 DEF Settled, PhoneState
  <2> QED BY <1>2, <2>2, <2>3, SaysThat DEF VoiceTyped
<1>3. CASE inbox' = Append(inbox, OpenFallback) /\ UNCHANGED <<alive, turnLock, message, gone, mark>>
  <2>1. OpenFallback \in Reply
    BY DEF OpenFallback, Reply
  <2>2. inbox' \in Seq(Reply)
    BY <1>3, <2>1 DEF VoiceTyped
  <2> QED BY <1>3, <2>2 DEF VoiceTyped, InTime
<1>4. CASE UNCHANGED session
  BY <1>4, NothingSaid DEF session, VoiceTyped
<1> QED BY <1>2, <1>3, <1>4 DEF FallBack

(* A scheduler's thread says what it was asked for by a run that is live. *)
LEMMA SnapshotSays ==
    ASSUME SaidInv, NEW w \in Workers, NEW faulty, Snapshot(w, faulty)
    PROVE  VoiceTyped' /\ InTime
<1>1. VoiceTyped
  BY DEF SaidInv
<1>2. alive /\ inbox' = <<>> /\ UNCHANGED <<alive, turnLock>>
  BY DEF Snapshot, Live
<1>3. PICK msgs \in Settled : msgs = Drained(faulty)
  BY <1>1, DrainedSettles DEF VoiceTyped
<1>4. PICK r \in Settled : r = Retired(msgs)
  BY RetiredSettles
<1>5. PICK p \in Passes \cup {0} : p = worker[w].pass
  BY DEF SaidInv, PhoneInv, PhoneTypeOK, WorkerState
<1>6. r.mark \in [Messages -> Passes \cup {0}]
  BY DEF Settled, PhoneState
<1>7. inbox' \in Seq(Reply)
  BY <1>2
<1>8. message' = r.message
  <2>1. CASE DueBeyond(p, msgs)
    BY <1>3, <1>4, <1>5, <2>1 DEF Snapshot
  <2>2. CASE ~DueBeyond(p, msgs)
    BY <1>3, <1>4, <1>5, <2>2 DEF Snapshot, Becomes
  <2> QED BY <2>1, <2>2
<1>9. mark' \in [Messages -> Passes \cup {0}]
  <2>1. CASE DueBeyond(p, msgs)
    <3>1. DueBeyond(worker[w].pass, Drained(faulty))
      BY <1>3, <1>5, <2>1
    <3>2. PICK who \in People :
             mark' = [m \in Messages |->
                        IF m \in {i \in Voiceable(Drained(faulty)) : PersonOf[i] = who}
                        THEN worker[w].pass ELSE Retired(Drained(faulty)).mark[m]]
      BY <3>1 DEF Snapshot
    <3>3. PICK words : words = {i \in Voiceable(Drained(faulty)) : PersonOf[i] = who}
      OBVIOUS
    <3>4. mark' = [m \in Messages |-> IF m \in words THEN p ELSE r.mark[m]]
      BY <1>3, <1>4, <1>5, <3>2, <3>3
    <3> QED BY <1>5, <1>6, <3>4
  <2>2. CASE ~DueBeyond(p, msgs)
    BY <1>3, <1>4, <1>5, <1>6, <2>2 DEF Snapshot, Becomes
  <2> QED BY <2>1, <2>2
<1> QED BY <1>1, <1>2, <1>7, <1>8, <1>9, SaysThat DEF VoiceTyped

LEMMA CommitSays ==
    ASSUME SaidInv, NEW w \in Workers, NEW more, Commit(w, more)
    PROVE  VoiceTyped' /\ InTime
<1>1. VoiceTyped /\ Phone \in Settled
  BY DrainedSettles DEF SaidInv, VoiceTyped
<1>2. PICK p : p = worker[w].pass
  OBVIOUS
<1>3. PICK ids \in SUBSET Messages : ids = worker[w].words
  BY DEF SaidInv, PhoneInv, PhoneTypeOK, WorkerState
<1>4. PICK msgs \in Settled : msgs = Replied(Phone, p, ids)
  BY <1>1, RepliedSettles
<1>5. /\ message' = [m \in Messages |-> IF m \in more THEN "due" ELSE msgs.message[m]]
      /\ mark' = msgs.mark /\ alive /\ UNCHANGED <<alive, turnLock, inbox>>
  BY <1>2, <1>3, <1>4 DEF Commit, Live
<1>6. \A m \in Messages : m \in more => message[m] = "later"
  BY DEF Commit
<1>7. \A m \in Messages : m \in more => msgs.message[m] = "later"
  BY <1>6 DEF Settled
<1>8. mark' \in [Messages -> Passes \cup {0}]
  BY <1>5 DEF Settled, PhoneState
<1> QED BY <1>1, <1>5, <1>7, <1>8, Says DEF VoiceTyped

LEMMA WorkersSay ==
    ASSUME SaidInv, NEW w \in Workers, Calls(w) \/ WorkerStep(w)
    PROVE  VoiceTyped' /\ InTime
<1>1. VoiceTyped /\ alive \in BOOLEAN /\ turnLock \in BOOLEAN
  BY DEF SaidInv, VoiceTyped
<1>2. CASE UNCHANGED session
  BY <1>1, <1>2, NothingSaid DEF session
<1>3. ASSUME NEW faulty, LookFirst(w, faulty) PROVE VoiceTyped' /\ InTime
  <2>1. PICK msgs \in Settled : msgs = Retired(Drained(faulty))
    BY <1>1, DrainedSettles, RetiredSettles DEF VoiceTyped
  <2>2. /\ message' = msgs.message /\ mark' = msgs.mark /\ inbox' = <<>> /\ alive
        /\ UNCHANGED <<alive, turnLock>>
    BY <1>3, <2>1 DEF LookFirst, Becomes, Live
  <2>3. mark' \in [Messages -> Passes \cup {0}] /\ inbox' \in Seq(Reply)
    BY <2>2 DEF Settled, PhoneState
  <2> QED BY <1>1, <2>2, <2>3, SaysThat
<1>4. ASSUME NEW faulty, Snapshot(w, faulty) PROVE VoiceTyped' /\ InTime
  BY <1>4, SnapshotSays
<1>5. ASSUME NEW more, Commit(w, more) PROVE VoiceTyped' /\ InTime
  BY <1>5, CommitSays
<1>6. CASE Park(w)
  <2>1. PICK ids \in SUBSET Messages : ids = worker[w].words
    BY DEF SaidInv, PhoneInv, PhoneTypeOK, WorkerState
  <2>2. PICK p \in Passes \cup {0} : p = worker[w].pass
    BY DEF SaidInv, PhoneInv, PhoneTypeOK, WorkerState
  <2>3. PICK reply \in Reply : reply = Parked(p, ids)
    BY DEF Parked, Reply
  <2>4. inbox' = Append(inbox, reply) /\ UNCHANGED <<alive, turnLock, message, mark>>
    BY <1>6, <2>1, <2>2, <2>3 DEF Park
  <2>5. inbox' \in Seq(Reply)
    BY <1>1, <2>4 DEF VoiceTyped
  <2> QED BY <1>1, <2>4, <2>5 DEF VoiceTyped, InTime
<1>7. CASE Overdue(w)
  BY <1>1, <1>2, <1>7, FallsBack DEF Overdue
<1>8. CASE Finish(w)
  BY <1>1, <1>2, <1>8, RetiredSays DEF Finish
<1>9. CASE ClearMarks(w)
  <2>1. PICK p : p = worker[w].pass
    OBVIOUS
  <2>2. PICK ids : ids = Messages \ pass[p].parked
    OBVIOUS
  <2>3. PICK msgs \in Settled : msgs = Unmark(Phone, p, ids)
    BY <1>1, DrainedSettles, UnmarkSettles DEF VoiceTyped
  <2>4. mark' = msgs.mark /\ UNCHANGED <<alive, turnLock, message, inbox>>
    BY <1>9, <2>1, <2>2, <2>3 DEF ClearMarks
  <2>5. mark' \in [Messages -> Passes \cup {0}]
    BY <2>4 DEF Settled, PhoneState
  <2> QED BY <1>1, <2>4, <2>5 DEF VoiceTyped, InTime
<1>10. CASE Dropped(w)
  BY <1>1, <1>10, FallsBack DEF Dropped
<1>11. CASE LookTaken(w) \/ Admitted(w) \/ SnapshotTaken(w) \/ Discard(w) \/ PassFails(w)
            \/ RecapEnds(w)
  BY <1>2, <1>11 DEF LookTaken, Admitted, SnapshotTaken, Discard, PassFails, RecapEnds
<1>12. CASE Begin(w) \/ NextCall(w) \/ Recap(w) \/ After(w)
  BY <1>2, <1>12 DEF Begin, NextCall, Recap, After
<1> QED BY <1>3, <1>4, <1>5, <1>6, <1>7, <1>8, <1>9, <1>10, <1>11, <1>12 DEF Calls, WorkerStep

(* What the player does brings what was to come, and drains what was parked. *)
LEMMA BringsInTime ==
    ASSUME VoiceTyped, alive, NEW faulty, NEW due, NEW leave, Brings(Drained(faulty), due, leave),
           UNCHANGED alive, turnLock' \in BOOLEAN
    PROVE  VoiceTyped' /\ InTime
<1>1. PICK msgs \in Settled : msgs = Drained(faulty)
  BY DrainedSettles DEF VoiceTyped
<1>2. /\ message' = [m \in Messages |-> IF m \in due THEN "due" ELSE msgs.message[m]]
      /\ mark' = msgs.mark /\ inbox' = <<>>
      /\ \A m \in due : msgs.message[m] = "later"
  BY <1>1 DEF Brings
<1>3. mark' \in [Messages -> Passes \cup {0}] /\ inbox' \in Seq(Reply)
  BY <1>2 DEF Settled, PhoneState
<1> QED BY <1>2, <1>3, Says

LEMMA PlayersSay ==
    ASSUME SaidInv, NEW q \in Players, PlayerStep(q)
    PROVE  VoiceTyped' /\ InTime
<1>1. VoiceTyped /\ alive \in BOOLEAN /\ turnLock \in BOOLEAN
  BY DEF SaidInv, VoiceTyped
<1>2. CASE UNCHANGED session
  BY <1>1, <1>2, NothingSaid DEF session
<1>3. CASE RequestIfDue(q)
  BY <1>1, <1>2, <1>3, RetiredSays DEF RequestIfDue
<1>4. ASSUME NEW faulty, WorldBegins(q, faulty) PROVE VoiceTyped' /\ InTime
  <2>1. PICK msgs \in Settled : msgs = Drained(faulty)
    BY <1>1, DrainedSettles DEF VoiceTyped
  <2>2. /\ message' = msgs.message /\ mark' = msgs.mark /\ inbox' = <<>> /\ alive
        /\ alive' = alive /\ turnLock' = TRUE
    BY <1>4, <2>1 DEF WorldBegins, Becomes
  <2>3. mark' \in [Messages -> Passes \cup {0}] /\ inbox' \in Seq(Reply)
    BY <2>2 DEF Settled, PhoneState
  <2> QED BY <1>1, <2>2, <2>3, SaysThat
<1>5. ASSUME NEW due, NEW leave, WorldEnds(q, due, leave) PROVE VoiceTyped' /\ InTime
  <2>1. alive /\ alive' = alive /\ turnLock' = FALSE
    BY <1>5 DEF WorldEnds, SaidInv, TurnHeld
  <2> QED BY <1>1, <1>5, <2>1, BringsInTime DEF WorldEnds
<1>6. ASSUME NEW due, NEW leave, NEW faulty, PhoneAction(q, faulty, due, leave)
      PROVE  VoiceTyped' /\ InTime
  <2>1. alive /\ alive' = alive /\ turnLock' = turnLock
    BY <1>6 DEF PhoneAction
  <2> QED BY <1>1, <1>6, <2>1, BringsInTime DEF PhoneAction
<1>7. CASE WorldWaits(q) \/ WorldTakes(q) \/ WorldGivesUp(q) \/ WorldRefused(q) \/ WorldLetsGo(q)
           \/ WorldAsks(q)
  BY <1>2, <1>7 DEF WorldWaits, WorldTakes, WorldGivesUp, WorldRefused, WorldLetsGo, WorldAsks
<1> QED BY <1>3, <1>4, <1>5, <1>6, <1>7 DEF PlayerStep

(* The turn lock: nobody releases the run, and nobody else is in a turn. *)
LEMMA TurnIsHeld ==
    ASSUME SaidInv, PhoneNext
    PROVE  TurnHeld'
<1> USE DEF SaidInv, TurnHeld, session
<1>1. CASE UNCHANGED <<player, alive, turnLock>>
  BY <1>1
<1>2. ASSUME NEW w \in Workers, Calls(w) PROVE UNCHANGED <<player, alive, turnLock>>
  BY <1>2 DEF Calls, LookTaken, Admitted, SnapshotTaken, LookFirst, Snapshot, Commit, Park, Discard,
              PassFails, RecapEnds
<1>3. ASSUME NEW w \in Workers, WorkerStep(w) PROVE UNCHANGED <<player, alive, turnLock>>
  <2>1. ASSUME FallBack(w) PROVE UNCHANGED <<alive, turnLock>>
    BY <2>1 DEF FallBack
  <2> QED BY <1>3, <2>1 DEF WorkerStep, Begin, NextCall, Recap, Overdue, Finish, ClearMarks, After,
                            Dropped
<1>4. ASSUME NEW q \in Players, PlayerStep(q) PROVE TurnHeld'
  <2>1. player \in [Players -> PlayerPlaces]
    BY DEF PhoneInv, PhoneTypeOK
  <2>2. CASE \E faulty \in SUBSET InInbox : WorldBegins(q, faulty)
    BY <2>1, <2>2 DEF WorldBegins, PlayerAt
  <2>3. ASSUME NEW due, NEW leave, WorldEnds(q, due, leave) PROVE TurnHeld'
    <3>1. \A v \in Players \ {q} : player[v] # "turn"
      BY <2>3 DEF WorldEnds, PhoneInv, HolderTold, InWorld
    <3> QED BY <2>1, <2>3, <3>1 DEF WorldEnds, PlayerAt
  <2>4. CASE \E place \in PlayerPlaces \ {"turn"} : PlayerAt(q, place) /\ UNCHANGED <<alive, turnLock>>
    BY <2>1, <2>4 DEF PlayerAt
  <2> QED BY <1>4, <2>2, <2>3, <2>4
          DEF PlayerStep, RequestIfDue, WorldWaits, WorldTakes, WorldGivesUp, WorldRefused,
              WorldLetsGo, WorldAsks, PhoneAction, PlayerPlaces
<1>5. CASE Release
  BY <1>5 DEF Release
<1>6. CASE Join \/ Overflow \/ Judge \/ TakeOut \/ Fire
  BY <1>6 DEF Join, Overflow, Judge, TakeOut, Fire
<1> QED BY <1>1, <1>2, <1>3, <1>4, <1>5, <1>6 DEF PhoneNext

LEMMA SaidStep ==
    ASSUME SaidInv, [PhoneNext]_phoneVars
    PROVE  SaidInv' /\ InTime
<1>1. PhoneInv'
  BY StepInv DEF SaidInv
<1>2. VoiceTyped /\ alive \in BOOLEAN /\ turnLock \in BOOLEAN
  BY DEF SaidInv, VoiceTyped
<1>3. CASE UNCHANGED phoneVars
  <2>1. VoiceTyped' /\ InTime
    BY <1>2, <1>3, NothingSaid DEF phoneVars, session
  <2>2. TurnHeld'
    BY <1>3 DEF SaidInv, TurnHeld, phoneVars, session
  <2> QED BY <1>1, <2>1, <2>2 DEF SaidInv
<1>4. CASE PhoneNext
  <2>1. VoiceTyped' /\ InTime
    <3>1. CASE \E w \in Workers : Calls(w) \/ WorkerStep(w)
      BY <3>1, WorkersSay
    <3>2. CASE \E q \in Players : PlayerStep(q)
      BY <3>2, PlayersSay
    <3>3. CASE Join \/ Overflow \/ Judge \/ TakeOut \/ Fire
      BY <1>2, <3>3, NothingSaid DEF Join, Overflow, Judge, TakeOut, Fire, session
    <3>4. CASE Release
      BY <1>2, <3>4, NothingSaid DEF Release
    <3> QED BY <1>4, <3>1, <3>2, <3>3, <3>4 DEF PhoneNext
  <2> QED BY <1>1, <1>4, <2>1, TurnIsHeld DEF SaidInv
<1> QED BY <1>3, <1>4

(* What was said stays said, nothing is said for a run that was released,   *)
(* and nobody who left says anything, however long ago their reply was      *)
(* asked for (voicer.py, the four generation checks, _apply_reply,          *)
(* drain_inbox).                                                            *)
THEOREM NothingAfterLeavingHolds == PhoneSpec => NothingAfterLeaving
<1>1. SaidInv /\ [PhoneNext]_phoneVars => SaidInv'
  BY SaidStep
<1>2. SaidInv /\ [PhoneNext]_phoneVars
      => [\A m \in Messages :
            message'[m] # message[m] =>
                /\ message[m] \in {"later", "due"}
                /\ message'[m] = "voiced" => alive /\ PersonOf[m] \notin gone]_phoneVars
  BY SaidStep DEF InTime
<1> QED BY <1>1, <1>2, SaidInit, PTL DEF PhoneSpec, NothingAfterLeaving

----------------------------------------------------------------------------
(* Who answers for a mark.  A call's words are marked by its pass and in no *)
(* reply; a reply's are marked by the pass that parked it until they are    *)
(* settled, and by no other reply; a pass that may run again knows which it *)
(* has parked; and what a pass has marked, it words, has parked, or is      *)
(* about to clear.                                                          *)
Worded(w, m) == worker[w].at = "call" /\ m \in worker[w].words
Answering(w, m, p) == worker[w].pass = p /\ (Worded(w, m) \/ worker[w].at = "clear")
InReply(k, m) == m \in inbox[k].ids

WordsMarked ==
    \A w \in Workers, m \in Messages : Worded(w, m) =>
        /\ message[m] # "later" /\ (message[m] = "due" => mark[m] = worker[w].pass)
        /\ \A k \in DOMAIN inbox : ~InReply(k, m)
        /\ \A n \in Messages : Worded(w, n) => PersonOf[n] = PersonOf[m]
RepliesMarked ==
    \A k \in DOMAIN inbox, m \in Messages : InReply(k, m) =>
        /\ inbox[k].kind = "voiced" /\ inbox[k].pass # 0
        /\ message[m] # "later" /\ (message[m] = "due" => mark[m] = inbox[k].pass)
        /\ \A j \in DOMAIN inbox : InReply(j, m) => j = k
        /\ \A n \in Messages : InReply(k, n) => PersonOf[n] = PersonOf[m]
ParkedNoted ==
    /\ \A k \in DOMAIN inbox, m \in Messages :
          InReply(k, m) /\ inbox[k].pass \in {queue, flying} => m \in pass[inbox[k].pass].parked
    /\ \A p \in Passes, m \in Messages : m \in pass[p].parked =>
          /\ message[m] # "later"
          /\ message[m] = "due" => \E k \in DOMAIN inbox : inbox[k].pass = p /\ InReply(k, m)
MarksAnswered ==
    \A m \in Messages :
        /\ message[m] = "later" => mark[m] = 0
        /\ message[m] = "due" /\ mark[m] # 0 =>
              \/ \E k \in DOMAIN inbox : InReply(k, m)
              \/ \E w \in Workers : Answering(w, m, mark[m])
ReplyInv == WordsMarked /\ RepliesMarked /\ ParkedNoted /\ MarksAnswered

(* What a hold of the lock leaves due was due, with the mark it had. *)
LessDue(msgs) ==
    {new \in PhoneState : \A m \in Messages :
        /\ new.message[m] = "later" <=> msgs.message[m] = "later"
        /\ new.message[m] = "due" => msgs.message[m] = "due" /\ new.mark[m] = msgs.mark[m]
        /\ new.message[m] = "later" /\ msgs.mark[m] = 0 => new.mark[m] = 0}

LEMMA LessAndLess ==
    ASSUME NEW a, NEW b \in LessDue(a), NEW c \in LessDue(b)
    PROVE  c \in LessDue(a)
BY DEF LessDue

LEMMA WithdrawnLess ==
    ASSUME NEW msgs \in PhoneState, NEW ids, \A m \in Messages : m \in ids => msgs.message[m] = "due"
    PROVE  Withdrawn(msgs, ids) \in LessDue(msgs)
<1>1. PICK new \in PhoneState :
         /\ new = Withdrawn(msgs, ids)
         /\ \A m \in Messages :
               /\ new.message[m] = (IF m \in ids THEN "withdrawn" ELSE msgs.message[m])
               /\ new.mark[m] = (IF m \in ids THEN 0 ELSE msgs.mark[m])
  BY WithdrawnIs
<1> QED BY <1>1 DEF LessDue

LEMMA SaidLess ==
    ASSUME NEW msgs \in PhoneState, NEW ids, \A m \in Messages : m \in ids => msgs.message[m] = "due"
    PROVE  Said(msgs, ids) \in LessDue(msgs)
<1>1. PICK new \in PhoneState :
         /\ new = Said(msgs, ids)
         /\ \A m \in Messages :
               /\ new.message[m] = (IF m \in ids THEN "voiced" ELSE msgs.message[m])
               /\ new.mark[m] = (IF m \in ids THEN 0 ELSE msgs.mark[m])
  BY SaidIs
<1> QED BY <1>1 DEF LessDue

LEMMA RetiredLess ==
    ASSUME NEW msgs \in PhoneState
    PROVE  Retired(msgs) \in LessDue(msgs)
BY WithdrawnLess DEF Retired, Unmarked

LEMMA FellBackLess ==
    ASSUME NEW msgs \in PhoneState
    PROVE  FellBack(msgs) \in LessDue(msgs)
<1>1. PICK r \in LessDue(msgs) : r = Retired(msgs)
  BY RetiredLess
<1>2. \A m \in Voiceable(msgs) : r.message[m] = "due"
  BY <1>1 DEF Retired, Withdrawn, Voiceable, Unmarked
<1>3. r \in PhoneState
  BY DEF LessDue
<1>4. PICK due : due = Voiceable(msgs)
  OBVIOUS
<1>5. Said(r, due) \in LessDue(r)
  BY <1>2, <1>3, <1>4, SaidLess
<1> QED BY <1>1, <1>4, <1>5, LessAndLess DEF FellBack

(* One person's reply settles all it words, and touches nothing else due. *)
LEMMA RepliedLess ==
    ASSUME NEW msgs \in PhoneState, NEW p, NEW ids \in SUBSET Messages,
           \A m \in ids : msgs.message[m] = "due" => msgs.mark[m] = p,
           \A m, n \in ids : PersonOf[m] = PersonOf[n]
    PROVE  /\ Replied(msgs, p, ids) \in LessDue(msgs)
           /\ \A m \in ids : Replied(msgs, p, ids).message[m] # "due"
<1>1. PICK wanted : wanted = Wanted(msgs, p, ids)
  OBVIOUS
<1>2. PICK left : left = {m \in Messages : PersonOf[m] \in gone /\ \E i \in ids : PersonOf[i] = PersonOf[m]}
  OBVIOUS
<1>3. wanted = {m \in ids : msgs.message[m] = "due"}
  BY <1>1 DEF Wanted
<1>4. PICK u \in PhoneState :
         /\ u = Unmark(msgs, p, ids) /\ u.message = msgs.message
         /\ \A m \in Messages : u.mark[m] = (IF m \in ids /\ msgs.mark[m] = p THEN 0 ELSE msgs.mark[m])
  BY UnmarkIs
<1>5. CASE left # {}
  <2>1. PICK out : out = {m \in left : msgs.message[m] = "due"}
    OBVIOUS
  <2>2. wanted \subseteq out
    BY <1>2, <1>3, <1>5, <2>1
  <2>3. Replied(msgs, p, ids) = Withdrawn(u, out)
    BY <1>2, <1>4, <1>5, <2>1 DEF Replied
  <2>4. PICK new \in LessDue(u) : new = Withdrawn(u, out)
    BY <1>4, <2>1, WithdrawnLess
  <2>5. \A m \in Messages : new.message[m] = (IF m \in out THEN "withdrawn" ELSE msgs.message[m])
    BY <1>4, <2>4 DEF Withdrawn
  <2>6. \A m \in ids : new.message[m] # "due"
    BY <1>3, <2>2, <2>5
  <2>7. ASSUME NEW m \in Messages
        PROVE  /\ new.message[m] = "later" <=> msgs.message[m] = "later"
               /\ new.message[m] = "due" => msgs.message[m] = "due" /\ new.mark[m] = msgs.mark[m]
               /\ new.message[m] = "later" /\ msgs.mark[m] = 0 => new.mark[m] = 0
    <3>1. /\ new.message[m] = "later" <=> msgs.message[m] = "later"
          /\ new.message[m] = "due" => msgs.message[m] = "due" /\ new.mark[m] = u.mark[m]
          /\ new.message[m] = "later" /\ u.mark[m] = 0 => new.mark[m] = 0
      BY <1>4, <2>4 DEF LessDue
    <3>2. m \notin ids => u.mark[m] = msgs.mark[m]
      BY <1>4
    <3>3. msgs.mark[m] = 0 => u.mark[m] = 0
      BY <1>4
    <3> QED BY <2>6, <3>1, <3>2, <3>3
  <2>8. new \in PhoneState
    BY <2>4 DEF LessDue
  <2> QED BY <2>3, <2>4, <2>6, <2>7, <2>8 DEF LessDue
<1>6. CASE left = {} /\ wanted = {}
  <2>1. Replied(msgs, p, ids) = u
    BY <1>1, <1>2, <1>4, <1>6 DEF Replied
  <2>2. \A m \in ids : u.message[m] # "due"
    BY <1>3, <1>4, <1>6
  <2>3. \A m \in Messages : u.message[m] = "due" => u.mark[m] = msgs.mark[m]
    BY <1>4, <2>2
  <2>4. \A m \in Messages : msgs.mark[m] = 0 => u.mark[m] = 0
    BY <1>4
  <2> QED BY <1>4, <2>1, <2>2, <2>3, <2>4 DEF LessDue
<1>7. CASE left = {} /\ wanted # {}
  <2>1. Replied(msgs, p, ids) = Said(msgs, wanted)
    BY <1>1, <1>2, <1>7 DEF Replied
  <2>2. PICK new \in LessDue(msgs) : new = Said(msgs, wanted)
    BY <1>3, SaidLess
  <2>3. \A m \in ids : new.message[m] # "due"
    BY <1>3, <2>2 DEF Said
  <2> QED BY <2>1, <2>2, <2>3
<1> QED BY <1>5, <1>6, <1>7

(* Draining settles every reply, if none raises, and touches nothing else due. *)
LEMMA DrainedLess ==
    ASSUME VoiceTyped, RepliesMarked
    PROVE  /\ Phone \in PhoneState /\ Drained({}) \in LessDue(Phone)
           /\ \A k \in DOMAIN inbox, m \in Messages : InReply(k, m) => Drained({}).message[m] # "due"
<1>1. PICK n \in Nat : DOMAIN inbox = 1..n /\ inbox \in [1..n -> Reply]
  <2>1. Len(inbox) \in Nat /\ DOMAIN inbox = 1..Len(inbox) /\ inbox \in [1..Len(inbox) -> Reply]
    BY DEF VoiceTyped
  <2> QED BY <2>1
<1>2. Phone \in PhoneState /\ Phone.message = message /\ Phone.mark = mark
  BY DEF VoiceTyped, Phone, PhoneState
<1> DEFINE G(k) == {msgs \in LessDue(Phone) :
                      \A j \in 1..k, m \in Messages : InReply(j, m) => msgs.message[m] # "due"}
<1>3. PICK Good : Good = [k \in 0..n |-> G(k)]
  OBVIOUS
<1>4. Phone \in Good[0]
  <2>1. Phone \in LessDue(Phone)
    BY <1>2 DEF LessDue
  <2>2. Phone \in G(0)
    BY <2>1
  <2> QED BY <1>3, <2>2
<1>5. ASSUME NEW k \in 1..n, NEW msgs \in Good[k - 1] PROVE Applied(msgs, inbox[k], {}) \in Good[k]
  <2>1. k \in 0..n /\ k - 1 \in 0..n /\ \A j \in 1..k : j = k \/ j \in 1..(k - 1)
    OBVIOUS
  <2>2. msgs \in LessDue(Phone) /\ \A j \in 1..(k - 1), m \in Messages : InReply(j, m) => msgs.message[m] # "due"
    BY <1>3, <1>5, <2>1
  <2>3. msgs \in PhoneState
    BY <2>2 DEF LessDue
  <2>4. PICK i \in Reply : i = inbox[k]
    BY <1>1
  <2>5. PICK ids \in SUBSET Messages : ids = i.ids
    BY DEF Reply
  <2>6. PICK new : new = Applied(msgs, i, {})
    OBVIOUS
  <2>7. new \in LessDue(msgs) /\ \A m \in ids : new.message[m] # "due"
    <3>1. CASE i.kind = "open_fallback"
      <4>1. new = FellBack(msgs)
        BY <2>6, <3>1 DEF Applied
      <4>2. ids = {}
        BY <1>1, <2>4, <2>5, <3>1 DEF RepliesMarked, InReply
      <4> QED BY <2>3, <4>1, <4>2, FellBackLess
    <3>2. CASE i.kind # "open_fallback"
      <4>1. new = Replied(msgs, i.pass, ids)
        BY <2>5, <2>6, <3>2 DEF Applied
      <4>2. \A m \in ids : msgs.message[m] = "due" => msgs.mark[m] = i.pass
        BY <1>1, <1>2, <2>2, <2>4, <2>5 DEF RepliesMarked, InReply, LessDue
      <4>3. \A m, o \in ids : PersonOf[m] = PersonOf[o]
        BY <1>1, <2>4, <2>5 DEF RepliesMarked, InReply
      <4> QED BY <2>3, <4>1, <4>2, <4>3, RepliedLess
    <3> QED BY <3>1, <3>2
  <2>8. new \in LessDue(Phone)
    BY <2>2, <2>7, LessAndLess
  <2>9. ASSUME NEW j \in 1..k, NEW m \in Messages, InReply(j, m) PROVE new.message[m] # "due"
    <3>1. CASE j = k
      BY <2>4, <2>5, <2>7, <2>9, <3>1 DEF InReply
    <3>2. CASE j \in 1..(k - 1)
      BY <2>2, <2>7, <2>9, <3>2 DEF LessDue
    <3> QED BY <2>1, <3>1, <3>2
  <2>10. new \in G(k)
    BY <2>8, <2>9
  <2> QED BY <1>3, <2>1, <2>4, <2>6, <2>10
<1>6. Drained({}) \in Good[n]
  BY <1>1, <1>4, <1>5, DrainGoesOn
<1>7. Drained({}) \in G(n)
  BY <1>3, <1>6
<1> QED BY <1>1, <1>2, <1>7

----------------------------------------------------------------------------
(* What most steps do: some of what was due is settled, what was to come    *)
(* may be due now, nobody begins a call, and a reply, a call or a pass that *)
(* answered for something still does, or it is settled.                     *)
RepliesStay(msgs) ==
    /\ \A k \in DOMAIN inbox', m \in Messages :
          InReply(k, m)' => k \in DOMAIN inbox /\ inbox'[k] = inbox[k]
    /\ \A k \in DOMAIN inbox, m \in Messages : InReply(k, m) =>
          \/ k \in DOMAIN inbox' /\ inbox'[k] = inbox[k]
          \/ msgs.message[m] # "due"
CallsStay(msgs) ==
    \A w \in Workers :
        /\ worker'[w].at = "call" => worker'[w] = worker[w]
        /\ worker[w].at = "call" /\ worker'[w] # worker[w] =>
              \/ worker'[w].at = "clear" /\ worker'[w].pass = worker[w].pass
              \/ \A m \in Messages : m \in worker[w].words => msgs.message[m] # "due"
        /\ worker[w].at = "clear" => worker'[w] = worker[w]
ParkedStay ==
    /\ \A p \in Passes, m \in Messages : m \in pass'[p].parked => m \in pass[p].parked
    /\ \A p \in Passes, k \in DOMAIN inbox : inbox[k].pass = p /\ p \in {queue', flying'} =>
          p \in {queue, flying} /\ pass'[p].parked = pass[p].parked

LEMMA CalmKeeps ==
    ASSUME ReplyInv, PhoneInv, VoiceTyped, NEW msgs \in LessDue(Phone), mark' = msgs.mark,
           NEW due, \A m \in Messages : m \in due => message[m] = "later",
           message' = [m \in Messages |-> IF m \in due THEN "due" ELSE msgs.message[m]],
           RepliesStay(msgs), CallsStay(msgs), ParkedStay
    PROVE  ReplyInv'
<1> USE DEF ReplyInv
<1>1. Phone.message = message /\ Phone.mark = mark
  BY DEF Phone
<1>2. ASSUME NEW m \in Messages
      PROVE  /\ message[m] # "later" => message'[m] = msgs.message[m] /\ message'[m] # "later"
             /\ message[m] # "later" /\ message'[m] = "due" => message[m] = "due" /\ mark'[m] = mark[m]
             /\ message[m] = "later" => mark[m] = 0 /\ mark'[m] = 0
  <2>1. /\ msgs.message[m] = "later" <=> message[m] = "later"
        /\ msgs.message[m] = "due" => message[m] = "due" /\ msgs.mark[m] = mark[m]
        /\ msgs.message[m] = "later" /\ mark[m] = 0 => msgs.mark[m] = 0
    BY <1>1 DEF LessDue
  <2> QED BY <2>1 DEF MarksAnswered
<1>3. WordsMarked'
  <2> SUFFICES ASSUME NEW w \in Workers, NEW m \in Messages, Worded(w, m)'
               PROVE  /\ message'[m] # "later" /\ (message'[m] = "due" => mark'[m] = worker'[w].pass)
                      /\ \A k \in DOMAIN inbox' : ~InReply(k, m)'
                      /\ \A n \in Messages : Worded(w, n)' => PersonOf[n] = PersonOf[m]
    BY DEF WordsMarked
  <2>1. worker'[w] = worker[w]
    BY DEF CallsStay, Worded
  <2>2. Worded(w, m) /\ \A n \in Messages : Worded(w, n)' => Worded(w, n)
    BY <2>1 DEF Worded
  <2>3. \A k \in DOMAIN inbox' : ~InReply(k, m)'
    BY <2>2 DEF RepliesStay, WordsMarked, InReply
  <2> QED BY <1>2, <2>1, <2>2, <2>3 DEF WordsMarked
<1>4. RepliesMarked'
  <2> SUFFICES ASSUME NEW k \in DOMAIN inbox', NEW m \in Messages, InReply(k, m)'
               PROVE  /\ inbox'[k].kind = "voiced" /\ inbox'[k].pass # 0
                      /\ message'[m] # "later" /\ (message'[m] = "due" => mark'[m] = inbox'[k].pass)
                      /\ \A j \in DOMAIN inbox' : InReply(j, m)' => j = k
                      /\ \A n \in Messages : InReply(k, n)' => PersonOf[n] = PersonOf[m]
    BY DEF RepliesMarked
  <2>1. k \in DOMAIN inbox /\ inbox'[k] = inbox[k]
    BY DEF RepliesStay
  <2>2. InReply(k, m) /\ \A n \in Messages : InReply(k, n)' => InReply(k, n)
    BY <2>1 DEF InReply
  <2>3. \A j \in DOMAIN inbox' : InReply(j, m)' => j \in DOMAIN inbox /\ InReply(j, m)
    BY DEF RepliesStay, InReply
  <2> QED BY <1>2, <2>1, <2>2, <2>3 DEF RepliesMarked
<1>5. ParkedNoted'
  <2>1. ASSUME NEW k \in DOMAIN inbox', NEW m \in Messages, InReply(k, m)',
               inbox'[k].pass \in {queue', flying'}
        PROVE  m \in pass'[inbox'[k].pass].parked
    <3>1. k \in DOMAIN inbox /\ inbox'[k] = inbox[k] /\ InReply(k, m)
      BY <2>1 DEF RepliesStay, InReply
    <3>2. PICK p : p = inbox[k].pass
      OBVIOUS
    <3>3. inbox[k] \in Reply /\ p # 0
      BY <3>1, <3>2 DEF VoiceTyped, RepliesMarked
    <3>4. p \in Passes
      BY <3>2, <3>3 DEF Reply
    <3>5. p \in {queue, flying} /\ pass'[p].parked = pass[p].parked
      BY <2>1, <3>1, <3>2, <3>4 DEF ParkedStay
    <3>6. m \in pass[p].parked
      BY <3>1, <3>2, <3>5 DEF ParkedNoted
    <3> QED BY <3>1, <3>2, <3>5, <3>6
  <2>2. ASSUME NEW p \in Passes, NEW m \in Messages, m \in pass'[p].parked
        PROVE  /\ message'[m] # "later"
               /\ message'[m] = "due" => \E k \in DOMAIN inbox' : inbox'[k].pass = p /\ InReply(k, m)'
    <3>1. m \in pass[p].parked /\ message[m] # "later"
      BY <2>2 DEF ParkedStay, ParkedNoted
    <3>2. ASSUME message'[m] = "due"
          PROVE  \E k \in DOMAIN inbox' : inbox'[k].pass = p /\ InReply(k, m)'
      <4>1. PICK k \in DOMAIN inbox : inbox[k].pass = p /\ InReply(k, m)
        BY <1>2, <3>1, <3>2 DEF ParkedNoted
      <4>2. k \in DOMAIN inbox' /\ inbox'[k] = inbox[k]
        BY <1>2, <3>1, <3>2, <4>1 DEF RepliesStay
      <4> QED BY <4>1, <4>2 DEF InReply
    <3> QED BY <1>2, <3>1, <3>2
  <2> QED BY <2>1, <2>2 DEF ParkedNoted
<1>6. MarksAnswered'
  <2>1. ASSUME NEW m \in Messages, message'[m] = "later" PROVE mark'[m] = 0
    BY <1>2, <2>1
  <2>2. ASSUME NEW m \in Messages, message'[m] = "due", mark'[m] # 0
        PROVE  \/ \E k \in DOMAIN inbox' : InReply(k, m)'
               \/ \E w \in Workers : worker'[w].pass = mark'[m] /\ (Worded(w, m)' \/ worker'[w].at = "clear")
    <3>1. message[m] = "due" /\ mark'[m] = mark[m] /\ msgs.message[m] = "due"
      BY <1>2, <2>2
    <3>2. ASSUME NEW k \in DOMAIN inbox, InReply(k, m) PROVE k \in DOMAIN inbox' /\ InReply(k, m)'
      BY <3>1, <3>2 DEF RepliesStay, InReply
    <3>3. ASSUME NEW w \in Workers, worker[w].pass = mark[m], Worded(w, m) \/ worker[w].at = "clear"
          PROVE  worker'[w].pass = mark[m] /\ (Worded(w, m)' \/ worker'[w].at = "clear")
      BY <3>1, <3>3 DEF CallsStay, Worded
    <3> QED BY <2>2, <3>1, <3>2, <3>3 DEF MarksAnswered, Answering
  <2> QED BY <2>1, <2>2 DEF MarksAnswered, Answering
<1> QED BY <1>3, <1>4, <1>5, <1>6
EachInv == ApartInv /\ SaidInv /\ ReplyInv

LEMMA LessKeeps ==
    ASSUME EachInv, NEW msgs \in LessDue(Phone), message' = msgs.message, mark' = msgs.mark,
           RepliesStay(msgs), CallsStay(msgs), ParkedStay
    PROVE  ReplyInv'
<1>1. msgs.message \in [Messages -> MessageStates]
  BY DEF LessDue, PhoneState
<1>2. message' = [m \in Messages |-> IF m \in {} THEN "due" ELSE msgs.message[m]]
  BY <1>1
<1>3. PhoneInv /\ VoiceTyped /\ ReplyInv
  BY DEF EachInv, SaidInv
<1> QED BY <1>2, <1>3, CalmKeeps

LEMMA SameMessages ==
    ASSUME EachInv
    PROVE  Phone \in LessDue(Phone) /\ Phone \in PhoneState /\ Phone.message = message /\ Phone.mark = mark
<1>1. Phone \in PhoneState /\ Phone.message = message /\ Phone.mark = mark
  BY DEF EachInv, SaidInv, VoiceTyped, Phone, PhoneState
<1> QED BY <1>1 DEF LessDue

LEMMA InboxStays ==
    ASSUME EachInv, NEW msgs, inbox' = inbox \/ inbox' = Append(inbox, OpenFallback)
    PROVE  RepliesStay(msgs)
<1>1. CASE inbox' = inbox
  BY <1>1 DEF RepliesStay, InReply
<1>2. CASE inbox' = Append(inbox, OpenFallback)
  <2>1. PICK n \in Nat : n = Len(inbox)
    BY DEF EachInv, SaidInv, VoiceTyped
  <2>2. DOMAIN inbox = 1..n
    BY <2>1 DEF EachInv, SaidInv, VoiceTyped
  <2>3. /\ DOMAIN inbox' = 1..(n + 1) /\ inbox'[n + 1] = OpenFallback
        /\ \A k \in 1..n : inbox'[k] = inbox[k]
    BY <1>2, <2>1 DEF EachInv, SaidInv, VoiceTyped
  <2>4. OpenFallback.ids = {}
    BY DEF OpenFallback
  <2>5. \A k \in 1..(n + 1) : k = n + 1 \/ k \in 1..n
    OBVIOUS
  <2>6. \A k \in 1..n : k \in 1..(n + 1)
    OBVIOUS
  <2> QED BY <2>2, <2>3, <2>4, <2>5, <2>6 DEF RepliesStay, InReply
<1> QED BY <1>1, <1>2

LEMMA InboxDrained ==
    ASSUME NEW msgs, inbox' = <<>>,
           \A k \in DOMAIN inbox, m \in Messages : InReply(k, m) => msgs.message[m] # "due"
    PROVE  RepliesStay(msgs)
<1>1. DOMAIN inbox' = {}
  OBVIOUS
<1> QED BY <1>1 DEF RepliesStay

LEMMA ThreadOn ==
    ASSUME NEW w \in Workers, \A v \in Workers \ {w} : worker'[v] = worker[v],
           worker'[w].at # "call", worker[w].at # "clear", NEW msgs,
           worker[w].at = "call" =>
              \/ worker'[w].at = "clear" /\ worker'[w].pass = worker[w].pass
              \/ \A m \in Messages : m \in worker[w].words => msgs.message[m] # "due"
    PROVE  CallsStay(msgs)
BY DEF CallsStay

LEMMA ThreadsStay ==
    ASSUME NEW msgs, worker' = worker
    PROVE  CallsStay(msgs)
BY DEF CallsStay

LEMMA PassesStay ==
    ASSUME UNCHANGED <<queue, flying>>, \A p \in Passes : pass'[p].parked = pass[p].parked
    PROVE  ParkedStay
BY DEF ParkedStay

LEMMA RequestParks ==
    ASSUME EachInv, Request
    PROVE  ParkedStay
<1>1. pass \in [Passes -> PassState] /\ queue \in Passes \cup {0} /\ flying \in Passes \cup {0}
  BY DEF EachInv, ApartInv, PassesTyped, PhoneInv, PhoneTypeOK
<1>2. CASE queue # 0 \/ (flying # 0 /\ pass[flying].cancelled)
  BY <1>2, PassesStay DEF Request
<1>3. CASE queue = 0 /\ flying # 0 /\ ~pass[flying].cancelled
  <2>1. pass' = [pass EXCEPT ![flying].rerun = TRUE] /\ UNCHANGED <<queue, flying>>
    BY <1>3 DEF Request
  <2>2. \A p \in Passes : pass'[p].parked = pass[p].parked
    BY <1>1, <2>1 DEF PassState
  <2> QED BY <2>1, <2>2, PassesStay
<1>4. CASE queue = 0 /\ flying = 0
  <2>1. /\ Fresh # {} /\ queue' = AFresh /\ flying' = flying
        /\ pass' = [pass EXCEPT ![AFresh] = NewPass]
    BY <1>4 DEF Request
  <2>2. PICK f : f = AFresh
    OBVIOUS
  <2>3. f \in Passes /\ f \notin Referred
    BY <2>1, <2>2 DEF AFresh, Fresh
  <2>4. \A k \in DOMAIN inbox : inbox[k].pass # f
    BY <2>3 DEF Referred
  <2>5. NewPass.parked = {}
    BY DEF NewPass
  <2>6. pass' = [pass EXCEPT ![f] = NewPass] /\ queue' = f /\ flying' = 0
    BY <1>4, <2>1, <2>2
  <2>7. \A p \in Passes : p # f => pass'[p] = pass[p]
    BY <1>1, <2>6
  <2>8. pass'[f].parked = {}
    BY <1>1, <2>3, <2>5, <2>6
  <2> QED BY <2>4, <2>6, <2>7, <2>8 DEF ParkedStay
<1> QED BY <1>2, <1>3, <1>4

(* A pass let go of that is not in the queue or in flight any more. *)
LEMMA ForgottenParks ==
    ASSUME EachInv, NEW p \in Passes, pass' = [pass EXCEPT ![p] = NewPass],
           p \notin {queue', flying'},
           \A o \in Passes : o \in {queue', flying'} =>
               o \in {queue, flying} \/ \A k \in DOMAIN inbox : inbox[k].pass # o
    PROVE  ParkedStay
<1>1. pass \in [Passes -> PassState]
  BY DEF EachInv, ApartInv, PassesTyped
<1>2. NewPass.parked = {}
  BY DEF NewPass
<1>3. pass'[p].parked = {} /\ \A o \in Passes : o # p => pass'[o] = pass[o]
  BY <1>1, <1>2
<1> QED BY <1>3 DEF ParkedStay
LEMMA QuietKeeps ==
    ASSUME EachInv, UNCHANGED <<message, mark>>, inbox' = inbox \/ inbox' = Append(inbox, OpenFallback),
           CallsStay(Phone), ParkedStay
    PROVE  ReplyInv'
<1>1. PICK msgs \in LessDue(Phone) : msgs = Phone /\ msgs.message = message /\ msgs.mark = mark
  BY SameMessages
<1>2. RepliesStay(msgs)
  BY InboxStays
<1>3. CallsStay(msgs)
  BY <1>1
<1> QED BY <1>1, <1>2, <1>3, LessKeeps

LEMMA RetiredKeeps ==
    ASSUME EachInv, Becomes(Retired(Phone)), inbox' = inbox, \A msgs : CallsStay(msgs), ParkedStay
    PROVE  ReplyInv'
<1>1. PICK msgs \in LessDue(Phone) : msgs = Retired(Phone)
  BY SameMessages, RetiredLess
<1>2. message' = msgs.message /\ mark' = msgs.mark
  BY <1>1 DEF Becomes
<1> QED BY <1>2, InboxStays, LessKeeps

LEMMA FallBackKeeps ==
    ASSUME EachInv, NEW w, FallBack(w) \/ UNCHANGED session, \A msgs : CallsStay(msgs), ParkedStay
    PROVE  ReplyInv'
<1>1. CASE Becomes(FellBack(Phone)) /\ inbox' = inbox
  <2>1. PICK msgs \in LessDue(Phone) : msgs = FellBack(Phone)
    BY SameMessages, FellBackLess
  <2>2. message' = msgs.message /\ mark' = msgs.mark
    BY <1>1, <2>1 DEF Becomes
  <2> QED BY <1>1, <2>2, InboxStays, LessKeeps
<1>2. CASE UNCHANGED <<message, mark>> /\ (inbox' = inbox \/ inbox' = Append(inbox, OpenFallback))
  BY <1>2, QuietKeeps
<1> QED BY <1>1, <1>2 DEF FallBack, session

LEMMA DrainedKeeps ==
    ASSUME EachInv, NEW due, \A m \in Messages : m \in due => message[m] = "later",
           message' = [m \in Messages |-> IF m \in due THEN "due" ELSE Drained({}).message[m]],
           mark' = Drained({}).mark, inbox' = <<>>, \A msgs : CallsStay(msgs), ParkedStay
    PROVE  ReplyInv'
<1>1. VoiceTyped /\ RepliesMarked /\ ReplyInv /\ PhoneInv
  BY DEF EachInv, SaidInv, ReplyInv
<1>2. PICK msgs \in LessDue(Phone) :
         /\ msgs = Drained({})
         /\ \A k \in DOMAIN inbox, m \in Messages : InReply(k, m) => msgs.message[m] # "due"
  BY <1>1, DrainedLess
<1>3. /\ message' = [m \in Messages |-> IF m \in due THEN "due" ELSE msgs.message[m]]
      /\ mark' = msgs.mark
  BY <1>2
<1>4. RepliesStay(msgs)
  BY <1>2, InboxDrained
<1> QED BY <1>1, <1>3, <1>4, CalmKeeps

----------------------------------------------------------------------------
(* The threads that voice: one at a time is at work. *)
LEMMA OneAtWork ==
    ASSUME EachInv, NEW w \in Workers, AtWork(w)
    PROVE  /\ worker \in [Workers -> WorkerState] /\ pass \in [Passes -> PassState]
           /\ worker[w].pass \in Passes /\ worker[w].pass = flying /\ queue = 0
           /\ \A v \in Workers : AtWork(v) => v = w
BY DEF EachInv, ApartInv, PhoneInv, PhoneTypeOK, PassesTyped, PassesApart

LEMMA NoneSettled ==
    ASSUME EachInv, NEW w \in Workers, \A v \in Workers \ {w} : worker'[v] = worker[v],
           worker'[w].at # "call", worker[w].at # "clear",
           worker[w].at = "call" => worker'[w].at = "clear" /\ worker'[w].pass = worker[w].pass,
           UNCHANGED <<message, mark, inbox, pass, queue, flying>>
    PROVE  ReplyInv'
<1>1. CallsStay(Phone)
  BY ThreadOn
<1>2. ParkedStay
  BY PassesStay
<1> QED BY <1>1, <1>2, QuietKeeps

LEMMA CallsSettleNone ==
    ASSUME EachInv, NEW w \in Workers,
           \/ LookTaken(w) \/ Admitted(w) \/ SnapshotTaken(w) \/ Discard(w) \/ PassFails(w)
           \/ RecapEnds(w) \/ NextCall(w) \/ Recap(w)
    PROVE  ReplyInv'
<1> USE DEF session, scheduler, GoTo, EndsAs
<1>1. worker \in [Workers -> WorkerState]
  BY DEF EachInv, ApartInv, PhoneInv, PhoneTypeOK
<1>2. UNCHANGED <<message, mark, inbox, pass, queue, flying>>
  BY DEF LookTaken, Admitted, SnapshotTaken, Discard, PassFails, RecapEnds, NextCall, Recap
<1>3. worker[w].at # "clear"
  BY DEF LookTaken, Admitted, SnapshotTaken, Discard, PassFails, RecapEnds, NextCall, Recap
<1>4. \A v \in Workers \ {w} : worker'[v] = worker[v]
  BY <1>1 DEF LookTaken, Admitted, SnapshotTaken, Discard, PassFails, RecapEnds, NextCall, Recap
<1>5. worker'[w].at # "call"
  BY <1>1 DEF WorkerState, LookTaken, Admitted, SnapshotTaken, Discard, PassFails, RecapEnds, NextCall, Recap
<1>6. ASSUME worker[w].at = "call" PROVE worker'[w].at = "clear" /\ worker'[w].pass = worker[w].pass
  <2>1. Discard(w) \/ PassFails(w)
    BY <1>6 DEF LookTaken, Admitted, SnapshotTaken, RecapEnds, NextCall, Recap
  <2> QED BY <1>1, <2>1 DEF WorkerState, Discard, PassFails
<1> QED BY <1>2, <1>3, <1>4, <1>5, <1>6, NoneSettled

LEMMA BeginSettlesNone ==
    ASSUME EachInv, NEW w \in Workers, Begin(w)
    PROVE  ReplyInv'
<1>1. worker \in [Workers -> WorkerState]
  BY DEF EachInv, ApartInv, PhoneInv, PhoneTypeOK
<1>2. worker'[w].at = "next" /\ \A v \in Workers \ {w} : worker'[v] = worker[v]
  BY <1>1 DEF Begin, Resting
<1>3. CallsStay(Phone)
  BY <1>2, ThreadOn DEF Begin
<1>4. ParkedStay
  BY DEF Begin, ParkedStay
<1> QED BY <1>3, <1>4, QuietKeeps DEF Begin, session

LEMMA AfterSettlesNone ==
    ASSUME EachInv, NEW w \in Workers, After(w)
    PROVE  ReplyInv'
<1>1. AtWork(w) /\ worker[w].at = "after"
  BY DEF After, AtWork
<1>2. PICK p \in Passes : p = worker[w].pass /\ p = flying
  BY <1>1, OneAtWork
<1>3. worker \in [Workers -> WorkerState] /\ pass \in [Passes -> PassState] /\ queue = 0
  BY <1>1, OneAtWork
<1>4. UNCHANGED <<message, mark, inbox>> /\ flying' = 0
  BY DEF After, session
<1>5. worker'[w].at # "call" /\ \A v \in Workers \ {w} : worker'[v] = worker[v]
  <2>1. PICK drop : drop = [Resting EXCEPT !.at = "drop", !.pass = p]
    OBVIOUS
  <2>2. worker' = [worker EXCEPT ![w] = drop] \/ worker' = [worker EXCEPT ![w] = Resting]
    BY <1>2, <2>1 DEF After
  <2>3. drop.at # "call" /\ Resting.at # "call"
    BY <2>1 DEF Resting
  <2> QED BY <1>3, <2>2, <2>3
<1>6. CallsStay(Phone)
  BY <1>1, <1>5, ThreadOn
<1>7. ParkedStay
  <2>1. ASSUME NEW k \in PassState, k.parked = pass[p].parked, Requeued(p, k) PROVE ParkedStay
    <3>1. queue' = p /\ pass' = [pass EXCEPT ![p] = [k EXCEPT !.progressed = FALSE, !.people = {}]]
      BY <2>1 DEF Requeued
    <3>2. \A o \in Passes : pass'[o].parked = pass[o].parked
      BY <1>3, <2>1, <3>1 DEF PassState
    <3> QED BY <1>2, <1>4, <3>1, <3>2 DEF ParkedStay
  <2>2. ASSUME Forgotten(p), queue' = 0 PROVE ParkedStay
    BY <1>4, <2>2, ForgottenParks DEF Forgotten
  <2>3. ASSUME Forgotten(p), Fresh # {}, queue' = AFresh PROVE ParkedStay
    <3>1. PICK f : f = AFresh
      OBVIOUS
    <3>2. f \in Passes /\ f \notin Referred
      BY <2>3, <3>1 DEF AFresh, Fresh
    <3>3. f # p /\ \A k \in DOMAIN inbox : inbox[k].pass # f
      BY <1>2, <3>2 DEF Referred
    <3> QED BY <1>4, <2>3, <3>1, <3>2, <3>3, ForgottenParks DEF Forgotten
  <2>4. \/ Forgotten(p) /\ (queue' = 0 \/ (Fresh # {} /\ queue' = AFresh))
        \/ Requeued(p, pass[p])
        \/ Requeued(p, [pass[p] EXCEPT !.attempts = IF pass[p].progressed THEN 0 ELSE @ + 1])
        \/ Requeued(p, [pass[p] EXCEPT !.rerun = FALSE, !.attempts = 0])
    BY <1>2, <1>3 DEF After, Succeeded
  <2>5. PICK a \in PassState : a = pass[p]
    BY <1>3
  <2>6. PICK b \in PassState : b = [a EXCEPT !.attempts = IF a.progressed THEN 0 ELSE @ + 1]
    <3>1. (IF a.progressed THEN 0 ELSE a.attempts + 1) \in Nat
      BY DEF PassState
    <3> QED BY <3>1 DEF PassState
  <2>7. PICK c \in PassState : c = [a EXCEPT !.rerun = FALSE, !.attempts = 0]
    BY DEF PassState
  <2>8. b.parked = pass[p].parked /\ c.parked = pass[p].parked
    BY <2>5, <2>6, <2>7 DEF PassState
  <2> QED BY <2>1, <2>2, <2>3, <2>4, <2>5, <2>6, <2>7, <2>8
<1> QED BY <1>4, <1>6, <1>7, QuietKeeps
LEMMA OverdueSettles ==
    ASSUME EachInv, NEW w \in Workers, Overdue(w)
    PROVE  ReplyInv'
<1>1. worker \in [Workers -> WorkerState]
  BY DEF EachInv, ApartInv, PhoneInv, PhoneTypeOK
<1>2. PICK place : GoTo(w, place) /\ place \in {"finish", "clear"}
  BY DEF Overdue
<1>3. worker'[w].at # "call" /\ \A v \in Workers \ {w} : worker'[v] = worker[v]
  BY <1>1, <1>2 DEF GoTo, WorkerState
<1>4. worker[w].at = "overdue" /\ UNCHANGED <<pass, queue, flying>>
  BY DEF Overdue, scheduler
<1>5. \A msgs : CallsStay(msgs)
  BY <1>3, <1>4, ThreadOn
<1>6. ParkedStay
  BY <1>4, PassesStay
<1> QED BY <1>5, <1>6, FallBackKeeps DEF Overdue

LEMMA FinishSettles ==
    ASSUME EachInv, NEW w \in Workers, Finish(w)
    PROVE  ReplyInv'
<1>1. AtWork(w) /\ worker[w].at = "finish"
  BY DEF Finish, AtWork
<1>2. worker \in [Workers -> WorkerState] /\ pass \in [Passes -> PassState]
  BY <1>1, OneAtWork
<1>3. worker'[w].at # "call" /\ \A v \in Workers \ {w} : worker'[v] = worker[v]
  BY <1>2 DEF Finish, GoTo, WorkerState
<1>4. UNCHANGED <<queue, flying>>
  BY DEF Finish, scheduler
<1>5. \A msgs : CallsStay(msgs)
  BY <1>1, <1>3, ThreadOn
<1>6. \A p \in Passes : pass'[p].parked = pass[p].parked
  <2>1. \/ pass' = pass
        \/ \E more : pass' = [pass EXCEPT ![worker[w].pass].rerun = more]
    BY DEF Finish
  <2>2. ASSUME NEW more, pass' = [pass EXCEPT ![worker[w].pass].rerun = more]
        PROVE  \A p \in Passes : pass'[p].parked = pass[p].parked
    BY <1>2, <2>2 DEF PassState
  <2> QED BY <2>1, <2>2
<1>7. ParkedStay
  BY <1>4, <1>6, PassesStay
<1>8. CASE Becomes(Retired(Phone)) /\ inbox' = inbox
  BY <1>5, <1>7, <1>8, RetiredKeeps
<1>9. CASE UNCHANGED session
  BY <1>5, <1>7, <1>9, QuietKeeps DEF session
<1> QED BY <1>8, <1>9 DEF Finish

LEMMA DroppedSettles ==
    ASSUME EachInv, NEW w \in Workers, Dropped(w)
    PROVE  ReplyInv'
<1>1. worker \in [Workers -> WorkerState] /\ queue \in Passes \cup {0} /\ flying \in Passes \cup {0}
  BY DEF EachInv, ApartInv, PhoneInv, PhoneTypeOK
<1>2. worker[w].at = "drop" /\ UNCHANGED <<queue, flying>>
  BY DEF Dropped, scheduler
<1>3. PICK p : p = worker[w].pass
  OBVIOUS
<1>4. p \in Passes /\ p # flying /\ p # queue
  BY <1>1, <1>2, <1>3 DEF EachInv, ApartInv, PassesApart, WorkerState
<1>5. worker'[w].at # "call" /\ \A v \in Workers \ {w} : worker'[v] = worker[v]
  BY <1>1 DEF Dropped, Resting
<1>6. \A msgs : CallsStay(msgs)
  BY <1>2, <1>5, ThreadOn
<1>7. pass' = [pass EXCEPT ![p] = NewPass]
  BY <1>3 DEF Dropped, Forgotten
<1>8. ParkedStay
  BY <1>2, <1>4, <1>7, ForgottenParks
<1> QED BY <1>6, <1>8, FallBackKeeps DEF Dropped

LEMMA LookSettles ==
    ASSUME EachInv, NEW w \in Workers, LookFirst(w, {})
    PROVE  ReplyInv'
<1>1. worker \in [Workers -> WorkerState]
  BY DEF EachInv, ApartInv, PhoneInv, PhoneTypeOK
<1>2. VoiceTyped /\ RepliesMarked
  BY DEF EachInv, SaidInv, ReplyInv
<1>3. PICK msgs \in LessDue(Phone) :
         /\ msgs = Drained({})
         /\ \A k \in DOMAIN inbox, m \in Messages : InReply(k, m) => msgs.message[m] # "due"
  BY <1>2, DrainedLess
<1>4. msgs \in PhoneState
  BY DEF LessDue
<1>5. PICK new \in LessDue(msgs) : new = Retired(msgs)
  BY <1>4, RetiredLess
<1>6. new \in LessDue(Phone)
  BY LessAndLess
<1>7. message' = new.message /\ mark' = new.mark /\ inbox' = <<>> /\ UNCHANGED <<pass, queue, flying>>
  BY <1>3, <1>5 DEF LookFirst, Becomes, scheduler
<1>8. \A k \in DOMAIN inbox, m \in Messages : InReply(k, m) => new.message[m] # "due"
  BY <1>3, <1>5 DEF LessDue
<1>9. RepliesStay(new)
  BY <1>7, <1>8, InboxDrained
<1>10. PICK place : GoTo(w, place) /\ place \in {"admit", "recap"}
  BY DEF LookFirst
<1>11. worker[w].at = "look" /\ worker'[w].at # "call" /\ \A v \in Workers \ {w} : worker'[v] = worker[v]
  BY <1>1, <1>10 DEF LookFirst, GoTo, WorkerState
<1>12. CallsStay(new)
  BY <1>11, ThreadOn
<1>13. ParkedStay
  BY <1>7, PassesStay
<1> QED BY <1>6, <1>7, <1>9, <1>12, <1>13, LessKeeps

(* The lock was had: the reply is said, or what it answers has gone.        *)
LEMMA CommitSettles ==
    ASSUME EachInv, NEW w \in Workers, NEW more, Commit(w, more)
    PROVE  ReplyInv'
<1>1. worker[w].at = "call" /\ AtWork(w)
  BY DEF Commit, AtWork
<1>2. worker \in [Workers -> WorkerState] /\ pass \in [Passes -> PassState]
  BY <1>1, OneAtWork
<1>3. PICK p : p = worker[w].pass
  OBVIOUS
<1>4. PICK ids \in SUBSET Messages : ids = worker[w].words
  BY <1>2 DEF WorkerState
<1>5. Phone \in PhoneState /\ Phone.message = message /\ Phone.mark = mark
  BY SameMessages
<1>6. \A m \in ids : Phone.message[m] = "due" => Phone.mark[m] = p
  BY <1>1, <1>3, <1>4, <1>5 DEF EachInv, ReplyInv, WordsMarked, Worded
<1>7. \A m, n \in ids : PersonOf[m] = PersonOf[n]
  BY <1>1, <1>4 DEF EachInv, ReplyInv, WordsMarked, Worded
<1>8. PICK msgs \in LessDue(Phone) :
         msgs = Replied(Phone, p, ids) /\ \A m \in ids : msgs.message[m] # "due"
  BY <1>5, <1>6, <1>7, RepliedLess
<1>9. /\ message' = [m \in Messages |-> IF m \in more THEN "due" ELSE msgs.message[m]]
      /\ mark' = msgs.mark /\ UNCHANGED <<inbox, queue, flying>>
  BY <1>3, <1>4, <1>8 DEF Commit, scheduler
<1>10. \A m \in Messages : m \in more => message[m] = "later"
  BY DEF Commit
<1>11. RepliesStay(msgs)
  BY <1>9, InboxStays
<1>12. worker'[w].at # "call" /\ \A v \in Workers \ {w} : worker'[v] = worker[v]
  <2>1. worker' = [worker EXCEPT ![w].at = "next", ![w].calls = @ + 1, ![w].words = {}]
    BY DEF Commit, Voiced
  <2> QED BY <1>2, <2>1 DEF WorkerState
<1>13. CallsStay(msgs)
  BY <1>1, <1>4, <1>8, <1>12, ThreadOn
<1>14. ParkedStay
  <2>1. \A o \in Passes : pass'[o].parked = pass[o].parked
    BY <1>2 DEF Commit, PassState
  <2> QED BY <1>9, <2>1, PassesStay
<1>15. PhoneInv /\ VoiceTyped /\ ReplyInv
  BY DEF EachInv, SaidInv
<1> QED BY <1>9, <1>10, <1>11, <1>13, <1>14, <1>15, CalmKeeps

(* The lock was not had: the reply answers for its marks, and its pass      *)
(* knows.                                                                   *)
LEMMA ParkSettles ==
    ASSUME EachInv, NEW w \in Workers, Park(w)
    PROVE  ReplyInv'
<1> USE DEF EachInv, ReplyInv
<1>1. worker[w].at = "call" /\ AtWork(w)
  BY DEF Park, AtWork
<1>2. /\ worker \in [Workers -> WorkerState] /\ pass \in [Passes -> PassState] /\ queue = 0
      /\ \A v \in Workers : AtWork(v) => v = w
  BY <1>1, OneAtWork
<1>3. PICK p \in Passes : p = worker[w].pass /\ p = flying /\ p # 0
  BY <1>1, OneAtWork
<1>4. PICK ids \in SUBSET Messages : ids = worker[w].words
  BY <1>2 DEF WorkerState
<1>5. \A m \in Messages : Worded(w, m) <=> m \in ids
  BY <1>1, <1>4 DEF Worded
<1>6. PICK reply : reply = Parked(p, ids)
  OBVIOUS
<1>7. reply.kind = "voiced" /\ reply.pass = p /\ reply.ids = ids
  BY <1>6 DEF Parked
<1>8. inbox' = Append(inbox, reply) /\ UNCHANGED <<message, mark, queue, flying>>
  BY <1>3, <1>4, <1>6 DEF Park, scheduler
<1>9. PICK n \in Nat : n = Len(inbox) /\ DOMAIN inbox = 1..n
  BY DEF SaidInv, VoiceTyped
<1>10. /\ DOMAIN inbox' = 1..(n + 1) /\ inbox'[n + 1] = reply
       /\ \A k \in 1..n : inbox'[k] = inbox[k]
  BY <1>8, <1>9 DEF SaidInv, VoiceTyped
<1>11. n + 1 \in DOMAIN inbox' /\ \A k \in DOMAIN inbox' : k = n + 1 \/ (k # n + 1 /\ k \in DOMAIN inbox)
  BY <1>9, <1>10
<1>12. \A k \in DOMAIN inbox : k # n + 1 /\ k \in DOMAIN inbox' /\ inbox'[k] = inbox[k]
  BY <1>9, <1>10
<1>13. \A v \in Workers : worker'[v].at # "call"
  <2>1. worker' = [worker EXCEPT ![w].at = "next", ![w].calls = @ + 1, ![w].words = {}]
    BY DEF Park, Voiced
  <2>2. worker'[w].at = "next" /\ \A v \in Workers : v # w => worker'[v] = worker[v]
    BY <1>2, <2>1 DEF WorkerState
  <2> QED BY <1>2, <2>2 DEF AtWork
<1>14. /\ pass'[p].parked = pass[p].parked \cup ids
       /\ \A o \in Passes : o # p => pass'[o] = pass[o]
  <2>1. pass' = [pass EXCEPT ![p].parked = @ \cup ids, ![p].rerun = TRUE]
    BY <1>3, <1>4 DEF Park
  <2> QED BY <1>2, <2>1 DEF PassState
<1>15. WordsMarked'
  BY <1>13 DEF WordsMarked, Worded
<1>16. ASSUME NEW m \in ids
       PROVE  /\ message[m] # "later" /\ (message[m] = "due" => mark[m] = p)
              /\ \A k \in DOMAIN inbox : ~InReply(k, m)
              /\ \A o \in ids : PersonOf[o] = PersonOf[m]
  BY <1>3, <1>5 DEF WordsMarked
<1>17. \A k \in DOMAIN inbox, m \in Messages : InReply(k, m)' <=> InReply(k, m)
  BY <1>12 DEF InReply
<1>18. \A m \in Messages : InReply(n + 1, m)' <=> m \in ids
  BY <1>7, <1>10 DEF InReply
<1>19. RepliesMarked'
  <2> SUFFICES ASSUME NEW k \in DOMAIN inbox', NEW m \in Messages, InReply(k, m)'
               PROVE  /\ inbox'[k].kind = "voiced" /\ inbox'[k].pass # 0
                      /\ message'[m] # "later" /\ (message'[m] = "due" => mark'[m] = inbox'[k].pass)
                      /\ \A j \in DOMAIN inbox' : InReply(j, m)' => j = k
                      /\ \A o \in Messages : InReply(k, o)' => PersonOf[o] = PersonOf[m]
    BY DEF RepliesMarked
  <2>1. CASE k = n + 1
    <3>1. m \in ids
      BY <1>18, <2>1
    <3>2. \A j \in DOMAIN inbox' : InReply(j, m)' => j = k
      BY <1>11, <1>16, <1>17, <2>1, <3>1
    <3>3. \A o \in Messages : InReply(k, o)' => PersonOf[o] = PersonOf[m]
      BY <1>16, <1>18, <2>1, <3>1
    <3> QED BY <1>3, <1>7, <1>8, <1>10, <1>16, <2>1, <3>1, <3>2, <3>3
  <2>2. CASE k # n + 1
    <3>1. k \in DOMAIN inbox /\ inbox'[k] = inbox[k] /\ InReply(k, m)
      BY <1>11, <1>12, <1>17, <2>2
    <3>2. m \notin ids
      BY <1>16, <3>1
    <3>3. \A j \in DOMAIN inbox' : InReply(j, m)' => j = k
      BY <1>11, <1>17, <1>18, <3>1, <3>2 DEF RepliesMarked
    <3>4. \A o \in Messages : InReply(k, o)' => PersonOf[o] = PersonOf[m]
      BY <1>17, <3>1 DEF RepliesMarked
    <3> QED BY <1>8, <3>1, <3>3, <3>4 DEF RepliesMarked
  <2> QED BY <2>1, <2>2
<1>20. ParkedNoted'
  <2>1. ASSUME NEW k \in DOMAIN inbox', NEW m \in Messages, InReply(k, m)',
               inbox'[k].pass \in {queue', flying'}
        PROVE  m \in pass'[inbox'[k].pass].parked
    <3>1. CASE k = n + 1
      BY <1>7, <1>10, <1>14, <1>18, <2>1, <3>1
    <3>2. CASE k # n + 1
      <4>1. k \in DOMAIN inbox /\ inbox'[k] = inbox[k] /\ InReply(k, m)
        BY <1>11, <1>12, <1>17, <2>1, <3>2
      <4>2. inbox[k].pass # 0
        BY <4>1 DEF RepliesMarked
      <4>3. inbox[k].pass = p
        BY <1>2, <1>3, <1>8, <2>1, <4>1, <4>2
      <4>4. m \in pass[p].parked
        BY <1>3, <4>1, <4>3 DEF ParkedNoted
      <4> QED BY <1>14, <4>1, <4>3, <4>4
    <3> QED BY <3>1, <3>2
  <2>2. ASSUME NEW o \in Passes, NEW m \in Messages, m \in pass'[o].parked
        PROVE  /\ message'[m] # "later"
               /\ message'[m] = "due" => \E k \in DOMAIN inbox' : inbox'[k].pass = o /\ InReply(k, m)'
    <3>1. CASE m \in pass[o].parked
      <4>1. /\ message[m] # "later"
            /\ message[m] = "due" => \E k \in DOMAIN inbox : inbox[k].pass = o /\ InReply(k, m)
        BY <3>1 DEF ParkedNoted
      <4> QED BY <1>8, <1>12, <1>17, <4>1
    <3>2. CASE m \notin pass[o].parked
      <4>1. o = p /\ m \in ids
        BY <1>14, <2>2, <3>2
      <4> QED BY <1>7, <1>8, <1>10, <1>11, <1>16, <1>18, <4>1
    <3> QED BY <3>1, <3>2
  <2> QED BY <2>1, <2>2 DEF ParkedNoted
<1>21. MarksAnswered'
  <2>1. ASSUME NEW m \in Messages, message[m] = "due", mark[m] # 0
        PROVE  \/ \E k \in DOMAIN inbox' : InReply(k, m)'
               \/ \E v \in Workers : worker'[v].pass = mark[m] /\ worker'[v].at = "clear"
    <3>1. CASE m \in ids
      BY <1>11, <1>18, <3>1
    <3>2. CASE \E k \in DOMAIN inbox : InReply(k, m)
      BY <1>12, <1>17, <3>2
    <3>3. CASE m \notin ids /\ ~ \E k \in DOMAIN inbox : InReply(k, m)
      <4>1. PICK v \in Workers : Answering(v, m, mark[m])
        BY <2>1, <3>3 DEF MarksAnswered
      <4>2. v = w
        BY <1>2, <4>1 DEF Answering, Worded, AtWork
      <4> QED BY <1>1, <1>5, <3>3, <4>1, <4>2 DEF Answering
    <3> QED BY <3>1, <3>2, <3>3
  <2> QED BY <1>8, <2>1 DEF MarksAnswered, Answering
<1> QED BY <1>15, <1>19, <1>20, <1>21

(* The marks of a pass that ends: those a reply answers for stay. *)
LEMMA ClearSettles ==
    ASSUME EachInv, NEW w \in Workers, ClearMarks(w)
    PROVE  ReplyInv'
<1> USE DEF EachInv, ReplyInv
<1>1. worker[w].at = "clear" /\ AtWork(w)
  BY DEF ClearMarks, AtWork
<1>2. /\ worker \in [Workers -> WorkerState] /\ pass \in [Passes -> PassState]
      /\ \A v \in Workers : AtWork(v) => v = w
  BY <1>1, OneAtWork
<1>3. PICK p \in Passes : p = worker[w].pass /\ p = flying /\ p # 0
  BY <1>1, OneAtWork
<1>4. PICK ids : ids = pass[p].parked
  OBVIOUS
<1>5. mark \in [Messages -> Passes \cup {0}]
  BY DEF SaidInv, VoiceTyped
<1>6. \A m \in Messages : mark'[m] = IF m \notin ids /\ mark[m] = p THEN 0 ELSE mark[m]
  <2>1. mark' = Unmark(Phone, p, Messages \ ids).mark
    BY <1>3, <1>4 DEF ClearMarks
  <2>2. PICK rest : rest = Messages \ ids
    OBVIOUS
  <2>3. Unmark(Phone, p, rest).mark = [m \in Messages |-> IF m \in rest /\ mark[m] = p THEN 0 ELSE mark[m]]
    BY DEF Unmark, Phone
  <2> QED BY <2>1, <2>2, <2>3
<1>7. UNCHANGED <<message, inbox, pass, queue, flying>>
  BY DEF ClearMarks, scheduler
<1>8. worker'[w].at = "after" /\ \A v \in Workers : v # w => worker'[v] = worker[v]
  BY <1>2 DEF ClearMarks, WorkerState
<1>9. \A v \in Workers : worker'[v].at \notin {"call", "clear"}
  BY <1>2, <1>8 DEF AtWork
<1>10. \A k, m : InReply(k, m)' <=> InReply(k, m)
  BY <1>7 DEF InReply
<1>11. WordsMarked'
  BY <1>9 DEF WordsMarked, Worded
<1>12. RepliesMarked'
  <2>1. ASSUME NEW k \in DOMAIN inbox, NEW m \in Messages, InReply(k, m), message[m] = "due"
        PROVE  mark'[m] = inbox[k].pass
    <3>1. mark[m] = inbox[k].pass
      BY <2>1 DEF RepliesMarked
    <3>2. mark[m] = p => m \in ids
      BY <1>3, <1>4, <2>1, <3>1 DEF ParkedNoted
    <3> QED BY <1>6, <3>1, <3>2
  <2> QED BY <1>7, <1>10, <2>1 DEF RepliesMarked
<1>13. ParkedNoted'
  BY <1>7, <1>10 DEF ParkedNoted
<1>14. MarksAnswered'
  <2>1. ASSUME NEW m \in Messages, message[m] = "due", mark'[m] # 0
        PROVE  \E k \in DOMAIN inbox : InReply(k, m)
    <3>1. mark'[m] = mark[m] /\ (m \in ids \/ mark[m] # p)
      BY <1>6, <2>1
    <3>2. CASE m \in ids
      BY <1>4, <2>1, <3>2 DEF ParkedNoted
    <3>3. CASE mark[m] # p
      <4>1. ASSUME NEW v \in Workers, Answering(v, m, mark[m]) PROVE FALSE
        <5>1. v = w
          BY <1>2, <4>1 DEF Answering, Worded, AtWork
        <5> QED BY <1>3, <3>3, <4>1, <5>1 DEF Answering
      <4> QED BY <2>1, <3>1, <4>1 DEF MarksAnswered
    <3> QED BY <3>1, <3>2, <3>3
  <2>2. \A m \in Messages : message[m] = "later" => mark'[m] = 0
    BY <1>6 DEF MarksAnswered
  <2> QED BY <1>7, <1>10, <2>1, <2>2 DEF MarksAnswered
<1> QED BY <1>11, <1>12, <1>13, <1>14

(* A snapshot drains the inbox; then nothing is due beyond the people       *)
(* voiced, or one person's messages are marked and a call words them.       *)
LEMMA SnapshotSettles ==
    ASSUME EachInv, NEW w \in Workers, Snapshot(w, {})
    PROVE  ReplyInv'
<1> USE DEF EachInv, ReplyInv
<1>1. worker[w].at = "snap" /\ AtWork(w)
  BY DEF Snapshot, AtWork
<1>2. /\ worker \in [Workers -> WorkerState] /\ pass \in [Passes -> PassState]
      /\ \A v \in Workers : AtWork(v) => v = w
  BY <1>1, OneAtWork
<1>3. PICK p \in Passes : p = worker[w].pass /\ p # 0
  BY <1>1, OneAtWork
<1>4. PICK msgs \in LessDue(Phone) :
         /\ msgs = Drained({})
         /\ \A k \in DOMAIN inbox, m \in Messages : InReply(k, m) => msgs.message[m] # "due"
  BY DrainedLess DEF SaidInv
<1>5. msgs \in PhoneState
  BY DEF LessDue
<1>6. PICK new \in LessDue(msgs) : new = Retired(msgs)
  BY <1>5, RetiredLess
<1>7. new \in LessDue(Phone) /\ new \in PhoneState
  BY LessAndLess DEF LessDue
<1>8. \A k \in DOMAIN inbox, m \in Messages : InReply(k, m) => new.message[m] # "due"
  BY <1>4, <1>6 DEF LessDue
<1>9. inbox' = <<>> /\ UNCHANGED <<queue, flying>> /\ message' = new.message
  BY <1>3, <1>4, <1>6 DEF Snapshot, scheduler, Becomes
<1>10. \A o \in Passes : pass'[o].parked = pass[o].parked
  <2>1. \/ \E more : pass' = [pass EXCEPT ![p].rerun = more]
        \/ \E people, more : pass' = [pass EXCEPT ![p].people = people, ![p].rerun = more]
    <3>1. PICK earlier : earlier = (\E m \in Voiceable(Drained({})) : PersonOf[m] \in pass[p].people)
      OBVIOUS
    <3>2. PICK more : more = (pass[p].rerun \/ earlier)
      OBVIOUS
    <3>3. \/ pass' = [pass EXCEPT ![p].rerun = more]
          \/ \E who : pass' = [pass EXCEPT ![p].people = pass[p].people \cup {who}, ![p].rerun = more]
      BY <1>3, <3>1, <3>2 DEF Snapshot
    <3> QED BY <3>3
  <2>2. ASSUME NEW more, pass' = [pass EXCEPT ![p].rerun = more]
        PROVE  \A o \in Passes : pass'[o].parked = pass[o].parked
    BY <1>2, <2>2 DEF PassState
  <2>3. ASSUME NEW people, NEW more, pass' = [pass EXCEPT ![p].people = people, ![p].rerun = more]
        PROVE  \A o \in Passes : pass'[o].parked = pass[o].parked
    BY <1>2, <2>3 DEF PassState
  <2> QED BY <2>1, <2>2, <2>3
<1>11. CASE ~DueBeyond(p, msgs)
  <2>1. mark' = new.mark /\ GoTo(w, "recap")
    BY <1>3, <1>4, <1>6, <1>11 DEF Snapshot, Becomes
  <2>2. worker'[w].at # "call" /\ \A v \in Workers \ {w} : worker'[v] = worker[v]
    BY <1>2, <2>1 DEF GoTo, WorkerState
  <2>3. CallsStay(new)
    BY <1>1, <2>2, ThreadOn
  <2>4. RepliesStay(new)
    BY <1>8, <1>9, InboxDrained
  <2>5. ParkedStay
    BY <1>9, <1>10, PassesStay
  <2> QED BY <1>7, <1>9, <2>1, <2>3, <2>4, <2>5, LessKeeps
<1>12. CASE DueBeyond(p, msgs)
  <2>1. PICK who, words :
           /\ words = {i \in Voiceable(msgs) : PersonOf[i] = who}
           /\ mark' = [m \in Messages |-> IF m \in words THEN p ELSE new.mark[m]]
           /\ worker' = [worker EXCEPT ![w].at = "call", ![w].words = words]
    <3>1. DueBeyond(worker[w].pass, Drained({}))
      BY <1>3, <1>4, <1>12
    <3>2. PICK who \in People :
             /\ mark' = [m \in Messages |->
                           IF m \in {i \in Voiceable(Drained({})) : PersonOf[i] = who}
                           THEN worker[w].pass ELSE Retired(Drained({})).mark[m]]
             /\ worker' = [worker EXCEPT ![w].at = "call",
                                         ![w].words = {i \in Voiceable(Drained({})) : PersonOf[i] = who}]
      BY <3>1 DEF Snapshot
    <3>3. PICK words : words = {i \in Voiceable(Drained({})) : PersonOf[i] = who}
      OBVIOUS
    <3>4. /\ mark' = [m \in Messages |-> IF m \in words THEN p ELSE new.mark[m]]
          /\ worker' = [worker EXCEPT ![w].at = "call", ![w].words = words]
      BY <1>3, <1>4, <1>6, <3>2, <3>3
    <3> QED BY <1>4, <3>3, <3>4
  <2>2. \A m \in Messages : mark'[m] = IF m \in words THEN p ELSE new.mark[m]
    BY <2>1
  <2>3. \A m \in words : m \in Messages /\ new.message[m] = "due" /\ PersonOf[m] = who
    BY <1>6, <2>1 DEF Retired, Withdrawn, Voiceable, Unmarked
  <2>4. /\ worker'[w].at = "call" /\ worker'[w].words = words /\ worker'[w].pass = p
        /\ \A v \in Workers : v # w => worker'[v] = worker[v]
    BY <1>2, <1>3, <2>1 DEF WorkerState
  <2>5. \A v \in Workers : worker'[v].at = "call" => v = w
    BY <1>2, <2>4 DEF AtWork
  <2>6. DOMAIN inbox' = {}
    BY <1>9
  <2>7. \A m \in Messages :
          /\ new.message[m] = "later" <=> message[m] = "later"
          /\ new.message[m] = "due" => message[m] = "due" /\ new.mark[m] = mark[m]
          /\ new.message[m] = "later" /\ mark[m] = 0 => new.mark[m] = 0
    <3>1. Phone.message = message /\ Phone.mark = mark
      BY DEF Phone
    <3> QED BY <1>7, <3>1 DEF LessDue
  <2>8. WordsMarked'
    BY <1>9, <2>2, <2>3, <2>4, <2>5, <2>6 DEF WordsMarked, Worded
  <2>9. RepliesMarked'
    BY <2>6 DEF RepliesMarked
  <2>10. ParkedNoted'
    <3>1. ASSUME NEW o \in Passes, NEW m \in Messages, m \in pass[o].parked
          PROVE  new.message[m] # "later" /\ new.message[m] # "due"
      BY <1>8, <2>7, <3>1 DEF ParkedNoted
    <3> QED BY <1>9, <1>10, <2>6, <3>1 DEF ParkedNoted
  <2>11. MarksAnswered'
    <3>1. ASSUME NEW m \in Messages, new.message[m] = "later" PROVE mark'[m] = 0
      BY <2>2, <2>3, <2>7, <3>1 DEF MarksAnswered
    <3>2. ASSUME NEW m \in Messages, new.message[m] = "due", m \notin words, mark'[m] # 0 PROVE FALSE
      <4>1. message[m] = "due" /\ mark[m] # 0 /\ ~ \E k \in DOMAIN inbox : InReply(k, m)
        BY <1>8, <2>2, <2>7, <3>2
      <4>2. PICK v \in Workers : Answering(v, m, mark[m])
        BY <4>1 DEF MarksAnswered
      <4>3. AtWork(v) /\ worker[v].at # "snap"
        BY <4>2 DEF Answering, Worded, AtWork
      <4> QED BY <1>1, <1>2, <4>3
    <3>3. \A m \in words : mark'[m] = p /\ Worded(w, m)'
      BY <2>2, <2>3, <2>4 DEF Worded
    <3> QED BY <1>9, <2>4, <3>1, <3>2, <3>3 DEF MarksAnswered, Answering
  <2> QED BY <2>8, <2>9, <2>10, <2>11
<1> QED BY <1>11, <1>12

LEMMA WorkersSettle ==
    ASSUME Faulty = {}, EachInv, NEW w \in Workers, Calls(w) \/ WorkerStep(w)
    PROVE  ReplyInv'
<1>1. InInbox = {}
  BY DEF InInbox
<1>2. ASSUME NEW faulty \in SUBSET InInbox, LookFirst(w, faulty) \/ Snapshot(w, faulty)
      PROVE  ReplyInv'
  <2>1. faulty = {}
    BY <1>1
  <2>2. LookFirst(w, {}) \/ Snapshot(w, {})
    BY <1>2, <2>1
  <2> QED BY <2>2, LookSettles, SnapshotSettles
<1> QED BY <1>2, CommitSettles, ParkSettles, CallsSettleNone, BeginSettlesNone, OverdueSettles,
           FinishSettles, ClearSettles, AfterSettlesNone, DroppedSettles DEF Calls, WorkerStep

----------------------------------------------------------------------------
(* The player's threads, which word nothing themselves.                     *)
LEMMA PlayersSettle ==
    ASSUME Faulty = {}, EachInv, NEW q \in Players, PlayerStep(q)
    PROVE  ReplyInv'
<1> USE DEF session, scheduler
<1>1. InInbox = {}
  BY DEF InInbox
<1>2. worker' = worker
  BY DEF PlayerStep, RequestIfDue, WorldWaits, WorldTakes, WorldGivesUp, WorldRefused, WorldLetsGo,
         WorldAsks, WorldBegins, WorldEnds, PhoneAction
<1>3. \A msgs : CallsStay(msgs)
  BY <1>2, ThreadsStay
<1>4. UNCHANGED <<pass, queue, flying>> => ParkedStay
  BY PassesStay
<1>5. CASE RequestIfDue(q)
  <2>1. ParkedStay
    BY <1>4, <1>5, RequestParks DEF RequestIfDue
  <2>2. CASE Becomes(Retired(Phone)) /\ inbox' = inbox
    BY <1>3, <2>1, <2>2, RetiredKeeps
  <2>3. CASE UNCHANGED session
    BY <1>3, <2>1, <2>3, QuietKeeps
  <2> QED BY <1>5, <2>2, <2>3 DEF RequestIfDue
<1>6. CASE WorldAsks(q)
  BY <1>3, <1>6, RequestParks, QuietKeeps DEF WorldAsks
<1>7. CASE WorldWaits(q) \/ WorldTakes(q) \/ WorldGivesUp(q) \/ WorldRefused(q) \/ WorldLetsGo(q)
  <2>1. UNCHANGED <<message, mark, inbox, pass, queue, flying>>
    BY <1>7 DEF WorldWaits, WorldTakes, WorldGivesUp, WorldRefused, WorldLetsGo
  <2> QED BY <1>3, <1>4, <2>1, QuietKeeps
<1>8. ASSUME NEW due, NEW leave, Brings(Drained({}), due, leave), UNCHANGED <<pass, queue, flying>>
      PROVE  ReplyInv'
  <2>1. PICK msgs \in LessDue(Phone) : msgs = Drained({})
    BY DrainedLess DEF EachInv, SaidInv, ReplyInv
  <2>2. \A m \in Messages : msgs.message[m] = "later" <=> message[m] = "later"
    BY <2>1 DEF LessDue, Phone
  <2>3. /\ message' = [m \in Messages |-> IF m \in due THEN "due" ELSE Drained({}).message[m]]
        /\ mark' = Drained({}).mark /\ inbox' = <<>>
    BY <1>8 DEF Brings
  <2>4. \A m \in Messages : m \in due => msgs.message[m] = "later"
    BY <1>8, <2>1 DEF Brings
  <2>5. \A m \in Messages : m \in due => message[m] = "later"
    BY <2>2, <2>4
  <2> QED BY <1>3, <1>4, <1>8, <2>3, <2>5, DrainedKeeps
<1>9. ASSUME NEW due, NEW leave, WorldEnds(q, due, leave) PROVE ReplyInv'
  BY <1>8, <1>9 DEF WorldEnds
<1>10. ASSUME NEW due, NEW leave, PhoneAction(q, {}, due, leave) PROVE ReplyInv'
  BY <1>8, <1>10 DEF PhoneAction
<1>11. CASE WorldBegins(q, {})
  <2>1. PICK msgs \in LessDue(Phone) : msgs = Drained({})
    BY DrainedLess DEF EachInv, SaidInv, ReplyInv
  <2>2. msgs.message \in [Messages -> MessageStates]
    BY DEF LessDue, PhoneState
  <2>3. message' = [m \in Messages |-> IF m \in {} THEN "due" ELSE Drained({}).message[m]]
    <3>1. message' = msgs.message
      BY <1>11, <2>1 DEF WorldBegins, Becomes
    <3>2. message' = [m \in Messages |-> IF m \in {} THEN "due" ELSE msgs.message[m]]
      BY <2>2, <3>1
    <3> QED BY <2>1, <3>2
  <2>4. mark' = Drained({}).mark /\ inbox' = <<>> /\ UNCHANGED <<pass, queue, flying>>
    BY <1>11 DEF WorldBegins, Becomes
  <2>5. ParkedStay
    BY <1>4, <2>4
  <2> QED BY <1>3, <2>3, <2>4, <2>5, DrainedKeeps
<1> QED BY <1>1, <1>5, <1>6, <1>7, <1>9, <1>10, <1>11 DEF PlayerStep

LEMMA EachStep ==
    ASSUME Faulty = {}, EachInv, [PhoneNext]_phoneVars
    PROVE  EachInv'
<1>1. ApartInv' /\ SaidInv'
  BY ApartStep, SaidStep DEF EachInv
<1>2. ReplyInv'
  <2>1. CASE UNCHANGED <<message, mark, inbox, worker>> /\ ParkedStay
    BY <2>1, ThreadsStay, QuietKeeps
  <2>2. CASE UNCHANGED phoneVars
    BY <2>1, <2>2, PassesStay DEF phoneVars, session, scheduler
  <2>3. CASE Join
    BY <2>1, <2>3, RequestParks DEF Join, session
  <2>4. ASSUME queue \in Passes, Forgotten(queue), queue' = 0, UNCHANGED flying PROVE ParkedStay
    <3>1. PICK p \in Passes : p = queue
      BY <2>4
    <3>2. flying' = 0
      BY <2>4 DEF EachInv, ApartInv, PhoneInv, PhoneTypeOK
    <3>3. pass' = [pass EXCEPT ![p] = NewPass]
      BY <2>4, <3>1 DEF Forgotten
    <3> QED BY <2>4, <3>1, <3>2, <3>3, ForgottenParks
  <2>5. CASE Overflow
    <3>1. queue \in Passes
      BY <2>5 DEF Overflow, EachInv, ApartInv, PhoneInv, PhoneTypeOK
    <3>2. ParkedStay
      BY <2>4, <2>5, <3>1 DEF Overflow
    <3> QED BY <2>1, <2>5, <3>2 DEF Overflow, session
  <2>6. CASE TakeOut
    <3>1. queue \in calloff.of => queue \in Passes
      BY DEF EachInv, ApartInv, PassesTyped
    <3>2. ParkedStay
      BY <2>4, <2>6, <3>1, PassesStay DEF TakeOut
    <3> QED BY <2>1, <2>6, <3>2 DEF TakeOut, session
  <2>7. CASE Fire
    <3>1. pass \in [Passes -> PassState]
      BY DEF EachInv, ApartInv, PassesTyped
    <3>2. \A p \in Passes : pass'[p] = pass[p] \/ pass'[p] = [pass[p] EXCEPT !.cancelled = TRUE]
      BY <2>7 DEF Fire
    <3>3. \A p \in Passes : pass'[p].parked = pass[p].parked
      BY <3>1, <3>2 DEF PassState
    <3>4. ParkedStay
      BY <2>7, <3>3, PassesStay DEF Fire, scheduler
    <3> QED BY <2>1, <2>7, <3>4 DEF Fire, session
  <2>8. CASE Judge \/ Release
    <3>1. ParkedStay
      BY <2>8, PassesStay DEF Judge, Release, scheduler
    <3> QED BY <2>1, <2>8, <3>1 DEF Judge, Release, session
  <2>9. CASE \E w \in Workers : Calls(w) \/ WorkerStep(w)
    BY <2>9, WorkersSettle
  <2>10. CASE \E q \in Players : PlayerStep(q)
    BY <2>10, PlayersSettle
  <2> QED BY <2>2, <2>3, <2>5, <2>6, <2>7, <2>8, <2>9, <2>10 DEF PhoneNext
<1> QED BY <1>1, <1>2 DEF EachInv

LEMMA EachInit == PhoneInit => EachInv
<1> SUFFICES ASSUME PhoneInit PROVE EachInv
  OBVIOUS
<1>1. ApartInv /\ SaidInv
  BY RequestInit, SaidInit
<1>2. DOMAIN inbox = {} /\ (\A w \in Workers : worker[w].at = "idle") /\ \A m \in Messages : mark[m] = 0
  BY DEF PhoneInit, Resting
<1>3. \A p \in Passes : pass[p].parked = {}
  BY DEF PhoneInit, NewPass
<1>4. ReplyInv
  BY <1>2, <1>3 DEF ReplyInv, WordsMarked, RepliesMarked, ParkedNoted, MarksAnswered, Worded
<1> QED BY <1>1, <1>4 DEF EachInv

LEMMA AnswersAreOne ==
    ASSUME EachInv
    PROVE  OneReplyEach
<1> SUFFICES ASSUME NEW m \in Messages
             PROVE  /\ Cardinality(CallsFor(m)) + Cardinality(RepliesFor(m)) <= 1
                    /\ message[m] = "due" => \A k \in RepliesFor(m) : mark[m] = inbox[k].pass
                    /\ message[m] = "due" /\ mark[m] # 0 /\ alive =>
                          \/ RepliesFor(m) # {}
                          \/ \E w \in Workers : worker[w].pass = mark[m] /\ worker[w].at \in {"call", "clear"}
  BY DEF OneReplyEach
<1> USE DEF EachInv, ReplyInv, CallsFor, RepliesFor
<1>1. Cardinality(CallsFor(m)) + Cardinality(RepliesFor(m)) <= 1
  <2>1. Cardinality({}) = 0
    BY FS_EmptySet
  <2>2. \A x : Cardinality({x}) = 1
    BY FS_Singleton
  <2>3. ASSUME NEW w \in CallsFor(m)
        PROVE  CallsFor(m) = {w} /\ RepliesFor(m) = {}
    <3>1. AtWork(w) /\ Worded(w, m)
      BY DEF AtWork, Worded
    <3>2. \A v \in CallsFor(m) : v = w
      BY <3>1, OneAtWork DEF AtWork
    <3>3. RepliesFor(m) = {}
      BY <3>1 DEF WordsMarked, InReply
    <3> QED BY <3>2, <3>3
  <2>4. ASSUME NEW k \in RepliesFor(m)
        PROVE  CallsFor(m) = {} /\ RepliesFor(m) = {k}
    <3>1. \A j \in RepliesFor(m) : j = k
      BY DEF RepliesMarked, InReply
    <3>2. CallsFor(m) = {}
      BY <2>3
    <3> QED BY <3>1, <3>2
  <2>5. PICK calls : calls = CallsFor(m)
    OBVIOUS
  <2>6. PICK replies : replies = RepliesFor(m)
    OBVIOUS
  <2>7. \/ calls = {} /\ replies = {}
        \/ (\E x : calls = {x}) /\ replies = {}
        \/ calls = {} /\ \E x : replies = {x}
    BY <2>3, <2>4, <2>5, <2>6
  <2>8. \/ Cardinality(calls) = 0 /\ Cardinality(replies) = 0
        \/ Cardinality(calls) = 1 /\ Cardinality(replies) = 0
        \/ Cardinality(calls) = 0 /\ Cardinality(replies) = 1
    BY <2>1, <2>2, <2>7
  <2>9. Cardinality(calls) + Cardinality(replies) <= 1
    BY <2>8
  <2> QED BY <2>5, <2>6, <2>9
<1>2. message[m] = "due" => \A k \in RepliesFor(m) : mark[m] = inbox[k].pass
  BY DEF RepliesMarked, InReply
<1>3. message[m] = "due" /\ mark[m] # 0 =>
         \/ RepliesFor(m) # {}
         \/ \E w \in Workers : worker[w].pass = mark[m] /\ worker[w].at \in {"call", "clear"}
  BY DEF MarksAnswered, InReply, Answering, Worded
<1> QED BY <1>1, <1>2, <1>3

(* A message is worded by one at a time, a call under way or a reply in the *)
(* inbox, which its mark names until it is drained; and a mark has somebody *)
(* who answers for it (voicer.py, _clear_marks, drain_inbox), provided no   *)
(* parked reply raises when it is applied.                                  *)
THEOREM OneReplyEachHolds == Faulty = {} /\ PhoneSpec => []OneReplyEach
<1> SUFFICES ASSUME Faulty = {} PROVE PhoneSpec => []OneReplyEach
  OBVIOUS
<1>1. EachInv /\ [PhoneNext]_phoneVars => EachInv'
  BY EachStep
<1>2. EachInv => OneReplyEach
  BY AnswersAreOne
<1> QED BY <1>1, <1>2, EachInit, PTL DEF PhoneSpec
=============================================================================
