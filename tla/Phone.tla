------------------------------- MODULE Phone -------------------------------
(***************************************************************************)
(* The phone of one live run in a hosted worker: the narration turnstile    *)
(* (engine/social/turnstile.py) that world turns wait for and voicing       *)
(* passes only try, the turn lock everybody only tries, the passes and      *)
(* their scheduler (engine/social/voicer.py), the marks a pass puts on the  *)
(* messages it words, and the inbox (engine/social/inbox.py) that keeps a   *)
(* reply whose commit found the lock taken.                                 *)
(*                                                                          *)
(* A lock or turnstile tried and found taken is always a possible outcome:  *)
(* many short holds are one step here, so that whoever tries may meet one.  *)
(* Delays (a backoff, a deferral) are waits of any length.                  *)
(***************************************************************************)
EXTENDS Integers, FiniteSets, Sequences, SequencesExt

CONSTANTS
    Messages,      \* messages the game may make due
    PersonOf,      \* who each is from: [Messages -> people]
    Faulty,        \* messages whose parked reply may raise when it is applied
    Workers,       \* the scheduler's threads
    Players,       \* threads that serve the player's requests
    Passes,        \* ids of passes; one nobody refers to is used again
    MaxPerPass,    \* social.voice.max_per_pass
    MaxAttempts    \* social.voice.max_attempts

ASSUME PhoneConstants ==
    /\ Passes \subseteq Nat \ {0} /\ MaxPerPass \in Nat \ {0} /\ MaxAttempts \in Nat \ {0}
    /\ Workers \cap Players = {} /\ "nobody" \notin Workers \cup Players

VARIABLES
    alive,      \* saves.alive: the run is live, of this build, not ending
    turnLock,   \* its turn lock: FALSE, or a world turn holds it
    holder,     \* Turnstile.holder: the thread that holds it, or Nobody
    waits,      \* Turnstile.world_waiting: the world turns that wait
    message,    \* each message: later, due, voiced or withdrawn
    gone,       \* people who left
    mark,       \* session.voicing: the pass that words a message, or 0
    inbox,      \* session.inbox
    pass,       \* the passes
    queue,      \* VoicingScheduler: the pass queued, or 0
    flying,     \* the pass in flight, or 0
    again,      \* _rerequested
    asked,      \* a request was made, and no pass has begun since
    worker,     \* what each scheduler thread does
    player,     \* what each player thread does
    calloff     \* a cancel (forget, cancel_unwatched, cancel_all) under way

session == <<alive, turnLock, message, gone, mark, inbox>>
scheduler == <<queue, flying, again, asked>>
phoneVars == <<session, holder, waits, pass, scheduler, worker, player, calloff>>

Nobody == "nobody"
People == {PersonOf[m] : m \in Messages}
NewPass == [attempts |-> 0, rerun |-> FALSE, cancelled |-> FALSE, progressed |-> FALSE,
            people |-> {}, parked |-> {}]
Resting == [at |-> "idle", pass |-> 0, words |-> {}, calls |-> 0, outcome |-> "ok"]
WorkerPlaces == {"idle", "next", "look", "admit", "snap", "call", "recap", "recapping",
                 "overdue", "finish", "clear", "after", "drop"}

PhoneInit ==
    /\ alive = TRUE /\ turnLock = FALSE
    /\ holder = Nobody /\ waits = {}
    /\ \E due \in SUBSET Messages :
          message = [m \in Messages |-> IF m \in due THEN "due" ELSE "later"]
    /\ gone = {} /\ mark = [m \in Messages |-> 0] /\ inbox = <<>>
    /\ pass = [p \in Passes |-> NewPass]
    /\ queue = 0 /\ flying = 0 /\ again = FALSE /\ asked = FALSE
    /\ worker = [w \in Workers |-> Resting]
    /\ player = [q \in Players |-> "idle"]
    /\ calloff = [at |-> "idle", of |-> {}]

-----------------------------------------------------------------------------
(* What is due, and what a hold of the turn lock does to it.  The messages  *)
(* and their marks change together: msgs is a pair of them.                 *)

Phone == [message |-> message, mark |-> mark]
Becomes(msgs) == message' = msgs.message /\ mark' = msgs.mark

(* _withdraw: the messages are retired, whoever has marked them.            *)
Withdrawn(msgs, ids) ==
    [message |-> [m \in Messages |-> IF m \in ids THEN "withdrawn" ELSE msgs.message[m]],
     mark |-> [m \in Messages |-> IF m \in ids THEN 0 ELSE msgs.mark[m]]]

(* _voiceable: what is due and unmarked; of that, what a person who left    *)
(* would have said is retired on the way.                                   *)
Unmarked(msgs) == {m \in Messages : msgs.message[m] = "due" /\ msgs.mark[m] = 0}
Retired(msgs) == Withdrawn(msgs, {m \in Unmarked(msgs) : PersonOf[m] \in gone})
Voiceable(msgs) == {m \in Unmarked(msgs) : PersonOf[m] \notin gone}

(* _apply_reply: what is still wanted is due and marked by this very pass.  *)
Wanted(msgs, p, ids) == {m \in ids : msgs.message[m] = "due" /\ msgs.mark[m] = p}

Unmark(msgs, p, ids) ==
    [msgs EXCEPT !.mark = [m \in Messages |-> IF m \in ids /\ @[m] = p THEN 0 ELSE @[m]]]
Said(msgs, ids) ==
    [message |-> [m \in Messages |-> IF m \in ids THEN "voiced" ELSE msgs.message[m]],
     mark |-> [m \in Messages |-> IF m \in ids THEN 0 ELSE msgs.mark[m]]]

Replied(msgs, p, ids) ==
    LET wanted == Wanted(msgs, p, ids)
        left == {m \in Messages : PersonOf[m] \in gone /\ \E i \in ids : PersonOf[i] = PersonOf[m]}
    IN  IF left # {} THEN Withdrawn(Unmark(msgs, p, ids), {m \in left : msgs.message[m] = "due"})
        ELSE IF wanted = {} THEN Unmark(msgs, p, ids)
        ELSE Said(msgs, wanted)

(* _open_fallbacks: a line of the engine's for all that is voiceable.       *)
FellBack(msgs) == Said(Retired(msgs), Voiceable(msgs))

(* drain_inbox: each item in turn; one that raises costs itself alone.      *)
Parked(p, ids) == [kind |-> "voiced", pass |-> p, ids |-> ids]
OpenFallback == [kind |-> "open_fallback", pass |-> 0, ids |-> {}]
Drained(faulty) ==
    LET Apply(msgs, i) ==
            IF i.kind = "open_fallback" THEN FellBack(msgs)
            ELSE IF i.ids \cap faulty # {} THEN Unmark(msgs, i.pass, i.ids)
            ELSE Replied(msgs, i.pass, i.ids)
    IN  FoldLeft(Apply, Phone, inbox)

(* Of the replies parked, those whose commit may raise when it comes.       *)
InInbox == Faulty \cap UNION {inbox[k].ids : k \in DOMAIN inbox}

-----------------------------------------------------------------------------
(* The scheduler.                                                           *)

Referred == {queue, flying} \cup {mark[m] : m \in Messages} \cup calloff.of
            \cup {inbox[k].pass : k \in DOMAIN inbox} \cup {worker[w].pass : w \in Workers}
Fresh == Passes \ Referred
AFresh == CHOOSE p \in Fresh : TRUE

(* request: queued already, or told to the pass in flight, or a new one.    *)
Request ==
    /\ asked' = TRUE
    /\ IF queue # 0 THEN UNCHANGED <<queue, again, pass>>
       ELSE IF flying # 0 /\ pass[flying].cancelled THEN again' = TRUE /\ UNCHANGED <<queue, pass>>
       ELSE IF flying # 0 THEN pass' = [pass EXCEPT ![flying].rerun = TRUE] /\ UNCHANGED <<queue, again>>
       ELSE /\ Fresh # {}
            /\ queue' = AFresh /\ pass' = [pass EXCEPT ![AFresh] = NewPass]
            /\ UNCHANGED again
    /\ UNCHANGED flying

(* A client joins or resumes: it asks whatever is due.                      *)
Join ==
    /\ Request
    /\ UNCHANGED <<session, holder, waits, worker, player, calloff>>

(* _next.                                                                   *)
Begin(w) ==
    /\ worker[w].at = "idle" /\ queue # 0
    /\ flying' = queue /\ queue' = 0
    /\ asked' = (asked /\ pass[queue].cancelled)
    /\ worker' = [worker EXCEPT ![w] = [Resting EXCEPT !.at = "next", !.pass = queue]]
    /\ UNCHANGED <<session, pass, holder, waits, again, player, calloff>>

(* A pass let go of is forgotten with all it kept.                          *)
Forgotten(p) == pass' = [pass EXCEPT ![p] = NewPass]

(* Another run's request finds the queue full: the oldest is dropped.       *)
Overflow ==
    /\ queue # 0
    /\ queue' = 0 /\ asked' = FALSE /\ Forgotten(queue)
    /\ UNCHANGED <<session, holder, waits, flying, again, worker, player, calloff>>

(* _cancel_where: those to go are judged, taken out of the queue, and their *)
(* tokens fired, the scheduler's lock let go between.  What was asked       *)
(* before is called off with them.                                          *)
Judge ==
    /\ calloff.at = "idle" /\ {queue, flying} # {0}
    /\ calloff' = [at |-> "judged", of |-> {queue, flying} \ {0}]
    /\ asked' = FALSE
    /\ UNCHANGED <<session, holder, waits, pass, queue, flying, again, worker, player>>

TakeOut ==
    /\ calloff.at = "judged"
    /\ calloff' = [calloff EXCEPT !.at = "out"]
    /\ IF queue \in calloff.of THEN queue' = 0 /\ Forgotten(queue) ELSE UNCHANGED <<queue, pass>>
    /\ UNCHANGED <<session, holder, waits, flying, again, asked, worker, player>>

Fire ==
    /\ calloff.at = "out"
    /\ calloff' = [at |-> "idle", of |-> {}]
    /\ pass' = [p \in Passes |->
                  IF p \in calloff.of \cap ({queue} \cup {worker[w].pass : w \in Workers}) THEN [pass[p] EXCEPT !.cancelled = TRUE] ELSE pass[p]]
    /\ UNCHANGED <<session, holder, waits, scheduler, worker, player>>

(* What one run of a pass noted is for that run.                            *)
Requeued(p, kept) ==
    /\ queue' = p
    /\ pass' = [pass EXCEPT ![p] = [kept EXCEPT !.progressed = FALSE, !.people = {}]]
(* Slip: a pass called off takes what was asked since with it. *)
SucceededNot(p) == UNCHANGED queue

(* A pass that was called off and asked again meanwhile has a successor.    *)
Succeeded(p) ==
    IF alive /\ (again \/ (pass[p].rerun /\ pass[p].cancelled))
    THEN Fresh # {} /\ queue' = AFresh
    ELSE UNCHANGED queue

(* _after: out of flight, and queued again, succeeded or dropped.  A fault  *)
(* costs its pass what was asked of it, as a drop does.                     *)
After(w) ==
    LET p == worker[w].pass
        me == pass[p]
        outcome == worker[w].outcome
        live == outcome \in {"ok", "busy", "deferred"} /\ ~me.cancelled /\ alive
        tired == live /\ outcome = "busy" /\ ~me.progressed /\ me.attempts + 1 >= MaxAttempts
    IN  /\ worker[w].at = "after"
        /\ flying' = 0 /\ again' = FALSE
        /\ IF ~live THEN Succeeded(p) /\ Forgotten(p)
           ELSE IF outcome = "deferred" THEN Requeued(p, me)
           ELSE IF tired THEN UNCHANGED queue /\ Forgotten(p)
           ELSE IF outcome = "busy"
           THEN Requeued(p, [me EXCEPT !.attempts = IF me.progressed THEN 0 ELSE @ + 1])
           ELSE IF me.rerun \/ again
           THEN Requeued(p, [me EXCEPT !.rerun = FALSE, !.attempts = 0])
           ELSE UNCHANGED queue /\ Forgotten(p)
        /\ worker' = [worker EXCEPT ![w] = IF tired THEN [Resting EXCEPT !.at = "drop", !.pass = p] ELSE Resting]
        /\ asked' = (asked /\ ~tired /\ outcome # "failed")
        /\ UNCHANGED <<session, holder, waits, player, calloff>>

-----------------------------------------------------------------------------
(* run_pass, on a scheduler's thread.                                       *)

(* The generation check: before a call, before the snapshot, before the     *)
(* commit.                                                                  *)
(* Slip: the token alone. *)
LiveToken(w) == ~pass[worker[w].pass].cancelled
Live(w) == alive /\ ~pass[worker[w].pass].cancelled
GoTo(w, place) == worker' = [worker EXCEPT ![w].at = place]
EndsAs(w, outcome) == worker' = [worker EXCEPT ![w].at = "clear", ![w].outcome = outcome, ![w].words = {}]

(* Slip: it looks at the holder alone. *)
MayVoiceBarging == holder = Nobody

(* Slip: it looks at those who wait alone. *)
MayVoiceHeld == waits = {}

(* try_acquire_voice: refused while a world turn holds it or waits for it.  *)
MayVoice == holder = Nobody /\ waits = {}

NextCall(w) ==
    /\ worker[w].at = "next"
    /\ IF ~Live(w) THEN EndsAs(w, "cancelled") /\ UNCHANGED holder
       ELSE IF worker[w].calls = MaxPerPass THEN GoTo(w, "recap") /\ UNCHANGED holder
       ELSE IF MayVoice THEN holder' = w /\ GoTo(w, "look")
       ELSE EndsAs(w, "deferred") /\ UNCHANGED holder
    /\ UNCHANGED <<session, waits, pass, scheduler, player, calloff>>

(* One call ends: the ticket and the turnstile are let go.                  *)
LetGo(w) == holder' = Nobody

(* Before admission the inbox is drained, if the lock is to be had; nothing *)
(* due beyond the people voiced asks for no ticket.                         *)
DueBeyond(p, msgs) == \E m \in Voiceable(msgs) : PersonOf[m] \notin pass[p].people

LookFirst(w, faulty) ==
    LET msgs == Drained(faulty) IN
    /\ worker[w].at = "look" /\ faulty \subseteq InInbox
    /\ turnLock = FALSE /\ Live(w)
    /\ Becomes(Retired(msgs)) /\ inbox' = <<>>
    /\ IF DueBeyond(worker[w].pass, msgs) THEN GoTo(w, "admit") /\ UNCHANGED holder
       ELSE GoTo(w, "recap") /\ LetGo(w)
    /\ UNCHANGED <<alive, turnLock, gone, waits, pass, scheduler, player, calloff>>

LookTaken(w) ==
    /\ worker[w].at = "look"
    /\ IF Live(w) THEN GoTo(w, "admit") /\ UNCHANGED holder
       ELSE EndsAs(w, "cancelled") /\ LetGo(w)
    /\ UNCHANGED <<session, waits, pass, scheduler, player, calloff>>

(* admit_turn: a narration ticket, or too busy, or called off.              *)
Admitted(w) ==
    /\ worker[w].at = "admit"
    /\ \/ Live(w) /\ GoTo(w, "snap") /\ UNCHANGED holder
       \/ EndsAs(w, IF Live(w) THEN "busy" ELSE "cancelled") /\ LetGo(w)
    /\ UNCHANGED <<session, waits, pass, scheduler, player, calloff>>

(* The snapshot: one person this pass has not voiced yet, their messages    *)
(* marked.                                                                  *)
Snapshot(w, faulty) ==
    LET msgs == Drained(faulty)
        p == worker[w].pass
        due == Voiceable(msgs)
        earlier == \E m \in due : PersonOf[m] \in pass[p].people
    IN  /\ worker[w].at = "snap" /\ faulty \subseteq InInbox
        /\ turnLock = FALSE /\ Live(w)
        /\ inbox' = <<>>
        /\ IF ~DueBeyond(p, msgs)
           THEN /\ Becomes(Retired(msgs))
                /\ pass' = [pass EXCEPT ![p].rerun = @ \/ earlier]
                /\ GoTo(w, "recap") /\ LetGo(w)
           ELSE \E who \in People \ pass[p].people :
                LET words == {m \in due : PersonOf[m] = who} IN
                /\ words # {}
                /\ message' = Retired(msgs).message
                /\ mark' = [m \in Messages |-> IF m \in words THEN p ELSE Retired(msgs).mark[m]]
                /\ pass' = [pass EXCEPT ![p].people = @ \cup {who}, ![p].rerun = @ \/ earlier]
                /\ worker' = [worker EXCEPT ![w].at = "call", ![w].words = words]
                /\ UNCHANGED holder
        /\ UNCHANGED <<alive, turnLock, gone, waits, scheduler, player, calloff>>

SnapshotTaken(w) ==
    /\ worker[w].at = "snap"
    /\ EndsAs(w, IF Live(w) THEN "busy" ELSE "cancelled") /\ LetGo(w)
    /\ UNCHANGED <<session, waits, pass, scheduler, player, calloff>>

(* The model answered (or the engine wrote a line past the deadline) and    *)
(* the reply is committed; the player may have spoken meanwhile, and what   *)
(* answers that is due at once (convo.after_commit).                        *)
Voiced(w) == worker' = [worker EXCEPT ![w].at = "next", ![w].calls = @ + 1, ![w].words = {}]

Commit(w, more) ==
    LET p == worker[w].pass
        ids == worker[w].words
        msgs == Replied(Phone, p, ids)
    IN  /\ worker[w].at = "call" /\ turnLock = FALSE /\ Live(w)
        /\ more \subseteq {m \in Messages : message[m] = "later" /\ PersonOf[m] \notin gone
                                            /\ \E i \in ids : PersonOf[i] = PersonOf[m]}
        /\ message' = [m \in Messages |-> IF m \in more THEN "due" ELSE msgs.message[m]]
        /\ mark' = msgs.mark
        /\ pass' = [pass EXCEPT ![p].progressed = TRUE, ![p].rerun = @ \/ more # {}]
        /\ Voiced(w) /\ LetGo(w)
        /\ UNCHANGED <<alive, turnLock, gone, inbox, waits, scheduler, player, calloff>>

(* The lock stays taken: the reply is parked, its messages still marked.    *)
Park(w) ==
    LET p == worker[w].pass IN
    /\ worker[w].at = "call" /\ Live(w)
    /\ inbox' = Append(inbox, Parked(p, worker[w].words))
    /\ pass' = [pass EXCEPT ![p].parked = @ \cup worker[w].words, ![p].rerun = TRUE]
    /\ Voiced(w) /\ LetGo(w)
    /\ UNCHANGED <<alive, turnLock, message, gone, mark, waits, scheduler, player, calloff>>

(* An answer to a pass called off, or of a run released, is discarded.      *)
Discard(w) ==
    /\ worker[w].at = "call" /\ ~Live(w)
    /\ EndsAs(w, "cancelled") /\ LetGo(w)
    /\ UNCHANGED <<session, waits, pass, scheduler, player, calloff>>

(* A fault ends the pass.                                                   *)
PassFails(w) ==
    /\ worker[w].at = "call"
    /\ EndsAs(w, "failed") /\ LetGo(w)
    /\ UNCHANGED <<session, waits, pass, scheduler, player, calloff>>

(* The recap: one utility call, under the turnstile too.                    *)
Recap(w) ==
    /\ worker[w].at = "recap"
    /\ IF MayVoice THEN holder' = w /\ GoTo(w, "recapping")
       ELSE worker' = [worker EXCEPT ![w].at = "overdue", ![w].outcome = "deferred"] /\ UNCHANGED holder
    /\ UNCHANGED <<session, waits, pass, scheduler, player, calloff>>

RecapEnds(w) ==
    /\ worker[w].at = "recapping"
    /\ LetGo(w) /\ worker' = [worker EXCEPT ![w].at = "overdue", ![w].outcome = "ok"]
    /\ UNCHANGED <<session, waits, pass, scheduler, player, calloff>>

(* commit_open_fallbacks: committed under the lock, or parked.              *)
FallBack(w) ==
    \/ /\ Live(w) /\ turnLock = FALSE
       /\ Becomes(FellBack(Phone))
       /\ UNCHANGED <<alive, turnLock, gone, inbox>>
    \/ /\ Live(w) /\ \A k \in DOMAIN inbox : inbox[k] # OpenFallback
       /\ inbox' = Append(inbox, OpenFallback)
       /\ UNCHANGED <<alive, turnLock, message, gone, mark>>
    \/ ~Live(w) /\ UNCHANGED session

(* At its deadline, and when it is dropped.                                 *)
Overdue(w) ==
    /\ worker[w].at = "overdue"
    /\ FallBack(w) \/ UNCHANGED session
    /\ GoTo(w, IF worker[w].outcome = "ok" THEN "finish" ELSE "clear")
    /\ UNCHANGED <<holder, waits, pass, scheduler, player, calloff>>

Dropped(w) ==
    /\ worker[w].at = "drop"
    /\ FallBack(w)
    /\ Forgotten(worker[w].pass)
    /\ worker' = [worker EXCEPT ![w] = Resting]
    /\ UNCHANGED <<holder, waits, scheduler, player, calloff>>

(* More left than one pass takes: it runs again.                            *)
Finish(w) ==
    LET p == worker[w].pass IN
    /\ worker[w].at = "finish"
    /\ \/ /\ turnLock = FALSE
          /\ Becomes(Retired(Phone))
          /\ \E recapped \in BOOLEAN :
               pass' = [pass EXCEPT ![p].rerun = @ \/ ((worker[w].calls = MaxPerPass \/ recapped)
                                                        /\ Voiceable(Phone) # {})]
          /\ UNCHANGED <<alive, turnLock, gone, inbox>>
       \/ UNCHANGED <<session, pass>>
    /\ GoTo(w, "clear")
    /\ UNCHANGED <<holder, waits, scheduler, player, calloff>>

(* Slip: the parked ones too. *)
ClearMarksAll(w) ==
    LET p == worker[w].pass IN
    /\ worker[w].at = "clear"
    /\ mark' = Unmark(Phone, p, Messages).mark
    /\ worker' = [worker EXCEPT ![w].at = "after", ![w].calls = 0]
    /\ UNCHANGED <<alive, turnLock, message, gone, inbox, holder, waits, pass, scheduler, player, calloff>>

(* _clear_marks: the pass's own, but not those of a reply it has parked.    *)
ClearMarks(w) ==
    LET p == worker[w].pass IN
    /\ worker[w].at = "clear"
    /\ mark' = Unmark(Phone, p, Messages \ pass[p].parked).mark
    /\ worker' = [worker EXCEPT ![w].at = "after", ![w].calls = 0]
    /\ UNCHANGED <<alive, turnLock, message, gone, inbox, holder, waits, pass, scheduler, player, calloff>>

-----------------------------------------------------------------------------
(* The player.                                                              *)

PlayerAt(q, place) == player' = [player EXCEPT ![q] = place]

(* What a turn or an action may bring: messages come due, people leave.     *)
Brings(msgs, due, leave) ==
    /\ message' = [m \in Messages |-> IF m \in due THEN "due" ELSE msgs.message[m]]
    /\ mark' = msgs.mark
    /\ due \subseteq {m \in Messages : msgs.message[m] = "later" /\ PersonOf[m] \notin gone}
    /\ leave \subseteq {PersonOf[m] : m \in {i \in Messages : message[i] \in {"later", "due"}}}
    /\ gone' = gone \cup leave
    /\ inbox' = <<>>

(* A phone action, the lock had: the inbox drained, then the action.        *)
PhoneAction(q, faulty, due, leave) ==
    /\ player[q] = "idle" /\ alive /\ turnLock = FALSE /\ faulty \subseteq InInbox
    /\ Brings(Drained(faulty), due, leave)
    /\ PlayerAt(q, "asks")
    /\ UNCHANGED <<alive, turnLock, holder, waits, pass, scheduler, worker, calloff>>

(* request_if_due: asked too when the lock is taken.                        *)
RequestIfDue(q) ==
    /\ player[q] = "asks"
    /\ PlayerAt(q, "idle")
    /\ \/ /\ turnLock = FALSE
          /\ Becomes(Retired(Phone))
          /\ IF Voiceable(Phone) = {} THEN UNCHANGED <<pass, scheduler>> ELSE Request
          /\ UNCHANGED <<alive, turnLock, gone, inbox>>
       \/ Request /\ UNCHANGED session
    /\ UNCHANGED <<holder, waits, worker, calloff>>

(* A world turn: the turnstile first, holding no lock.                      *)
WorldWaits(q) ==
    /\ player[q] = "idle" /\ alive
    /\ waits' = waits \cup {q} /\ PlayerAt(q, "waiting")
    /\ UNCHANGED <<session, holder, pass, scheduler, worker, calloff>>

WorldTakes(q) ==
    /\ player[q] = "waiting" /\ holder = Nobody
    /\ holder' = q /\ waits' = waits \ {q} /\ PlayerAt(q, "took")
    /\ UNCHANGED <<session, pass, scheduler, worker, calloff>>

WorldGivesUp(q) ==
    /\ player[q] = "waiting" /\ holder # Nobody
    /\ waits' = waits \ {q} /\ PlayerAt(q, "idle")
    /\ UNCHANGED <<session, holder, pass, scheduler, worker, calloff>>

(* Then the lock, tried; the inbox drained before the turn ...              *)
WorldBegins(q, faulty) ==
    /\ player[q] = "took" /\ turnLock = FALSE /\ alive /\ faulty \subseteq InInbox
    /\ turnLock' = TRUE
    /\ Becomes(Drained(faulty)) /\ inbox' = <<>>
    /\ PlayerAt(q, "turn")
    /\ UNCHANGED <<alive, gone, holder, waits, pass, scheduler, worker, calloff>>

WorldRefused(q) ==
    /\ player[q] = "took"
    /\ PlayerAt(q, "letgo")
    /\ UNCHANGED <<session, holder, waits, pass, scheduler, worker, calloff>>

(* ... and after it.                                                        *)
WorldEnds(q, due, leave) ==
    /\ player[q] = "turn"
    /\ Brings(Drained({}), due, leave)
    /\ turnLock' = FALSE
    /\ PlayerAt(q, "letgo")
    /\ UNCHANGED <<alive, holder, waits, pass, scheduler, worker, calloff>>

WorldLetsGo(q) ==
    /\ player[q] = "letgo"
    /\ holder' = Nobody /\ PlayerAt(q, "told")
    /\ UNCHANGED <<session, waits, pass, scheduler, worker, calloff>>

WorldAsks(q) ==
    /\ player[q] = "told"
    /\ Request
    /\ PlayerAt(q, "idle")
    /\ UNCHANGED <<session, holder, waits, worker, calloff>>

(* The store releases the run, its lock free.                               *)
Release ==
    /\ alive /\ turnLock = FALSE
    /\ alive' = FALSE
    /\ UNCHANGED <<turnLock, message, gone, mark, inbox, holder, waits, pass, scheduler, worker, player, calloff>>

-----------------------------------------------------------------------------
Calls(w) ==
    \/ LookTaken(w) \/ Admitted(w) \/ SnapshotTaken(w)
    \/ \E faulty \in SUBSET InInbox : LookFirst(w, faulty) \/ Snapshot(w, faulty)
    \/ \E more \in SUBSET Messages : Commit(w, more)
    \/ Park(w) \/ Discard(w) \/ PassFails(w) \/ RecapEnds(w)

WorkerStep(w) ==
    \/ Begin(w) \/ NextCall(w) \/ Recap(w) \/ Overdue(w) \/ Finish(w) \/ ClearMarks(w)
    \/ After(w) \/ Dropped(w)

PlayerStep(q) ==
    \/ RequestIfDue(q) \/ WorldWaits(q) \/ WorldTakes(q) \/ WorldGivesUp(q)
    \/ WorldRefused(q) \/ WorldLetsGo(q) \/ WorldAsks(q)
    \/ \E faulty \in SUBSET InInbox : WorldBegins(q, faulty)
    \/ \E due \in SUBSET Messages, leave \in SUBSET People :
          \/ WorldEnds(q, due, leave)
          \/ \E faulty \in SUBSET InInbox : PhoneAction(q, faulty, due, leave)

PhoneNext ==
    \/ \E w \in Workers : Calls(w) \/ WorkerStep(w)
    \/ \E q \in Players : PlayerStep(q)
    \/ Join \/ Overflow \/ Judge \/ TakeOut \/ Fire \/ Release

PhoneSpec == PhoneInit /\ [][PhoneNext]_phoneVars

-----------------------------------------------------------------------------
(* Types; and a run has one pass at most that is queued or in flight: the   *)
(* scheduler keeps one entry per run (VoicingScheduler.request).            *)
WorkerState ==
    [at : WorkerPlaces, pass : Passes \cup {0}, words : SUBSET Messages, calls : Nat,
     outcome : {"ok", "busy", "deferred", "cancelled", "failed"}]
PlayerPlaces == {"idle", "asks", "waiting", "took", "turn", "letgo", "told"}

PhoneTypeOK ==
    /\ worker \in [Workers -> WorkerState]
    /\ player \in [Players -> PlayerPlaces]
    /\ holder \in Workers \cup Players \cup {Nobody} /\ waits \subseteq Players
    /\ queue \in Passes \cup {0} /\ flying \in Passes \cup {0}
    /\ queue = 0 \/ flying = 0

(* A message is worded by one at a time, a call under way or a reply in the *)
(* inbox, which its mark names until it is drained; and one that is marked  *)
(* has a call, a reply or a pass about to clear its marks that answers for  *)
(* the mark: a mark nobody answers for would leave it unsaid for good       *)
(* (voicer.py, _clear_marks, drain_inbox).                                  *)
CallsFor(m) == {w \in Workers : worker[w].at = "call" /\ m \in worker[w].words}
RepliesFor(m) == {k \in DOMAIN inbox : m \in inbox[k].ids}
OneReplyEach ==
    \A m \in Messages :
        /\ Cardinality(CallsFor(m)) + Cardinality(RepliesFor(m)) <= 1
        /\ message[m] = "due" => \A k \in RepliesFor(m) : mark[m] = inbox[k].pass
        /\ message[m] = "due" /\ mark[m] # 0 /\ alive =>
              \/ RepliesFor(m) # {}
              \/ \E w \in Workers : worker[w].pass = mark[m] /\ worker[w].at \in {"call", "clear"}

(* One player's world turn and their voicing pass never both ask for a      *)
(* narration ticket (turnstile.py): under one account the second would be   *)
(* refused as another window's.                                             *)
OneNarration ==
    \A w \in Workers, q \in Players :
        ~(worker[w].at \in {"admit", "snap", "call", "recapping"} /\ player[q] = "turn")

(* A request made since the last cancel is served: a pass that is not       *)
(* called off is queued, or the one in flight will run again (voicer.py,    *)
(* request, _rerequested, _after).                                          *)
RequestKept ==
    asked /\ alive /\ calloff.at = "idle" =>
        \/ queue # 0 /\ ~pass[queue].cancelled
        \/ flying # 0 /\ (again \/ pass[flying].rerun)

(* What was said stays said, nothing is said for a run that was released,   *)
(* and nobody who left says anything, however long ago their reply was      *)
(* asked for (voicer.py, the four generation checks, _apply_reply).         *)
NothingAfterLeaving ==
    [][\A m \in Messages :
          message'[m] # message[m] =>
              /\ message[m] \in {"later", "due"}
              /\ message'[m] = "voiced" => alive /\ PersonOf[m] \notin gone]_phoneVars

-----------------------------------------------------------------------------
(* A call has its deadlines (the model's, the admission's, the lock's       *)
(* schedule), a waiting world turn is woken by a release, and one that has  *)
(* the turnstile goes on.                                                   *)
PhoneFairness ==
    /\ \A w \in Workers : WF_phoneVars(Calls(w))
    /\ \A q \in Players :
          /\ WF_phoneVars(WorldTakes(q))
          /\ WF_phoneVars(player[q] \in {"took", "turn", "letgo"} /\ PlayerStep(q))

FairPhoneSpec == PhoneSpec /\ PhoneFairness

(* A world turn's wait for the turnstile ends without its timeout: it waits *)
(* for one voice call at most (turnstile.py).                               *)
WorldTurnWaitEnds == \A q \in Players : player[q] = "waiting" ~> player[q] # "waiting"
=============================================================================
