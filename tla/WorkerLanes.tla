---------------------------- MODULE WorkerLanes ----------------------------
(***************************************************************************)
(* The workers' side of the lane queue and the bus between them:            *)
(* engine/hosting/lanes_remote.py (RemoteLanes), the request half of        *)
(* engine/hosting/bus.py (BusClient) and the admission half of              *)
(* engine/llm/gate.py, over the supervisor's queue (LaneQueue).             *)
(*                                                                          *)
(* A CALL is one acquire of the gate and the slot it brings: a turn's       *)
(* admission, or a utility call, made inside a turn or outside any.  It     *)
(* runs on a thread of its worker, which waits on the bus's answer; the     *)
(* wait can end by the answer, by the bus's own timeout or by the player    *)
(* leaving, and each of them races the others.  Messages of one connection  *)
(* stay in order; what the reader thread, the reclaim pool and the turn     *)
(* threads do with them does not.                                           *)
(***************************************************************************)
EXTENDS LaneQueue, Sequences, Functions

CONSTANTS
    Calls,      \* the acquires made, named by their bus request id
    WorkerOf,   \* the connection of the worker a call runs on
    LaneOf,     \* the lane it asks for
    AccountOf,  \* the account it asks in the name of
    TurnOf,     \* the turn (a call) it is made inside, or NoTurn
    NoTurn

ASSUME CallConstants ==
    /\ Calls \subseteq Nat /\ NoTurn \notin Calls
    /\ WorkerOf \in [Calls -> Conns]
    /\ LaneOf \in [Calls -> Lanes]
    /\ AccountOf \in [Calls -> Accounts \cup {NoAccount}]
    /\ TurnOf \in [Calls -> Calls \cup {NoTurn}]
    /\ \A k \in Calls : TurnOf[k] # NoTurn =>
          /\ LaneOf[TurnOf[k]] = NARRATION /\ TurnOf[TurnOf[k]] = NoTurn
          /\ WorkerOf[k] = WorkerOf[TurnOf[k]]
          /\ AccountOf[k] = AccountOf[TurnOf[k]]

VARIABLES
    phase,        \* where each call's thread stands
    ticketOf,     \* the ticket its answer carried; 0 for none
    late,         \* calls given up whose answer goes to _late (pending.late)
    withdrawing,  \* calls called off whose lane.cancel is not sent yet
    alive,        \* connections whose worker process runs
    toSup,        \* each connection's messages to the supervisor
    toWorker,     \* and to the worker
    pool,         \* reclaims handed to a worker's bus pool
    asking,       \* tickets taken back whose worker is still to be told
    wheld,        \* RemoteLanes._held
    wreclaimed    \* RemoteLanes._reclaimed

workerVars == <<phase, ticketOf, late, withdrawing, alive, toSup, toWorker,
                pool, asking, wheld, wreclaimed>>
vars == <<queueVars, workerVars>>

Phases == {"new", "asking", "answered", "holding", "releasing", "done"}

Request(op, arg) == [op |-> op, arg |-> arg]
Reply(k, t)      == [op |-> "reply", call |-> k, ticket |-> t]
Reclaimed(t)     == [op |-> "reclaimed", call |-> 0, ticket |-> t]

Post(channel, c, m) == [channel EXCEPT ![c] = Append(@, m)]
Drop(channel, c)    == [channel EXCEPT ![c] = Tail(@)]

(* A grant carries its ticket; a refusal none. *)
TicketIn(m) == IF m.result = "granted" THEN m.entry.ticket ELSE 0

(* Slip: a late grant is only logged. *)
GiveBackNone(channel, c, t) == channel

(* _late: a grant nobody waits for any more goes straight back. *)
GiveBack(channel, c, t) ==
    IF t = 0 THEN channel ELSE Post(channel, c, Request("release", t))

----------------------------------------------------------------------------
(* The turn threads. *)

(* Whether a call's turn still holds its place, so it may be made           *)
(* (inference_slot refuses once the turn's ticket was reclaimed).           *)
MayCall(k) ==
    TurnOf[k] # NoTurn =>
        /\ phase[TurnOf[k]] = "holding"
        /\ ticketOf[TurnOf[k]] \notin wreclaimed[WorkerOf[k]]

(* RemoteLanes.acquire sends lane.acquire and waits. *)
Ask(k) ==
    /\ WorkerOf[k] \in alive
    /\ phase[k] = "new" /\ MayCall(k)
    /\ phase' = [phase EXCEPT ![k] = "asking"]
    /\ toSup' = Post(toSup, WorkerOf[k], Request("acquire", k))
    /\ UNCHANGED <<queueVars, ticketOf, late, withdrawing, alive, toWorker,
                   pool, asking, wheld, wreclaimed>>

(* The answer wakes the thread: a grant is registered, a refusal raised. *)
TakeAnswer(k) ==
    /\ WorkerOf[k] \in alive
    /\ phase[k] = "answered"
    /\ \/ /\ ticketOf[k] # 0
          /\ wheld' = [wheld EXCEPT ![WorkerOf[k]] = @ \cup {ticketOf[k]}]
          /\ phase' = [phase EXCEPT ![k] = "holding"]
       \/ /\ ticketOf[k] = 0
          /\ phase' = [phase EXCEPT ![k] = "done"]
          /\ UNCHANGED wheld
    /\ UNCHANGED <<queueVars, ticketOf, late, withdrawing, alive, toSup,
                   toWorker, pool, asking, wreclaimed>>

(* The bus's timeout ends the wait (_give_up): an answer that came at the   *)
(* same moment is handed to _late at once, one still to come is kept for it.*)
GiveUp(k) ==
    /\ WorkerOf[k] \in alive
    /\ phase' = [phase EXCEPT ![k] = "done"]
    /\ \/ /\ phase[k] = "asking"
          /\ late' = late \cup {k}
          /\ UNCHANGED toSup
       \/ /\ phase[k] = "answered"
          /\ toSup' = GiveBack(toSup, WorkerOf[k], ticketOf[k])
          /\ UNCHANGED late
    /\ UNCHANGED <<queueVars, ticketOf, withdrawing, alive, toWorker, pool,
                   asking, wheld, wreclaimed>>

(* The player leaves while their turn waits (_call_off): the wait ends now; *)
(* once answered, the caller takes the answer.  Only an admission carries a *)
(* cancel token.                                                            *)
CallOff(k) ==
    /\ WorkerOf[k] \in alive
    /\ phase[k] = "asking"
    /\ LaneOf[k] = NARRATION /\ TurnOf[k] = NoTurn
    /\ phase' = [phase EXCEPT ![k] = "done"]
    /\ late' = late \cup {k}
    /\ withdrawing' = withdrawing \cup {k}
    /\ UNCHANGED <<queueVars, ticketOf, alive, toSup, toWorker, pool, asking,
                   wheld, wreclaimed>>

(* ... and the supervisor is told (_withdraw), the bus's lock released. *)
Withdraw(k) ==
    /\ k \in withdrawing
    /\ withdrawing' = withdrawing \ {k}
    /\ toSup' = Post(toSup, WorkerOf[k], Request("cancel", k))
    /\ UNCHANGED <<queueVars, phase, ticketOf, late, alive, toWorker, pool,
                   asking, wheld, wreclaimed>>

(* The call ends and its slot goes back, a turn's after its calls'.         *)
(* RemoteLanes.release: forgotten here first ...                            *)
Finish(k) ==
    /\ WorkerOf[k] \in alive
    /\ phase[k] = "holding"
    /\ \A j \in Calls : TurnOf[j] = k => phase[j] \in {"new", "done"}
    /\ phase' = [phase EXCEPT ![k] = "releasing"]
    /\ wheld' = [wheld EXCEPT ![WorkerOf[k]] = @ \ {ticketOf[k]}]
    /\ wreclaimed' = [wreclaimed EXCEPT ![WorkerOf[k]] = @ \ {ticketOf[k]}]
    /\ UNCHANGED <<queueVars, ticketOf, late, withdrawing, alive, toSup,
                   toWorker, pool, asking>>

(* Slip: the supervisor is not told. *)
SendReleaseForgotten(k) ==
    /\ WorkerOf[k] \in alive
    /\ phase[k] = "releasing"
    /\ phase' = [phase EXCEPT ![k] = "done"]
    /\ UNCHANGED <<queueVars, ticketOf, late, withdrawing, alive, toSup, toWorker,
                   pool, asking, wheld, wreclaimed>>

(* ... then the supervisor is told. *)
SendRelease(k) ==
    /\ WorkerOf[k] \in alive
    /\ phase[k] = "releasing"
    /\ phase' = [phase EXCEPT ![k] = "done"]
    /\ toSup' = Post(toSup, WorkerOf[k], Request("release", ticketOf[k]))
    /\ UNCHANGED <<queueVars, ticketOf, late, withdrawing, alive, toWorker,
                   pool, asking, wheld, wreclaimed>>

----------------------------------------------------------------------------
(* The reader thread and the pool of a worker. *)

(* _on_reply: the answer goes to its waiting thread, or to _late. *)
ReadReply(c) ==
    /\ c \in alive
    /\ toWorker[c] # <<>>
    /\ LET m == Head(toWorker[c])
       IN  /\ m.op = "reply"
           /\ \/ /\ m.call \in late
                 /\ late' = late \ {m.call}
                 /\ toSup' = GiveBack(toSup, c, m.ticket)
                 /\ UNCHANGED <<phase, ticketOf>>
              \/ /\ m.call \notin late
                 /\ phase' = [phase EXCEPT ![m.call] =
                                 IF @ = "asking" THEN "answered" ELSE @]
                 /\ ticketOf' = [ticketOf EXCEPT ![m.call] = m.ticket]
                 /\ UNCHANGED <<late, toSup>>
    /\ toWorker' = Drop(toWorker, c)
    /\ UNCHANGED <<queueVars, withdrawing, alive, pool, asking, wheld, wreclaimed>>

(* _on_request: a reclaim is handed to the bus pool. *)
ReadReclaim(c) ==
    /\ c \in alive
    /\ toWorker[c] # <<>>
    /\ Head(toWorker[c]).op = "reclaimed"
    /\ pool' = pool \cup {<<c, Head(toWorker[c]).ticket>>}
    /\ toWorker' = Drop(toWorker, c)
    /\ UNCHANGED <<queueVars, phase, ticketOf, late, withdrawing, alive, toSup,
                   asking, wheld, wreclaimed>>

(* Slip: a reclaim is noted whether the ticket is held here or not. *)
NoteReclaimAlways(c, t) ==
    /\ c \in alive
    /\ <<c, t>> \in pool
    /\ pool' = pool \ {<<c, t>>}
    /\ wreclaimed' = [wreclaimed EXCEPT ![c] = @ \cup {t}]
    /\ UNCHANGED <<queueVars, phase, ticketOf, late, withdrawing, alive, toSup,
                   toWorker, asking, wheld>>

(* reclaimed_ticket: noted only while the ticket is held here. *)
NoteReclaim(c, t) ==
    /\ c \in alive
    /\ <<c, t>> \in pool
    /\ pool' = pool \ {<<c, t>>}
    /\ wreclaimed' = IF t \in wheld[c]
                     THEN [wreclaimed EXCEPT ![c] = @ \cup {t}]
                     ELSE wreclaimed
    /\ UNCHANGED <<queueVars, phase, ticketOf, late, withdrawing, alive, toSup,
                   toWorker, asking, wheld>>

----------------------------------------------------------------------------
(* The supervisor's end of the connections. *)

(* A ticket this connection may give back. *)
Known(c, t) == \E e \in held \cup reclaimed : e.ticket = t /\ e.owner = c

(* Its selector thread takes a connection's next message (attach). *)
Receive(c) ==
    /\ toSup[c] # <<>>
    /\ LET m == Head(toSup[c])
       IN  \/ /\ m.op = "acquire"
              /\ Acquire(c, LaneOf[m.arg], AccountOf[m.arg], m.arg)
           \/ m.op = "release" /\ Release(c, m.arg)
           \/ /\ m.op = "release"          \* refused: bad_args
              /\ ~Known(c, m.arg)
              /\ c \notin closed
              /\ UNCHANGED queueVars
           \/ m.op = "cancel" /\ Cancel(c, m.arg)
           \/ /\ m.op = "cancel"
              /\ ~\E e \in waiting : e.owner = c /\ e.request = m.arg
              /\ c \notin closed
              /\ UNCHANGED queueVars
    /\ toSup' = Drop(toSup, c)
    /\ UNCHANGED <<phase, ticketOf, late, withdrawing, alive, toWorker, pool,
                   asking, wheld, wreclaimed>>

(* An answer goes onto its connection, if that is still open. *)
Send(m) ==
    /\ DeliverAnswer(m)
    /\ toWorker' = IF m.entry.owner \in closed THEN toWorker
                   ELSE Post(toWorker, m.entry.owner,
                             Reply(m.entry.request, TicketIn(m)))
    /\ UNCHANGED <<phase, ticketOf, late, withdrawing, alive, toSup, pool,
                   asking, wheld, wreclaimed>>

(* max_hold is at least 120 s past the turn's deadline (max_hold_floor): by *)
(* then a grant has long reached its thread.                                *)
LongHeld == {e \in held : phase[e.request] \notin {"asking", "answered"}}

(* The deadline thread; every ticket taken back is then told (on_reclaim). *)
Expire(W, H) ==
    /\ Deadlines(W, H)
    /\ asking' = asking \cup H
    /\ UNCHANGED <<phase, ticketOf, late, withdrawing, alive, toSup, toWorker,
                   pool, wheld, wreclaimed>>

TellReclaimed(e) ==
    /\ e \in asking
    /\ asking' = asking \ {e}
    /\ toWorker' = IF e.owner \in closed THEN toWorker
                   ELSE Post(toWorker, e.owner, Reclaimed(e.ticket))
    /\ UNCHANGED <<queueVars, phase, ticketOf, late, withdrawing, alive, toSup,
                   pool, wheld, wreclaimed>>

(* A worker process dies, on its own or because its link is lost (the       *)
(* lifeline): its threads, and what it had not read, are gone.              *)
Crash(c) ==
    /\ c \in alive
    /\ alive' = alive \ {c}
    /\ phase' = [k \in Calls |-> IF WorkerOf[k] = c THEN "done" ELSE phase[k]]
    /\ late' = {k \in late : WorkerOf[k] # c}
    /\ withdrawing' = {k \in withdrawing : WorkerOf[k] # c}
    /\ toWorker' = [toWorker EXCEPT ![c] = <<>>]
    /\ pool' = {p \in pool : p[1] # c}
    /\ wheld' = [wheld EXCEPT ![c] = {}]
    /\ wreclaimed' = [wreclaimed EXCEPT ![c] = {}]
    /\ UNCHANGED <<queueVars, ticketOf, toSup, asking>>

(* Slip: its tickets are freed, its waiters stay queued. *)
SeeCloseWaiting(c) ==
    /\ c \notin closed
    /\ closed' = closed \cup {c}
    /\ held' = {e \in held : e.owner # c}
    /\ toSup' = [toSup EXCEPT ![c] = <<>>]
    /\ UNCHANGED <<issued, waiting, limit, pausedAll, paused, closing, stopping,
                   reclaimed, answers, phase, ticketOf, late, withdrawing, alive,
                   toWorker, pool, asking, wheld, wreclaimed>>

(* The supervisor loses the connection, with or without having read all     *)
(* that was sent on it; the worker may live on until it notices.            *)
SeeClose(c) ==
    /\ CloseConnection(c)
    /\ toSup' = [toSup EXCEPT ![c] = <<>>]
    /\ UNCHANGED <<phase, ticketOf, late, withdrawing, alive, toWorker, pool,
                   asking, wheld, wreclaimed>>

----------------------------------------------------------------------------
Init ==
    /\ QueueInit
    /\ phase = [k \in Calls |-> "new"]
    /\ ticketOf = [k \in Calls |-> 0]
    /\ late = {} /\ withdrawing = {}
    /\ alive = Conns
    /\ toSup = [c \in Conns |-> <<>>]
    /\ toWorker = [c \in Conns |-> <<>>]
    /\ pool = {} /\ asking = {}
    /\ wheld = [c \in Conns |-> {}]
    /\ wreclaimed = [c \in Conns |-> {}]

CallSteps(k) ==
    \/ Ask(k) \/ TakeAnswer(k) \/ GiveUp(k) \/ CallOff(k)
    \/ Withdraw(k) \/ Finish(k) \/ SendRelease(k)

ConnSteps(c) ==
    \/ ReadReply(c) \/ ReadReclaim(c) \/ Receive(c) \/ Crash(c) \/ SeeClose(c)

Next ==
    \/ \E k \in Calls : CallSteps(k)
    \/ \E c \in Conns : ConnSteps(c)
    \/ \E p \in pool : NoteReclaim(p[1], p[2])
    \/ \E m \in answers : Send(m)
    \/ \E W \in SUBSET waiting, H \in SUBSET LongHeld : Expire(W, H)
    \/ \E e \in asking : TellReclaimed(e)

Spec == Init /\ [][Next]_vars

----------------------------------------------------------------------------
(* A connection both ends still use. *)
Linked(c) == c \in alive \ closed

(* A ticket on its way to call k's thread, in its hands, or on its way back. *)
GrantUnderWay(k, t) ==
    /\ phase[k] = "asking" \/ k \in late
    /\ \/ \E m \in answers : m.entry.request = k /\ TicketIn(m) = t
       \/ Reply(k, t) \in Range(toWorker[WorkerOf[k]])

InHand(k, t) ==
    phase[k] \in {"answered", "holding", "releasing"} /\ ticketOf[k] = t

ReleaseUnderWay(c, t) == Request("release", t) \in Range(toSup[c])

(* No slot leaks: whoever times out, leaves, or is answered too late, a     *)
(* ticket the supervisor counts as held is on its way to a thread, with one *)
(* that will give it back, or on its way back; a crash leaves none.         *)
NoOrphanTicket ==
    \A e \in held : Linked(e.owner) =>
        \/ GrantUnderWay(e.request, e.ticket)
        \/ InHand(e.request, e.ticket)
        \/ ReleaseUnderWay(e.owner, e.ticket)

(* No call is forgotten: while a thread waits (or its answer is still due   *)
(* to _late), its request is unread, waiting, or answered and on the way.   *)
NoLostCall ==
    \A k \in Calls :
        (phase[k] = "asking" \/ k \in late) /\ Linked(WorkerOf[k]) =>
            \/ Request("acquire", k) \in Range(toSup[WorkerOf[k]])
            \/ \E e \in waiting : e.request = k
            \/ \E m \in answers : m.entry.request = k
            \/ \E t \in 0..MaxTickets : Reply(k, t) \in Range(toWorker[WorkerOf[k]])

(* Each call gets its answer, and one answer only. *)
OneAnswerEach == AnsweredOnce /\ NoLostCall

(* Every release is for a ticket the supervisor knows: held, or taken back  *)
(* and remembered; none is sent twice or refused.  A worker notes only a    *)
(* ticket it still holds as taken back, so that a release removes the note. *)
NoStrayRelease ==
    /\ \A c \in Conns, t \in 1..MaxTickets :
          Linked(c) /\ ReleaseUnderWay(c, t) => Known(c, t)
    /\ \A c \in Conns : wreclaimed[c] \subseteq wheld[c]

(* A thread that holds a ticket holds it at the supervisor too, or the news *)
(* that it was taken back is on its way or noted: no turn goes on for good  *)
(* on a slot that was passed to another.                                    *)
ReclaimIsHeard ==
    \A k \in Calls : LET c == WorkerOf[k]  t == ticketOf[k] IN
        phase[k] = "holding" /\ Linked(c) =>
            \/ \E e \in held : e.ticket = t
            \/ \E e \in asking : e.ticket = t
            \/ Reclaimed(t) \in Range(toWorker[c])
            \/ <<c, t>> \in pool
            \/ t \in wreclaimed[c]

(* A reclaim leaves both sides agreed: the thread whose slot went to      *)
(* another learns of it, and its late release is nobody else's.           *)
ReclaimsAgree == NoStrayRelease /\ ReclaimIsHeard

(* The queue the workers drive is the queue that was checked alone: request *)
(* ids renamed to ticket numbers, every step is one of its steps. *)
Renamed(S) == {[e EXCEPT !.request = e.ticket] : e \in S}

Queue == INSTANCE LaneQueue WITH
            waiting   <- Renamed(waiting),
            held      <- Renamed(held),
            reclaimed <- Renamed(reclaimed),
            answers   <- {[m EXCEPT !.entry.request = m.entry.ticket] : m \in answers}

QueueImplemented == Queue!QueueSpec

----------------------------------------------------------------------------
(* Threads run, messages arrive, a turn ends (by its deadline at the        *)
(* latest), a lost link ends its worker and a dead worker's link closes.    *)
(* Nobody has to leave, time out or be taken back: neither the bus's own    *)
(* timeout nor the deadline thread is needed for what follows.              *)
CallFairness ==
    \A k \in Calls :
        /\ WF_vars(TakeAnswer(k)) /\ WF_vars(Withdraw(k))
        /\ WF_vars(Finish(k)) /\ WF_vars(SendRelease(k))

ConnFairness ==
    \A c \in Conns :
        /\ WF_vars(ReadReply(c) \/ ReadReclaim(c))
        /\ WF_vars(Receive(c))
        /\ WF_vars(c \in closed /\ Crash(c))
        /\ WF_vars(c \notin alive /\ SeeClose(c))

WorkersFairness ==
    /\ CallFairness /\ ConnFairness
    /\ WF_vars(\E m \in answers : Send(m))

(* Every wait of a turn thread ends. *)
EveryAskEnds == \A k \in Calls : phase[k] = "asking" ~> phase[k] # "asking"

(* Every slot comes back, without the backstop having to take it. *)
SlotsComeBack ==
    \A t \in 1..MaxTickets :
        (\E e \in held : e.ticket = t) ~> ~(\E e \in held : e.ticket = t)

(* Nobody waits for an answer for ever and no slot stays away: whatever is  *)
(* withdrawn, lost or crossed on the bus, no timeout is needed for either.  *)
CallsMove == EveryAskEnds /\ SlotsComeBack
=============================================================================
