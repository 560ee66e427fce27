----------------------------- MODULE LaneQueue -----------------------------
(***************************************************************************)
(* The supervisor's lane queue, engine/hosting/supervisor/queue.py: ONE     *)
(* queue of inference tickets for every story's worker.  A worker asks for  *)
(* a ticket in a lane (narration: one turn; utility: one short call), the   *)
(* supervisor grants tickets in arrival order while a lane has a free slot, *)
(* and a ticket ends when it is released, when its connection closes or     *)
(* when the deadline thread takes it back.                                  *)
(*                                                                          *)
(* A definition commented `Slip:' is no part of the model: it is a likely    *)
(* mistake in the one after it, kept to show which property would notice.   *)
(*                                                                          *)
(* Every operation of the class runs under one condition variable, so each  *)
(* is one action.  What it answers is sent AFTER the lock is released       *)
(* (_send): the answers wait in `answers' and DeliverAnswer hands over any  *)
(* one of them, in any order, because several threads send at once.         *)
(* Time is abstracted: the deadline thread may find any waiter and any      *)
(* holder past its deadline.                                                *)
(***************************************************************************)
EXTENDS Integers, FiniteSets

CONSTANTS
    Stories,             \* the stories hosted (one worker each)
    Accounts,            \* the players' accounts
    NoAccount,           \* "" in the code: a call made for no account
    Conns,               \* bus connections, one per worker process
    StoryOf,             \* the story stamped on a connection by its token
    Lanes,               \* every lane name that may be asked for
    NARRATION,           \* the lane of turns
    InitialLimit,        \* lane_limits(): 0 for a lane not opened yet
    DEFAULT_LANE_LIMIT,  \* the size a lane named nowhere is opened at
    Sizes,               \* the sizes resize is asked for
    MAX_RECLAIMED,       \* reclaimed tickets remembered, at most
    MaxTickets           \* bound: tickets issued in one behaviour

ASSUME QueueConstants ==
    /\ NoAccount \notin Accounts
    /\ IsFiniteSet(Conns)
    /\ StoryOf \in [Conns -> Stories]
    /\ NARRATION \in Lanes
    /\ InitialLimit \in [Lanes -> Nat]
    /\ InitialLimit[NARRATION] > 0
    /\ DEFAULT_LANE_LIMIT \in Nat \ {0}
    /\ Sizes \subseteq Int
    /\ MAX_RECLAIMED \in Nat
    /\ MaxTickets \in Nat

VARIABLES
    issued,     \* the last ticket number handed out (itertools.count)
    waiting,    \* every lane's waiters: a lane's deque is in ticket order
    held,       \* every lane's holders
    limit,      \* each lane's size; 0 while the lane does not exist
    pausedAll,  \* no new turn for any story
    paused,     \* the stories paused on their own
    closing,    \* stories whose acquires are refused at once
    stopping,   \* close() has run
    reclaimed,  \* tickets taken back whose late release is still expected
    closed,     \* connections the bus has closed
    answers     \* answers computed under the lock, not yet sent

queueVars == <<issued, waiting, held, limit, pausedAll, paused, closing,
               stopping, reclaimed, closed, answers>>

(* _Entry: a waiter or a holder.  `request' is the bus request it answers;  *)
(* its story is the one stamped on its connection.                          *)
Entry == [ticket : 1..MaxTickets, lane : Lanes,
          account : Accounts \cup {NoAccount}, owner : Conns, request : Nat]

Results == {"granted", "busy", "other_window", "cancelled"}

Answer == [entry : Entry, result : Results]

Story(e) == StoryOf[e.owner]

----------------------------------------------------------------------------
(* The pure part: who may be admitted, and whom the free slots go to.       *)

(* The stories whose turns are not admitted (_is_paused). *)
PausedStories(all, some) == IF all THEN Stories ELSE some

InLane(S, l) == {e \in S : e.lane = l}

(* Somebody of this account is in the narration lane (_account_in_narration). *)
AccountInNarration(a, W, H) ==
    \E e \in W \cup H : e.lane = NARRATION /\ e.account = a

(* The account of e holds narration on its own connection: e belongs to a   *)
(* turn already admitted (_holds_narration).                                *)
HoldsNarration(e, H) ==
    /\ e.account # NoAccount
    /\ \E h \in InLane(H, NARRATION) : h.account = e.account /\ h.owner = e.owner

(* Slip: every call outside the narration lane passes a pause. *)
EligibleOffTurn(e, H, P) ==
    \/ Story(e) \notin P
    \/ e.lane # NARRATION

(* A paused story admits no new turn; an admitted turn's own calls pass. *)
Eligible(e, H, P) ==
    \/ Story(e) \notin P
    \/ e.lane # NARRATION /\ HoldsNarration(e, H)

(* Slip: the newest waiter first. *)
GrantsNewestFirst(W, H, lim, P) ==
    {G \in SUBSET W :
        /\ \A g \in G : Eligible(g, H, P)
        /\ \A g \in G, u \in W \ G :
              u.lane = g.lane /\ Eligible(u, H, P) => g.ticket > u.ticket
        /\ \A l \in Lanes :
              InLane(G, l) # {} =>
                  Cardinality(InLane(G, l)) <= lim[l] - Cardinality(InLane(H, l))}

(* _grant: in each lane the free slots go to the first eligible waiters, in *)
(* arrival order; the rest keep their place.                                *)
Grants(W, H, lim, P) ==
    {G \in SUBSET W :
        /\ \A g \in G : Eligible(g, H, P)
        /\ \A g \in G, u \in W \ G :
              u.lane = g.lane /\ Eligible(u, H, P) => g.ticket < u.ticket
        /\ \A l \in Lanes :
              LET free    == lim[l] - Cardinality(InLane(H, l))
                  granted == Cardinality(InLane(G, l))
              IN  /\ granted > 0 => granted <= free
                  /\ granted >= free \/
                       \A u \in InLane(W \ G, l) : ~Eligible(u, H, P)}

Replies(S, r) == {[entry |-> e, result |-> r] : e \in S}

(* The lane table after an operation leaves W waiting and H holding: the    *)
(* grants are made and answered, after `sent', the operation's own answers. *)
GrantThenSend(W, H, lim, P, sent) ==
    \E G \in Grants(W, H, lim, P) :
        /\ waiting' = W \ G
        /\ held' = H \cup G
        /\ answers' = answers \cup sent \cup Replies(G, "granted")

----------------------------------------------------------------------------
QueueInit ==
    /\ issued = 0
    /\ waiting = {} /\ held = {}
    /\ limit = InitialLimit
    /\ pausedAll = FALSE /\ paused = {} /\ closing = {}
    /\ stopping = FALSE
    /\ reclaimed = {}
    /\ closed = {}
    /\ answers = {}

(* A lane named nowhere is opened at the default size when first asked for. *)
Opened(l) == IF limit[l] = 0 THEN [limit EXCEPT ![l] = DEFAULT_LANE_LIMIT]
                             ELSE limit

NewEntry(c, l, a, r) ==
    [ticket |-> issued + 1, lane |-> l, account |-> a, owner |-> c, request |-> r]

Refused(e) ==
    \/ stopping
    \/ Story(e) \in closing

(* Slip: only the holders are searched. *)
InOtherWindowHolding(e) ==
    /\ e.lane = NARRATION
    /\ e.account # NoAccount
    /\ AccountInNarration(e.account, {}, held)

InOtherWindow(e) ==
    /\ e.lane = NARRATION
    /\ e.account # NoAccount
    /\ AccountInNarration(e.account, waiting, held)

(* acquire: a number is taken even by a request that is refused. *)
Acquire(c, l, a, r) ==
    /\ c \notin closed
    /\ issued < MaxTickets
    /\ issued' = issued + 1
    /\ LET e == NewEntry(c, l, a, r)
       IN  \/ /\ Refused(e)
              /\ answers' = answers \cup Replies({e}, "busy")
              /\ UNCHANGED <<waiting, held, limit>>
           \/ /\ ~Refused(e) /\ InOtherWindow(e)
              /\ answers' = answers \cup Replies({e}, "other_window")
              /\ UNCHANGED <<waiting, held, limit>>
           \/ /\ ~Refused(e) /\ ~InOtherWindow(e)
              /\ limit' = Opened(l)
              /\ GrantThenSend(waiting \cup {e}, held, Opened(l),
                               PausedStories(pausedAll, paused), {})
    /\ UNCHANGED <<pausedAll, paused, closing, stopping, reclaimed, closed>>

(* Slip: the freed slot wakes nobody. *)
ReleaseUngranted(c, t) ==
    /\ c \notin closed
    /\ \E e \in held : e.ticket = t /\ e.owner = c /\ held' = held \ {e}
    /\ UNCHANGED <<issued, waiting, limit, pausedAll, paused, closing, stopping,
                   reclaimed, closed, answers>>

(* release: only its owner gives a ticket back; a ticket taken back from    *)
(* this owner is forgotten quietly; anything else is refused (bad_args) and *)
(* changes nothing.                                                         *)
Release(c, t) ==
    /\ c \notin closed
    /\ \/ \E e \in held :
             /\ e.ticket = t /\ e.owner = c
             /\ GrantThenSend(waiting, held \ {e}, limit,
                              PausedStories(pausedAll, paused), {})
             /\ UNCHANGED reclaimed
       \/ /\ \A e \in held : ~(e.ticket = t /\ e.owner = c)
          /\ \E e \in reclaimed : e.ticket = t /\ e.owner = c
          /\ reclaimed' = {e \in reclaimed : e.ticket # t}
          /\ UNCHANGED <<waiting, held, answers>>
    /\ UNCHANGED <<issued, limit, pausedAll, paused, closing, stopping, closed>>

(* Slip: the waiter is withdrawn, its acquire never answered. *)
CancelUnanswered(c, r) ==
    /\ c \notin closed
    /\ \E e \in waiting :
          /\ e.owner = c /\ e.request = r
          /\ GrantThenSend(waiting \ {e}, held, limit,
                           PausedStories(pausedAll, paused), {})
    /\ UNCHANGED <<issued, limit, pausedAll, paused, closing, stopping,
                   reclaimed, closed>>

(* cancel: a waiter its player left is withdrawn (nothing when it is not    *)
(* waiting: granted already, or never queued).                              *)
Cancel(c, r) ==
    /\ c \notin closed
    /\ \E e \in waiting :
          /\ e.owner = c /\ e.request = r
          /\ GrantThenSend(waiting \ {e}, held, limit,
                           PausedStories(pausedAll, paused),
                           Replies({e}, "cancelled"))
    /\ UNCHANGED <<issued, limit, pausedAll, paused, closing, stopping,
                   reclaimed, closed>>

(* Slip: the memory of its reclaimed tickets stays. *)
CloseConnectionRemembering(c) ==
    /\ c \notin closed
    /\ closed' = closed \cup {c}
    /\ GrantThenSend({e \in waiting : e.owner # c}, {e \in held : e.owner # c},
                     limit, PausedStories(pausedAll, paused), {})
    /\ UNCHANGED <<issued, limit, pausedAll, paused, closing, stopping, reclaimed>>

(* close_connection: what a lost worker held is free again, what it waited  *)
(* for is dropped (nobody is left to answer).                               *)
CloseConnection(c) ==
    /\ c \notin closed
    /\ closed' = closed \cup {c}
    /\ reclaimed' = {e \in reclaimed : e.owner # c}
    /\ GrantThenSend({e \in waiting : e.owner # c}, {e \in held : e.owner # c},
                     limit, PausedStories(pausedAll, paused), {})
    /\ UNCHANGED <<issued, limit, pausedAll, paused, closing, stopping>>

----------------------------------------------------------------------------
(* Other threads: a drain's and an operation's calls. *)

Pause(s) ==
    /\ paused' = paused \cup {s}
    /\ UNCHANGED <<issued, waiting, held, limit, pausedAll, closing, stopping,
                   reclaimed, closed, answers>>

PauseAll ==
    /\ pausedAll' = TRUE
    /\ UNCHANGED <<issued, waiting, held, limit, paused, closing, stopping,
                   reclaimed, closed, answers>>

(* narrow_pause: a pause for all becomes a pause of each of S, at once. *)
NarrowPause(S) ==
    /\ paused' = paused \cup S
    /\ pausedAll' = FALSE
    /\ GrantThenSend(waiting, held, limit, paused \cup S, {})
    /\ UNCHANGED <<issued, limit, closing, stopping, reclaimed, closed>>

(* resume(story): lifts the story's own pause and its closing, not a pause  *)
(* for all.                                                                 *)
Resume(s) ==
    /\ paused' = paused \ {s}
    /\ closing' = closing \ {s}
    /\ GrantThenSend(waiting, held, limit,
                     PausedStories(pausedAll, paused \ {s}), {})
    /\ UNCHANGED <<issued, limit, pausedAll, stopping, reclaimed, closed>>

ResumeAll ==
    /\ pausedAll' = FALSE /\ paused' = {} /\ closing' = {}
    /\ GrantThenSend(waiting, held, limit, {}, {})
    /\ UNCHANGED <<issued, limit, stopping, reclaimed, closed>>

(* Slip: the story's waiters are dropped without an answer. *)
CloseStoryUnanswered(s) ==
    /\ closing' = closing \cup {s}
    /\ waiting' = {e \in waiting : Story(e) # s}
    /\ UNCHANGED <<issued, held, limit, pausedAll, paused, stopping, reclaimed,
                   closed, answers>>

(* close_story: a drained story's waiters never started: answered busy. *)
CloseStory(s) ==
    /\ closing' = closing \cup {s}
    /\ waiting' = {e \in waiting : Story(e) # s}
    /\ answers' = answers \cup Replies({e \in waiting : Story(e) = s}, "busy")
    /\ UNCHANGED <<issued, held, limit, pausedAll, paused, stopping, reclaimed,
                   closed>>

(* Slip: resized while tickets are held. *)
ResizeHeld(l, n) ==
    /\ pausedAll
    /\ limit' = [limit EXCEPT ![l] = IF n > 1 THEN n ELSE 1]
    /\ UNCHANGED <<issued, waiting, held, pausedAll, paused, closing, stopping,
                   reclaimed, closed, answers>>

(* resize: only while paused for all and with nothing held; at least 1. *)
Resize(l, n) ==
    /\ pausedAll
    /\ held = {}
    /\ limit' = [limit EXCEPT ![l] = IF n > 1 THEN n ELSE 1]
    /\ UNCHANGED <<issued, waiting, held, pausedAll, paused, closing, stopping,
                   reclaimed, closed, answers>>

(* close: the supervisor stops; nobody is kept waiting. *)
CloseQueue ==
    /\ stopping' = TRUE
    /\ waiting' = {}
    /\ answers' = answers \cup Replies(waiting, "busy")
    /\ UNCHANGED <<issued, held, limit, pausedAll, paused, closing, reclaimed,
                   closed>>

(* The memory of reclaimed tickets after H is added: the oldest go first. *)
Remembered(H) ==
    {R \in SUBSET (reclaimed \cup H) :
        /\ Cardinality(R) <= MAX_RECLAIMED
        /\ R # reclaimed \cup H => Cardinality(R) = MAX_RECLAIMED
        /\ H \subseteq R \/ R \subseteq H}

(* Slip: only the holders' deadlines are looked at. *)
DeadlinesOfHolders(W, H) ==
    /\ ~stopping
    /\ H # {}
    /\ reclaimed' \in Remembered(H)
    /\ GrantThenSend(waiting, held \ H, limit, PausedStories(pausedAll, paused), {})
    /\ UNCHANGED <<issued, limit, pausedAll, paused, closing, stopping, closed>>

(* One pass of the deadline thread (_deadlines): the waiters W are past     *)
(* their deadline and answered busy, the holders H are past max_hold and    *)
(* taken back; only a slot taken back is passed on.                         *)
Deadlines(W, H) ==
    /\ ~stopping
    /\ W \cup H # {}
    /\ reclaimed' \in Remembered(H)
    /\ \/ /\ H # {}
          /\ GrantThenSend(waiting \ W, held \ H, limit,
                           PausedStories(pausedAll, paused), Replies(W, "busy"))
       \/ /\ H = {}
          /\ waiting' = waiting \ W
          /\ answers' = answers \cup Replies(W, "busy")
          /\ UNCHANGED held
    /\ UNCHANGED <<issued, limit, pausedAll, paused, closing, stopping, closed>>

(* _send: one answer is handed to the bus, no lock held. *)
DeliverAnswer(m) ==
    /\ answers' = answers \ {m}
    /\ UNCHANGED <<issued, waiting, held, limit, pausedAll, paused, closing,
                   stopping, reclaimed, closed>>

----------------------------------------------------------------------------
(* The callers: workers on their connections (attach), the deadline thread, *)
(* and the supervisor's operations.                                         *)
WorkerCalls ==
    \E c \in Conns :
        \/ \E l \in Lanes, a \in Accounts \cup {NoAccount} :
              Acquire(c, l, a, issued + 1)
        \/ \E t \in 1..issued : Release(c, t)
        \/ \E r \in 1..issued : Cancel(c, r)
        \/ CloseConnection(c)

OperatorCalls ==
    \/ \E s \in Stories : Pause(s) \/ Resume(s) \/ CloseStory(s)
    \/ \E S \in SUBSET Stories : NarrowPause(S)
    \/ PauseAll
    \/ ResumeAll
    \/ \E l \in Lanes, n \in Sizes : Resize(l, n)
    \/ CloseQueue

DeadlinePass == \E W \in SUBSET waiting, H \in SUBSET held : Deadlines(W, H)

Sending == \E m \in answers : DeliverAnswer(m)

QueueNext == WorkerCalls \/ OperatorCalls \/ DeadlinePass \/ Sending

QueueSpec == QueueInit /\ [][QueueNext]_queueVars

----------------------------------------------------------------------------
(* Every variable has the type its code counterpart has. *)
TypeOK ==
    /\ issued \in 0..MaxTickets
    /\ waiting \subseteq Entry
    /\ held \subseteq Entry
    /\ limit \in [Lanes -> Nat]
    /\ pausedAll \in BOOLEAN
    /\ paused \subseteq Stories
    /\ closing \subseteq Stories
    /\ stopping \in BOOLEAN
    /\ reclaimed \subseteq Entry
    /\ closed \subseteq Conns
    /\ answers \subseteq Answer

(* The lanes bound the model calls: whatever is paused, resized, reclaimed  *)
(* or lost, a lane never has more holders than its size.                    *)
Capacity == \A l \in Lanes : Cardinality(InLane(held, l)) <= limit[l]

(* One turn per player: an account is at most once in the narration lane,   *)
(* waiting or holding, in every story together (other_window).              *)
OneTurnPerAccount ==
    \A e, f \in InLane(waiting \cup held, NARRATION) :
        e.account = f.account /\ e.account # NoAccount => e = f

(* No lost wakeup: while a lane has a free slot, nobody who may be admitted *)
(* waits in it.  Pausing, closing a story, a resize and an expired wait     *)
(* make no grants of their own and must not need to.                        *)
WorkConserving ==
    \A e \in waiting :
        Eligible(e, held, PausedStories(pausedAll, paused)) =>
            Cardinality(InLane(held, e.lane)) >= limit[e.lane]

(* Through every pause and resume, the turns of one story are admitted in   *)
(* the order they arrived: no turn is in while an earlier one waits.        *)
ArrivalOrder ==
    \A h \in InLane(held, NARRATION), w \in InLane(waiting, NARRATION) :
        Story(h) = Story(w) => h.ticket < w.ticket

(* A lost connection leaves nothing behind: no slot, no place, no memory. *)
ClosedLeaveNothing ==
    \A e \in waiting \cup held \cup reclaimed : e.owner \notin closed

(* A call has one answer: while it waits it has none, and no two answers to *)
(* it are on their way; a ticket is in one place only.                      *)
AnsweredOnce ==
    /\ \A m, n \in answers : m.entry.ticket = n.entry.ticket => m = n
    /\ \A m \in answers, w \in waiting : m.entry.ticket # w.ticket
    /\ \A e, f \in waiting \cup held \cup reclaimed : e.ticket = f.ticket => e = f
    /\ waiting \cap held = {} /\ held \cap reclaimed = {}

(* Nobody leaves the queue unheard: a waiter that goes is answered, unless  *)
(* its connection is gone (a worker's thread waits on that answer).         *)
NoSilentDrop ==
    [][\A w \in waiting \ waiting' :
           \/ w.owner \in closed'
           \/ \E m \in answers' : m.entry = w]_queueVars

HeldBy(s) == {e \in held : Story(e) = s}

IsPaused(s) == s \in PausedStories(pausedAll, paused)

(* A drain is final: pause, wait_until_idle and close_story are three calls *)
(* with the lock released between them, sound only because a paused story   *)
(* that holds nothing holds nothing until it is resumed.                    *)
DrainIsFinal ==
    [][\A s \in Stories :
           IsPaused(s) /\ HeldBy(s) = {} /\ IsPaused(s)' => HeldBy(s)' = {}]_queueVars

----------------------------------------------------------------------------
(* The deadline thread runs while the queue is open, and every ticket's     *)
(* deadline comes: a wait has a timeout of at most MAX_WAIT_SECONDS, a hold *)
(* is taken back after max_hold_seconds.                                    *)
DeadlineOf(t) ==
    \E W \in SUBSET waiting, H \in SUBSET held :
        /\ \E e \in W \cup H : e.ticket = t
        /\ Deadlines(W, H)

QueueFairness == \A t \in 1..MaxTickets : WF_queueVars(DeadlineOf(t))

FairQueueSpec == QueueSpec /\ QueueFairness

(* Every waiter leaves the queue: admitted, refused, withdrawn or timed out. *)
EveryWaitEnds ==
    \A t \in 1..MaxTickets :
        (\E e \in waiting : e.ticket = t) ~> ~(\E e \in waiting : e.ticket = t)

(* A drain ends: a story that stays paused becomes idle, or the queue stops. *)
DrainEnds ==
    \A s \in Stories :
        IsPaused(s) ~> (~IsPaused(s) \/ HeldBy(s) = {} \/ stopping)
=============================================================================
