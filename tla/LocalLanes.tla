------------------------------- MODULE LocalLanes -------------------------------
(***************************************************************************)
(* The narration lane of a hosted worker that runs without a supervisor,    *)
(* engine/llm/gate.py: FifoSemaphore, a condition variable over a deque of  *)
(* waiters, and the turns admitted through it, whose calls to the model     *)
(* server share the turn's one slot (admit_turn, inference_slot).           *)
(*                                                                          *)
(* An action is what a thread does under one hold of the condition's lock:  *)
(* until it waits, or from one wake-up to the next.  A definition commented *)
(* `Slip:' is no part of the model: it is a likely mistake in the one after *)
(* it, kept to show which property would notice.                            *)
(***************************************************************************)
EXTENDS Naturals, Sequences, FiniteSets

CONSTANTS
    Turns,      \* threads that play a turn
    Singles,    \* threads that make one narration call outside a turn
    Callers,    \* the threads that call in a turn: its own, its planners'
    NoCaller,     \* nobody has a turn's slot in hand
    Slots       \* llm.lanes.narration

Asking == Turns \cup Singles

ASSUME LocalConstants ==
    /\ IsFiniteSet(Asking) /\ Turns \cap Singles = {} /\ NoCaller \notin Callers
    /\ Slots \in Nat \ {0}

VARIABLES
    waiters,   \* FifoSemaphore._waiters
    taken,     \* FifoSemaphore._held
    notified,  \* the waiters that were notified and have not looked yet
    at,        \* where each thread is: out, waits or in
    late,      \* the turns past their deadline
    share,     \* _Held.share: the caller that has the turn's slot in hand
    call       \* each caller of each turn: idle, asks or calls

lineVars == <<waiters, taken, notified, at>>
turnVars == <<late, share, call>>
localVars == <<waiters, taken, notified, at, late, share, call>>

LocalInit ==
    /\ waiters = <<>> /\ taken = 0 /\ notified = {}
    /\ at = [t \in Asking |-> "out"]
    /\ late = {}
    /\ share = [t \in Turns |-> NoCaller]
    /\ call = [t \in Turns |-> [c \in Callers |-> "idle"]]

(* notify_all, by a thread that does not wait itself. *)
Asleep(t) == {u \in Asking : at[u] = "waits"} \ {t}

Dropped(i) == [j \in 1..(Len(waiters) - 1) |-> waiters[IF j < i THEN j ELSE j + 1]]

First(t) == waiters # <<>> /\ waiters[1] = t

----------------------------------------------------------------------------
(* Slip: a newcomer takes a freed slot ahead of those who wait. *)
AcquireBarging(t) ==
    /\ at[t] = "out" /\ taken < Slots
    /\ taken' = taken + 1 /\ at' = [at EXCEPT ![t] = "in"]
    /\ UNCHANGED <<waiters, notified, turnVars>>

(* acquire: a slot is free and nobody waits ... *)
Acquire(t) ==
    /\ at[t] = "out" /\ waiters = <<>> /\ taken < Slots
    /\ taken' = taken + 1 /\ at' = [at EXCEPT ![t] = "in"]
    /\ UNCHANGED <<waiters, notified, turnVars>>

(* ... or it joins the line, and wakes the others to no avail. *)
Joins(t) ==
    /\ at[t] = "out" /\ ~(waiters = <<>> /\ taken < Slots)
    /\ waiters' = Append(waiters, t) /\ at' = [at EXCEPT ![t] = "waits"]
    /\ notified' = Asleep(t)
    /\ UNCHANGED <<taken, turnVars>>

(* The first takes a free slot, and a second slot may serve the next too. *)
TakesSlot(t) ==
    /\ First(t) /\ taken < Slots
    /\ waiters' = Dropped(1) /\ taken' = taken + 1
    /\ at' = [at EXCEPT ![t] = "in"] /\ notified' = Asleep(t)
    /\ UNCHANGED turnVars

(* Notified, a waiter looks: it is its turn, or it waits on. *)
WakesUp(t) ==
    /\ t \in notified
    /\ \/ TakesSlot(t)
       \/ /\ ~(First(t) /\ taken < Slots)
          /\ notified' = notified \ {t}
          /\ UNCHANGED <<waiters, taken, at, turnVars>>

(* It leaves the line, so that the one behind moves up ... *)
Leaves(t) ==
    \E i \in DOMAIN waiters :
        /\ waiters[i] = t
        /\ waiters' = Dropped(i) /\ at' = [at EXCEPT ![t] = "out"]
        /\ notified' = Asleep(t)
        /\ UNCHANGED <<taken, turnVars>>

(* ... when its time is out and it may still not go in; an exception while  *)
(* it waits does not ask.                                                   *)
TimesOut(t) ==
    /\ at[t] = "waits"
    /\ IF First(t) /\ taken < Slots THEN TakesSlot(t) ELSE Leaves(t)

Interrupted(t) == at[t] = "waits" /\ Leaves(t)

----------------------------------------------------------------------------
(* A call inside an admitted turn shares the turn's slot, one at a time, and *)
(* none starts once the turn is late.                                       *)
CallAsks(t, c) ==
    /\ at[t] = "in" /\ t \notin late /\ call[t][c] = "idle"
    /\ call' = [call EXCEPT ![t][c] = "asks"]
    /\ UNCHANGED <<lineVars, late, share>>

CallBegins(t, c) ==
    /\ call[t][c] = "asks" /\ share[t] = NoCaller
    /\ share' = [share EXCEPT ![t] = c]
    /\ call' = [call EXCEPT ![t][c] = "calls"]
    /\ UNCHANGED <<lineVars, late>>

CallGivesUp(t, c) ==
    /\ call[t][c] = "asks"
    /\ call' = [call EXCEPT ![t][c] = "idle"]
    /\ UNCHANGED <<lineVars, late, share>>

CallEnds(t, c) ==
    /\ call[t][c] = "calls"
    /\ share' = [share EXCEPT ![t] = NoCaller]
    /\ call' = [call EXCEPT ![t][c] = "idle"]
    /\ UNCHANGED <<lineVars, late>>

Deadline(t) ==
    /\ at[t] = "in" /\ t \notin late
    /\ late' = late \cup {t}
    /\ UNCHANGED <<lineVars, share, call>>

(* release, once the planners' pool is joined. *)
Quiet(t) == t \in Turns => \A c \in Callers : call[t][c] = "idle"

ReleaseSlot(t) ==
    /\ at[t] = "in" /\ Quiet(t)
    /\ taken' = taken - 1 /\ at' = [at EXCEPT ![t] = "out"]
    /\ notified' = Asleep(t) /\ late' = late \ {t}
    /\ UNCHANGED <<waiters, share, call>>

----------------------------------------------------------------------------
Asks(t) ==
    \/ Acquire(t) \/ Joins(t) \/ WakesUp(t) \/ TimesOut(t) \/ Interrupted(t) \/ ReleaseSlot(t)

Plays(t) ==
    \/ Deadline(t)
    \/ \E c \in Callers :
           CallAsks(t, c) \/ CallBegins(t, c) \/ CallGivesUp(t, c) \/ CallEnds(t, c)

LocalNext == (\E t \in Asking : Asks(t)) \/ (\E t \in Turns : Plays(t))

LocalSpec == LocalInit /\ [][LocalNext]_localVars

----------------------------------------------------------------------------
Inside == {t \in Asking : at[t] = "in"}

(* The lane is what gate.py says a lane is: no more inside than slots, first *)
(* come first served, whoever gives up or is interrupted on the way.        *)
L == INSTANCE Lane WITH Threads <- Asking, line <- waiters, inside <- Inside
LaneKept == L!LaneSpec

(* Nobody is forgotten: while a slot is free, the first in line has been    *)
(* told and has not looked since (FifoSemaphore: "nothing it did costs a    *)
(* slot").                                                                  *)
NobodyForgotten ==
    waiters # <<>> /\ taken < Slots => waiters[1] \in notified

(* The model server never has more narration calls at once than the lane    *)
(* has slots, although a turn calls from several threads ("SHARED, not      *)
(* multiplied").                                                            *)
Calling ==
    {s \in Singles : at[s] = "in"} \cup
    {p \in Turns \X Callers : call[p[1]][p[2]] = "calls"}
OneCallPerSlot == Cardinality(Calling) <= Slots

LaneServes == LaneKept /\ [](NobodyForgotten /\ OneCallPerSlot)
=============================================================================
