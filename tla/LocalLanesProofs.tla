---------------------------- MODULE LocalLanesProofs ----------------------------
(***************************************************************************)
(* Theorems about a worker's own narration lane (LocalLanes.tla), for any   *)
(* finite set of threads, any callers and any number of slots: it is the    *)
(* lane Lane.tla describes, nobody in line is forgotten, and a turn's       *)
(* callers never add to the calls the slots allow.                          *)
(*                                                                          *)
(* The invariant relates what gate.py keeps twice: the deque holds exactly  *)
(* the threads that wait, each once (LineTold); the counter is the number   *)
(* of threads inside (CountTold); a call under way has its turn's share     *)
(* (ShareTold).                                                             *)
(***************************************************************************)
EXTENDS LocalLanes, FiniteSetTheorems, TLAPS

USE LocalConstants DEF LocalConstants

LocalTypeOK ==
    /\ waiters \in Seq(Asking) /\ taken \in Nat /\ notified \subseteq Asking
    /\ at \in [Asking -> {"out", "waits", "in"}]
    /\ late \subseteq Turns
    /\ share \in [Turns -> Callers \cup {NoCaller}]
    /\ call \in [Turns -> [Callers -> {"idle", "asks", "calls"}]]

LineTold ==
    /\ \A i \in DOMAIN waiters : at[waiters[i]] = "waits"
    /\ \A i, j \in DOMAIN waiters : waiters[i] = waiters[j] => i = j
    /\ \A t \in Asking : at[t] = "waits" => \E i \in DOMAIN waiters : waiters[i] = t

CountTold ==
    /\ IsFiniteSet(Inside) /\ taken = Cardinality(Inside) /\ taken <= Slots

ShareTold ==
    \A t \in Turns, c \in Callers :
        /\ call[t][c] = "calls" => share[t] = c
        /\ call[t][c] # "idle" => at[t] = "in"

LocalInv ==
    /\ LocalTypeOK /\ LineTold /\ CountTold /\ NobodyForgotten /\ ShareTold

----------------------------------------------------------------------------
(* A line without its i-th is shorter by one and keeps the others in order. *)
LEMMA DroppedFacts ==
    ASSUME waiters \in Seq(Asking), NEW i \in DOMAIN waiters
    PROVE  /\ Dropped(i) \in Seq(Asking)
           /\ DOMAIN Dropped(i) = 1..(Len(waiters) - 1)
           /\ \A j \in DOMAIN Dropped(i) :
                  Dropped(i)[j] = waiters[IF j < i THEN j ELSE j + 1]
           /\ \A k \in DOMAIN waiters : k # i =>
                  \E j \in DOMAIN Dropped(i) : Dropped(i)[j] = waiters[k]
<1>1. Len(waiters) \in Nat /\ DOMAIN waiters = 1..Len(waiters)
  OBVIOUS
<1>2. Len(waiters) - 1 \in Nat
  BY <1>1
<1>3. \A j \in 1..(Len(waiters) - 1) : waiters[IF j < i THEN j ELSE j + 1] \in Asking
  BY <1>1
<1>4. Dropped(i) \in Seq(Asking)
  BY <1>2, <1>3 DEF Dropped
<1>5. /\ DOMAIN Dropped(i) = 1..(Len(waiters) - 1)
      /\ \A j \in DOMAIN Dropped(i) : Dropped(i)[j] = waiters[IF j < i THEN j ELSE j + 1]
  BY DEF Dropped
<1>6. ASSUME NEW k \in DOMAIN waiters, k # i
      PROVE  \E j \in DOMAIN Dropped(i) : Dropped(i)[j] = waiters[k]
  <2>1. CASE k < i
    BY <1>1, <1>5, <1>6, <2>1
  <2>2. CASE k > i
    <3>1. k - 1 \in DOMAIN Dropped(i) /\ ~(k - 1 < i) /\ (k - 1) + 1 = k
      BY <1>1, <1>5, <2>2
    <3> QED BY <1>5, <3>1
  <2> QED BY <1>1, <1>6, <2>1, <2>2
<1> QED BY <1>4, <1>5, <1>6

(* Whoever enters adds one, whoever leaves takes one. *)
LEMMA Enters ==
    ASSUME LocalTypeOK, CountTold, NEW t \in Asking, at[t] # "in", taken < Slots,
           taken' = taken + 1, at' = [at EXCEPT ![t] = "in"]
    PROVE  CountTold' /\ Inside' = Inside \cup {t}
<1>1. Inside' = Inside \cup {t} /\ t \notin Inside
  BY DEF LocalTypeOK, Inside
<1>2. IsFiniteSet(Inside \cup {t}) /\ Cardinality(Inside \cup {t}) = Cardinality(Inside) + 1
  BY <1>1, FS_AddElement DEF CountTold
<1> QED BY <1>1, <1>2 DEF CountTold, LocalTypeOK

LEMMA Exits ==
    ASSUME LocalTypeOK, CountTold, NEW t \in Asking, at[t] = "in",
           taken' = taken - 1, at' = [at EXCEPT ![t] = "out"]
    PROVE  CountTold' /\ Inside' = Inside \ {t} /\ taken - 1 \in Nat
<1>1. Inside' = Inside \ {t} /\ t \in Inside
  BY DEF LocalTypeOK, Inside
<1>2. /\ IsFiniteSet(Inside \ {t})
      /\ Cardinality(Inside \ {t}) = Cardinality(Inside) - 1
      /\ Cardinality(Inside \ {t}) \in Nat
  BY <1>1, FS_RemoveElement, FS_CardinalityType DEF CountTold
<1> QED BY <1>1, <1>2 DEF CountTold, LocalTypeOK

(* Only who is inside has calls, so the others' moves touch no share. *)
LEMMA SharesKept ==
    ASSUME LocalTypeOK, ShareTold, UNCHANGED <<share, call>>, NEW t \in Asking,
           NEW there, at' = [at EXCEPT ![t] = there], at[t] # "in"
    PROVE  ShareTold'
BY DEF LocalTypeOK, ShareTold, Asking

----------------------------------------------------------------------------
LEMMA InitInv == LocalInit => LocalInv
<1> SUFFICES ASSUME LocalInit PROVE LocalInv
  OBVIOUS
<1>1. Inside = {}
  BY DEF LocalInit, Inside
<1>2. CountTold
  BY <1>1, FS_EmptySet DEF CountTold, LocalInit
<1> QED BY <1>2 DEF LocalInit, LocalInv, LocalTypeOK, LineTold, NobodyForgotten, ShareTold

(* Both modules count alike. *)
LEMMA SameCount == L!Free <=> Cardinality(Inside) < Slots
BY DEF L!Free, Cardinality, L!Cardinality, IsFiniteSet, L!IsFiniteSet

(* Every step keeps the invariant, and is a step of the abstract lane. *)
Kept == LocalInv' /\ [L!LaneNext]_(L!laneVars)

LEMMA AcquireKept ==
    ASSUME LocalInv, NEW t \in Asking, Acquire(t)
    PROVE  Kept
<1> USE DEF LocalInv, Acquire
<1>1. CountTold' /\ Inside' = Inside \cup {t}
  BY Enters
<1>2. ShareTold'
  BY SharesKept DEF turnVars
<1>3. LocalTypeOK' /\ LineTold' /\ NobodyForgotten'
  BY DEF LocalTypeOK, LineTold, NobodyForgotten, turnVars
<1>4. L!Enter(t)
  BY <1>1, SameCount DEF L!Enter, L!Waiting, Inside, CountTold
<1> QED BY <1>1, <1>2, <1>3, <1>4 DEF Kept, L!LaneNext

LEMMA JoinsKept ==
    ASSUME LocalInv, NEW t \in Asking, Joins(t)
    PROVE  Kept
<1> USE DEF LocalInv, Joins
<1>1. /\ waiters' \in Seq(Asking) /\ DOMAIN waiters' = 1..(Len(waiters) + 1)
      /\ DOMAIN waiters = 1..Len(waiters) /\ Len(waiters) \in Nat
      /\ \A i \in DOMAIN waiters : waiters'[i] = waiters[i]
      /\ waiters'[Len(waiters) + 1] = t
  BY DEF LocalTypeOK
<1>2. LocalTypeOK'
  BY <1>1 DEF LocalTypeOK, turnVars, Asleep
<1>3. LineTold'
  <2>1. \A i \in DOMAIN waiters' : i # Len(waiters) + 1 => i \in DOMAIN waiters
    BY <1>1
  <2>2. \A i \in DOMAIN waiters : waiters[i] # t
    BY DEF LineTold
  <2>3. \A i \in DOMAIN waiters' : at'[waiters'[i]] = "waits"
    BY <1>1, <2>1, <2>2 DEF LineTold, LocalTypeOK
  <2>4. \A i, j \in DOMAIN waiters' : waiters'[i] = waiters'[j] => i = j
    BY <1>1, <2>1, <2>2 DEF LineTold
  <2>5. \A u \in Asking : at'[u] = "waits" => \E i \in DOMAIN waiters' : waiters'[i] = u
    BY <1>1 DEF LineTold, LocalTypeOK
  <2> QED BY <2>3, <2>4, <2>5 DEF LineTold
<1>4. Inside' = Inside
  BY DEF Inside, LocalTypeOK
<1>5. NobodyForgotten'
  <2>1. CASE waiters = <<>>
    BY <2>1 DEF NobodyForgotten, LocalTypeOK
  <2>2. CASE waiters # <<>>
    <3>1. 1 \in DOMAIN waiters
      BY <1>1, <2>2
    <3>2. waiters'[1] = waiters[1] /\ waiters[1] \in Asking
      BY <1>1, <3>1 DEF LocalTypeOK
    <3> QED BY <3>1, <3>2 DEF NobodyForgotten, LineTold, Asleep
  <2> QED BY <2>1, <2>2
<1>6. ShareTold'
  BY SharesKept DEF turnVars
<1>7. CountTold'
  BY <1>4 DEF CountTold
<1>8. L!Queue(t)
  BY <1>4, SameCount DEF L!Queue, L!Waiting, Inside, LineTold, CountTold
<1> QED BY <1>2, <1>3, <1>5, <1>6, <1>7, <1>8 DEF Kept, L!LaneNext

(* What the line is once its i-th is gone and is no longer waiting. *)
LEMMA LineDropped ==
    ASSUME LocalInv, NEW i \in DOMAIN waiters, NEW there \in {"in", "out"},
           waiters' = Dropped(i), at' = [at EXCEPT ![waiters[i]] = there]
    PROVE  /\ LineTold' /\ waiters' \in Seq(Asking)
           /\ waiters' # <<>> => waiters'[1] \in Asleep(waiters[i])
           /\ waiters[i] \in Asking
<1> DEFINE t == waiters[i]
<1>1. t \in Asking /\ Len(waiters) \in Nat /\ DOMAIN waiters = 1..Len(waiters)
  BY DEF LocalInv, LocalTypeOK
<1>2. /\ waiters' \in Seq(Asking)
      /\ DOMAIN waiters' = 1..(Len(waiters) - 1)
      /\ \A j \in DOMAIN waiters' : waiters'[j] = waiters[IF j < i THEN j ELSE j + 1]
      /\ \A k \in DOMAIN waiters : k # i => \E j \in DOMAIN waiters' : waiters'[j] = waiters[k]
  BY DroppedFacts DEF LocalInv, LocalTypeOK
<1> DEFINE old(j) == IF j < i THEN j ELSE j + 1
<1>3. \A j \in DOMAIN waiters' : /\ old(j) \in DOMAIN waiters /\ old(j) # i
                                 /\ waiters'[j] = waiters[old(j)]
  BY <1>1, <1>2
<1>4. \A j \in DOMAIN waiters' : waiters'[j] # t /\ waiters'[j] \in Asking /\ at[waiters'[j]] = "waits"
  <2> HIDE DEF old
  <2> QED BY <1>1, <1>3 DEF LocalInv, LineTold, LocalTypeOK
<1>5. \A j \in DOMAIN waiters' : at'[waiters'[j]] = "waits"
  BY <1>4 DEF LocalInv, LocalTypeOK
<1>6. \A j, k \in DOMAIN waiters' : waiters'[j] = waiters'[k] => j = k
  <2>1. \A j, k \in DOMAIN waiters' : old(j) = old(k) => j = k
    BY <1>1, <1>2
  <2> HIDE DEF old
  <2> QED BY <1>3, <2>1 DEF LocalInv, LineTold
<1>7. \A u \in Asking : at'[u] = "waits" => \E j \in DOMAIN waiters' : waiters'[j] = u
  <2> SUFFICES ASSUME NEW u \in Asking, at'[u] = "waits"
               PROVE  \E j \in DOMAIN waiters' : waiters'[j] = u
    OBVIOUS
  <2>1. u # t /\ at[u] = "waits"
    BY <1>1 DEF LocalInv, LocalTypeOK
  <2>2. PICK k \in DOMAIN waiters : waiters[k] = u
    BY <2>1 DEF LocalInv, LineTold
  <2>3. k # i
    BY <2>1, <2>2
  <2> QED BY <1>2, <2>2, <2>3
<1>8. waiters' # <<>> => 1 \in DOMAIN waiters'
  BY <1>2
<1> QED BY <1>1, <1>2, <1>4, <1>5, <1>6, <1>7, <1>8 DEF LineTold, Asleep

LEMMA TakesKept ==
    ASSUME LocalInv, NEW t \in Asking, TakesSlot(t)
    PROVE  Kept
<1> USE DEF LocalInv, TakesSlot, First
<1>1. 1 \in DOMAIN waiters /\ waiters[1] = t
  BY DEF LocalTypeOK
<1>2. /\ LineTold' /\ waiters' \in Seq(Asking)
      /\ waiters' # <<>> => waiters'[1] \in Asleep(t)
  BY <1>1, LineDropped
<1>3. at[t] = "waits"
  BY <1>1 DEF LineTold
<1>4. CountTold' /\ Inside' = Inside \cup {t}
  BY <1>3, Enters
<1>5. ShareTold'
  BY <1>3, SharesKept DEF turnVars
<1>6. LocalTypeOK' /\ NobodyForgotten'
  BY <1>2 DEF LocalTypeOK, NobodyForgotten, turnVars, Asleep
<1>7. L!Serve
  BY <1>1, <1>4, SameCount DEF L!Serve, L!Without, Dropped, CountTold
<1> QED BY <1>2, <1>4, <1>5, <1>6, <1>7 DEF Kept, L!LaneNext

LEMMA LeavesKept ==
    ASSUME LocalInv, NEW t \in Asking, Leaves(t)
    PROVE  Kept
<1> USE DEF LocalInv
<1>1. PICK i \in DOMAIN waiters :
         /\ waiters[i] = t
         /\ waiters' = Dropped(i) /\ at' = [at EXCEPT ![t] = "out"]
         /\ notified' = Asleep(t)
         /\ UNCHANGED <<taken, turnVars>>
  BY DEF Leaves
<1>2. /\ LineTold' /\ waiters' \in Seq(Asking)
      /\ waiters' # <<>> => waiters'[1] \in Asleep(t)
  BY <1>1, LineDropped
<1>3. at[t] = "waits"
  BY <1>1 DEF LineTold
<1>4. Inside' = Inside
  BY <1>1, <1>3 DEF Inside, LocalTypeOK
<1>5. CountTold'
  BY <1>1, <1>4 DEF CountTold
<1>6. ShareTold'
  BY <1>1, <1>3, SharesKept DEF turnVars
<1>7. LocalTypeOK' /\ NobodyForgotten'
  BY <1>1, <1>2 DEF LocalTypeOK, NobodyForgotten, turnVars, Asleep
<1>8. L!Leave(i)
  BY <1>1, <1>4 DEF L!Leave, L!Without, Dropped
<1> QED BY <1>1, <1>2, <1>5, <1>6, <1>7, <1>8 DEF Kept, L!LaneNext

LEMMA ReleaseKept ==
    ASSUME LocalInv, NEW t \in Asking, ReleaseSlot(t)
    PROVE  Kept
<1> USE DEF LocalInv, ReleaseSlot
<1>1. CountTold' /\ Inside' = Inside \ {t} /\ taken - 1 \in Nat
  BY Exits
<1>2. LocalTypeOK'
  BY <1>1 DEF LocalTypeOK, Asleep
<1>3. LineTold'
  BY DEF LineTold, LocalTypeOK
<1>4. NobodyForgotten'
  <2> SUFFICES ASSUME waiters # <<>> PROVE waiters[1] \in Asleep(t)
    BY DEF NobodyForgotten
  <2>1. 1 \in DOMAIN waiters /\ waiters[1] \in Asking
    BY DEF LocalTypeOK
  <2> QED BY <2>1 DEF LineTold, Asleep
<1>5. ShareTold'
  BY DEF ShareTold, Quiet, LocalTypeOK, Asking
<1>6. L!Exit(t)
  BY <1>1 DEF L!Exit, Inside
<1> QED BY <1>1, <1>2, <1>3, <1>4, <1>5, <1>6 DEF Kept, L!LaneNext

(* A turn's own steps, and a waiter that looks in vain. *)
LEMMA StayKept ==
    ASSUME LocalInv, UNCHANGED <<waiters, taken, at>>, LocalTypeOK', NobodyForgotten', ShareTold'
    PROVE  Kept
<1>1. Inside' = Inside
  BY DEF Inside
<1> QED BY <1>1 DEF Kept, LocalInv, LineTold, CountTold, L!laneVars

LEMMA AskKept ==
    ASSUME LocalInv, NEW t \in Asking, Asks(t)
    PROVE  Kept
<1>1. CASE Acquire(t)
  BY <1>1, AcquireKept
<1>2. CASE Joins(t)
  BY <1>2, JoinsKept
<1>3. CASE WakesUp(t)
  <2>1. CASE TakesSlot(t)
    BY <2>1, TakesKept
  <2>2. CASE ~(First(t) /\ taken < Slots) /\ notified' = notified \ {t} /\ UNCHANGED <<waiters, taken, at, turnVars>>
    <3>1. LocalTypeOK' /\ NobodyForgotten' /\ ShareTold'
      BY <2>2 DEF LocalInv, LocalTypeOK, NobodyForgotten, ShareTold, First, turnVars
    <3> QED BY <2>2, <3>1, StayKept
  <2> QED BY <1>3, <2>1, <2>2 DEF WakesUp
<1>4. CASE TimesOut(t)
  BY <1>4, TakesKept, LeavesKept DEF TimesOut
<1>5. CASE Interrupted(t)
  BY <1>5, LeavesKept DEF Interrupted
<1>6. CASE ReleaseSlot(t)
  BY <1>6, ReleaseKept
<1> QED BY <1>1, <1>2, <1>3, <1>4, <1>5, <1>6 DEF Asks

LEMMA PlayKept ==
    ASSUME LocalInv, NEW t \in Turns, Plays(t)
    PROVE  Kept
<1> USE DEF LocalInv
<1>1. CASE Deadline(t)
  <2>1. LocalTypeOK' /\ NobodyForgotten' /\ ShareTold'
    BY <1>1 DEF Deadline, LocalTypeOK, NobodyForgotten, ShareTold, lineVars
  <2> QED BY <1>1, <2>1, StayKept DEF Deadline, lineVars
<1>2. ASSUME NEW c \in Callers,
             CallAsks(t, c) \/ CallBegins(t, c) \/ CallGivesUp(t, c) \/ CallEnds(t, c)
      PROVE  Kept
  <2>1. UNCHANGED lineVars
    BY <1>2 DEF CallAsks, CallBegins, CallGivesUp, CallEnds
  <2>2. NobodyForgotten'
    BY <2>1 DEF NobodyForgotten, lineVars
  <2>3. LocalTypeOK' /\ ShareTold'
    <3>1. CASE CallAsks(t, c)
      BY <3>1 DEF CallAsks, ShareTold, LocalTypeOK, lineVars
    <3>2. CASE CallBegins(t, c)
      BY <3>2 DEF CallBegins, ShareTold, LocalTypeOK, lineVars
    <3>3. CASE CallGivesUp(t, c)
      BY <3>3 DEF CallGivesUp, ShareTold, LocalTypeOK, lineVars
    <3>4. CASE CallEnds(t, c)
      BY <3>4 DEF CallEnds, ShareTold, LocalTypeOK, lineVars
    <3> QED BY <1>2, <3>1, <3>2, <3>3, <3>4
  <2> QED BY <2>1, <2>2, <2>3, StayKept DEF lineVars
<1> QED BY <1>1, <1>2 DEF Plays

LEMMA StepKept == LocalInv /\ [LocalNext]_localVars => Kept
<1> SUFFICES ASSUME LocalInv, [LocalNext]_localVars PROVE Kept
  OBVIOUS
<1>1. CASE UNCHANGED localVars
  <2>1. LocalTypeOK' /\ NobodyForgotten' /\ ShareTold'
    BY <1>1 DEF localVars, LocalInv, LocalTypeOK, NobodyForgotten, ShareTold
  <2> QED BY <1>1, <2>1, StayKept DEF localVars
<1> QED BY <1>1, AskKept, PlayKept DEF LocalNext

----------------------------------------------------------------------------
(* A call under way is of a single thread inside or of the caller that has  *)
(* its turn's share: each names another thread inside.                      *)
LEMMA CallsBounded == LocalInv => OneCallPerSlot
<1> SUFFICES ASSUME LocalInv PROVE Cardinality(Calling) <= Slots
  BY DEF OneCallPerSlot
<1> USE DEF LocalInv
<1> DEFINE f == [x \in Calling |-> IF x \in Singles /\ at[x] = "in" THEN x ELSE x[1]]
<1>1. \A x \in Calling :
         \/ x \in Singles /\ at[x] = "in" /\ f[x] = x
         \/ \E t \in Turns, c \in Callers :
               /\ x = <<t, c>> /\ f[x] = t /\ at[t] = "in" /\ c = share[t]
  BY DEF Calling, ShareTold, LocalTypeOK
<1>2. \A x \in Calling : f[x] \in Inside
  BY <1>1 DEF Inside, Asking
<1>3. \A x, y \in Calling : f[x] = f[y] => x = y
  BY <1>1
<1>4. f \in Injection(Calling, Inside)
  BY <1>2, <1>3 DEF Injection, IsInjective
<1>5. Cardinality(Calling) <= Cardinality(Inside) /\ IsFiniteSet(Calling)
  BY <1>4, FS_Injection DEF CountTold
<1> QED BY <1>5, FS_CardinalityType DEF CountTold, LocalTypeOK

(* The deque, the counter and the shares agree in every behaviour (gate.py, *)
(* FifoSemaphore, _Held).                                                   *)
THEOREM LocalInvariant == LocalSpec => []LocalInv
<1>1. LocalInv /\ [LocalNext]_localVars => LocalInv'
  BY StepKept DEF Kept
<1> QED BY <1>1, InitInv, PTL DEF LocalSpec

(* A lane of FifoSemaphore is a lane as gate.py describes it: no more       *)
(* inside than slots, first come first served, whoever leaves.              *)
THEOREM LaneImplemented == LocalSpec => LaneKept
<1>1. LocalInit => L!LaneInit
  BY DEF LocalInit, L!LaneInit, Inside
<1>2. LocalInv /\ [LocalNext]_localVars => [L!LaneNext]_(L!laneVars)
  BY StepKept DEF Kept
<1> QED BY <1>1, <1>2, LocalInvariant, PTL DEF LocalSpec, LaneKept, L!LaneSpec

(* The lane serves: it is a lane, the first in line always learns of a free *)
(* slot, and a turn's calls are never more than its slot (gate.py,          *)
(* FifoSemaphore, inference_slot).                                          *)
THEOREM LaneServesHolds == LocalSpec => LaneServes
<1>1. LocalInv => NobodyForgotten /\ OneCallPerSlot
  BY CallsBounded DEF LocalInv
<1> QED BY <1>1, LocalInvariant, LaneImplemented, PTL DEF LaneServes
=============================================================================
