-------------------------- MODULE LaneQueueProofs --------------------------
(* What the lane queue guarantees for any number of stories, players,       *)
(* workers, lanes and tickets.                                              *)
EXTENDS LaneQueue, FiniteSetTheorems, TLAPS

(* The pure part.  Whatever the grants are, they are taken from the waiters *)
(* and every slot they fill was free. *)
LEMMA GrantsFromWaiters ==
    ASSUME NEW W, NEW H, NEW lim, NEW P, NEW G \in Grants(W, H, lim, P)
    PROVE  G \subseteq W
  BY DEF Grants

(* A new ticket is an entry. *)
LEMMA NewEntryType ==
    ASSUME TypeOK, issued < MaxTickets,
           NEW c \in Conns, NEW l \in Lanes,
           NEW a \in Accounts \cup {NoAccount}, NEW r \in Nat
    PROVE  NewEntry(c, l, a, r) \in Entry
<1>1. issued + 1 \in 1..MaxTickets
  BY QueueConstants DEF TypeOK
<1>2. QED
  BY <1>1 DEF NewEntry, Entry

(* Opening a lane leaves a table of lane sizes. *)
LEMMA OpenedType ==
    ASSUME TypeOK, NEW l \in Lanes
    PROVE  Opened(l) \in [Lanes -> Nat]
  BY QueueConstants DEF TypeOK, Opened

(* Answers to entries are answers. *)
LEMMA RepliesType ==
    ASSUME NEW S \in SUBSET Entry, NEW r \in Results
    PROVE  Replies(S, r) \subseteq Answer
  BY DEF Replies, Answer

(* The grants keep the types of the three variables they write. *)
LEMMA GrantThenSendType ==
    ASSUME TypeOK,
           NEW W \in SUBSET Entry, NEW H \in SUBSET Entry, NEW lim, NEW P,
           NEW sent \in SUBSET Answer,
           GrantThenSend(W, H, lim, P, sent)
    PROVE  /\ waiting' \subseteq Entry
           /\ held' \subseteq Entry
           /\ answers' \subseteq Answer
<1>1. PICK G \in Grants(W, H, lim, P) :
          /\ waiting' = W \ G
          /\ held' = H \cup G
          /\ answers' = answers \cup sent \cup Replies(G, "granted")
  BY DEF GrantThenSend
<1>2. G \subseteq Entry
  BY GrantsFromWaiters
<1>3. Replies(G, "granted") \subseteq Answer
  BY <1>2, RepliesType DEF Results
<1>4. QED
  BY <1>1, <1>2, <1>3 DEF TypeOK

(* The queue starts with well-formed variables. *)
THEOREM TypeInit == QueueInit => TypeOK
<1> SUFFICES ASSUME QueueInit PROVE TypeOK
  OBVIOUS
<1>1. issued \in 0..MaxTickets
  BY QueueConstants DEF QueueInit
<1>2. pausedAll \in BOOLEAN /\ stopping \in BOOLEAN
  BY DEF QueueInit
<1>3. /\ waiting \subseteq Entry /\ held \subseteq Entry
      /\ reclaimed \subseteq Entry /\ answers \subseteq Answer
      /\ paused \subseteq Stories /\ closing \subseteq Stories
      /\ closed \subseteq Conns
  BY DEF QueueInit
<1>4. limit \in [Lanes -> Nat]
  BY QueueConstants DEF QueueInit
<1>5. QED
  BY <1>1, <1>2, <1>3, <1>4 DEF TypeOK

(* An acquire keeps the types, refused, queued or granted. *)
LEMMA TypeAcquire ==
    ASSUME TypeOK, NEW c \in Conns, NEW l \in Lanes,
           NEW a \in Accounts \cup {NoAccount}, NEW r \in Nat,
           Acquire(c, l, a, r)
    PROVE  TypeOK'
<1> DEFINE e == NewEntry(c, l, a, r)
<1>1. e \in Entry
  BY NewEntryType DEF Acquire
<1>2. issued' \in 0..MaxTickets
  BY QueueConstants DEF Acquire, TypeOK
<1>3. /\ waiting' \subseteq Entry
      /\ held' \subseteq Entry
      /\ answers' \subseteq Answer
      /\ limit' \in [Lanes -> Nat]
  <2>1. CASE Refused(e)
    BY <2>1, <1>1, RepliesType DEF Acquire, TypeOK, Results
  <2>2. CASE ~Refused(e) /\ InOtherWindow(e)
    BY <2>2, <1>1, RepliesType DEF Acquire, TypeOK, Results
  <2>3. CASE ~Refused(e) /\ ~InOtherWindow(e)
    <3>1. /\ limit' = Opened(l)
          /\ GrantThenSend(waiting \cup {e}, held, Opened(l),
                           PausedStories(pausedAll, paused), {})
      BY <2>3 DEF Acquire
    <3>2. waiting \cup {e} \in SUBSET Entry /\ held \in SUBSET Entry
      BY <1>1 DEF TypeOK
    <3>3. QED
      BY <3>1, <3>2, GrantThenSendType, OpenedType
  <2>4. QED
    BY <2>1, <2>2, <2>3
<1>4. QED
  BY <1>2, <1>3 DEF Acquire, TypeOK

(* A release keeps them, of a held or of a reclaimed ticket. *)
LEMMA TypeRelease ==
    ASSUME TypeOK, NEW c, NEW t, Release(c, t)
    PROVE  TypeOK'
<1>1. CASE \E e \in held :
              /\ e.ticket = t /\ e.owner = c
              /\ GrantThenSend(waiting, held \ {e}, limit,
                               PausedStories(pausedAll, paused), {})
              /\ UNCHANGED reclaimed
  <2>1. PICK e \in held :
            GrantThenSend(waiting, held \ {e}, limit,
                          PausedStories(pausedAll, paused), {})
    BY <1>1
  <2>2. waiting \in SUBSET Entry /\ held \ {e} \in SUBSET Entry
    BY DEF TypeOK
  <2>3. QED
    BY <1>1, <2>1, <2>2, GrantThenSendType DEF Release, TypeOK
<1>2. CASE /\ reclaimed' = {e \in reclaimed : e.ticket # t}
           /\ UNCHANGED <<waiting, held, answers>>
  BY <1>2 DEF Release, TypeOK
<1>3. QED
  BY <1>1, <1>2 DEF Release

(* A withdrawn waiter is answered with an answer. *)
LEMMA TypeCancel ==
    ASSUME TypeOK, NEW c, NEW r, Cancel(c, r)
    PROVE  TypeOK'
<1>1. PICK e \in waiting :
          GrantThenSend(waiting \ {e}, held, limit,
                        PausedStories(pausedAll, paused),
                        Replies({e}, "cancelled"))
  BY DEF Cancel
<1>2. /\ waiting \ {e} \in SUBSET Entry /\ held \in SUBSET Entry
      /\ {e} \in SUBSET Entry
  BY DEF TypeOK
<1>3. Replies({e}, "cancelled") \in SUBSET Answer
  BY <1>2, RepliesType DEF Results
<1>4. QED
  BY <1>1, <1>2, <1>3, GrantThenSendType DEF Cancel, TypeOK

(* A lost connection keeps the types. *)
LEMMA TypeCloseConnection ==
    ASSUME TypeOK, NEW c \in Conns, CloseConnection(c)
    PROVE  TypeOK'
<1> DEFINE W == {e \in waiting : e.owner # c}
           H == {e \in held : e.owner # c}
<1>1. W \in SUBSET Entry /\ H \in SUBSET Entry
  BY DEF TypeOK
<1>2. GrantThenSend(W, H, limit, PausedStories(pausedAll, paused), {})
  BY DEF CloseConnection
<1>3. /\ waiting' \subseteq Entry /\ held' \subseteq Entry
      /\ answers' \subseteq Answer
  <2> HIDE DEF W, H
  <2> QED
    BY <1>1, <1>2, GrantThenSendType
<1>4. closed' \subseteq Conns /\ reclaimed' \subseteq Entry
  BY DEF CloseConnection, TypeOK
<1>5. QED
  BY <1>3, <1>4 DEF CloseConnection, TypeOK

(* The calls of drains, model applies and the shutdown keep them. *)
LEMMA TypeOperator ==
    ASSUME TypeOK, OperatorCalls
    PROVE  TypeOK'
<1>0. waiting \in SUBSET Entry /\ held \in SUBSET Entry /\ {} \in SUBSET Answer
  BY DEF TypeOK
<1>1. ASSUME NEW s \in Stories, Pause(s)
      PROVE  TypeOK'
  BY <1>1 DEF Pause, TypeOK
<1>2. ASSUME NEW s \in Stories, Resume(s)
      PROVE  TypeOK'
  BY <1>0, <1>2, GrantThenSendType DEF Resume, TypeOK
<1>3. ASSUME NEW s \in Stories, CloseStory(s)
      PROVE  TypeOK'
  <2>1. {e \in waiting : Story(e) = s} \in SUBSET Entry
    BY DEF TypeOK
  <2>2. Replies({e \in waiting : Story(e) = s}, "busy") \subseteq Answer
    BY <2>1, RepliesType DEF Results
  <2>3. QED
    BY <1>3, <2>2 DEF CloseStory, TypeOK
<1>4. ASSUME NEW S \in SUBSET Stories, NarrowPause(S)
      PROVE  TypeOK'
  BY <1>0, <1>4, GrantThenSendType DEF NarrowPause, TypeOK
<1>5. CASE PauseAll
  BY <1>5 DEF PauseAll, TypeOK
<1>6. CASE ResumeAll
  BY <1>0, <1>6, GrantThenSendType DEF ResumeAll, TypeOK
<1>7. ASSUME NEW l \in Lanes, NEW n \in Sizes, Resize(l, n)
      PROVE  TypeOK'
  <2>1. (IF n > 1 THEN n ELSE 1) \in Nat
    BY QueueConstants
  <2>2. limit' \in [Lanes -> Nat]
    BY <1>7, <2>1 DEF Resize, TypeOK
  <2>3. QED
    BY <1>7, <2>2 DEF Resize, TypeOK
<1>8. CASE CloseQueue
  <2>1. Replies(waiting, "busy") \subseteq Answer
    BY <1>0, RepliesType DEF Results
  <2>2. QED
    BY <1>8, <2>1 DEF CloseQueue, TypeOK
<1>9. QED
  BY <1>1, <1>2, <1>3, <1>4, <1>5, <1>6, <1>7, <1>8 DEF OperatorCalls

(* The deadline thread keeps them. *)
LEMMA TypeDeadlines ==
    ASSUME TypeOK, NEW W \in SUBSET waiting, NEW H \in SUBSET held,
           Deadlines(W, H)
    PROVE  TypeOK'
<1>1. /\ waiting \ W \in SUBSET Entry /\ held \ H \in SUBSET Entry
      /\ W \in SUBSET Entry
  BY DEF TypeOK
<1>2. Replies(W, "busy") \in SUBSET Answer
  BY <1>1, RepliesType DEF Results
<1>3. reclaimed' \subseteq Entry
  BY DEF Deadlines, Remembered, TypeOK
<1>4. /\ waiting' \subseteq Entry /\ held' \subseteq Entry
      /\ answers' \subseteq Answer
  <2>1. CASE GrantThenSend(waiting \ W, held \ H, limit,
                           PausedStories(pausedAll, paused), Replies(W, "busy"))
    BY <2>1, <1>1, <1>2, GrantThenSendType
  <2>2. CASE /\ waiting' = waiting \ W
             /\ answers' = answers \cup Replies(W, "busy")
             /\ UNCHANGED held
    BY <2>2, <1>2 DEF TypeOK
  <2>3. QED
    BY <2>1, <2>2 DEF Deadlines
<1>5. QED
  BY <1>3, <1>4 DEF Deadlines, TypeOK

(* What the callers may do whatever numbers they send: the workers number   *)
(* their requests themselves, and may name a ticket that was never issued.  *)
AnyWorkerCall ==
    \E c \in Conns :
        \/ \E l \in Lanes, a \in Accounts \cup {NoAccount}, r \in Nat :
              Acquire(c, l, a, r)
        \/ \E t \in Nat : Release(c, t)
        \/ \E r \in Nat : Cancel(c, r)
        \/ CloseConnection(c)

AnyNext == AnyWorkerCall \/ OperatorCalls \/ DeadlinePass \/ Sending

(* The steps of the specification are among them. *)
LEMMA NextIsAny ==
    ASSUME TypeOK, [QueueNext]_queueVars
    PROVE  [AnyNext]_queueVars
<1>1. CASE WorkerCalls
  <2>1. issued \in Nat /\ issued + 1 \in Nat /\ 1..issued \subseteq Nat
    BY QueueConstants DEF TypeOK
  <2>2. PICK c \in Conns :
            \/ \E l \in Lanes, a \in Accounts \cup {NoAccount} :
                  Acquire(c, l, a, issued + 1)
            \/ \E t \in 1..issued : Release(c, t)
            \/ \E r \in 1..issued : Cancel(c, r)
            \/ CloseConnection(c)
    BY <1>1 DEF WorkerCalls
  <2>3. AnyWorkerCall
    BY <2>1, <2>2 DEF AnyWorkerCall
  <2>4. QED
    BY <2>3 DEF AnyNext
<1>2. CASE UNCHANGED queueVars \/ OperatorCalls \/ DeadlinePass \/ Sending
  BY <1>2 DEF AnyNext
<1>3. QED
  BY <1>1, <1>2 DEF QueueNext

(* The variables keep their types through every operation. *)
LEMMA TypeAny ==
    ASSUME TypeOK, [AnyNext]_queueVars
    PROVE  TypeOK'
<1>1. CASE AnyWorkerCall
  BY <1>1, TypeAcquire, TypeRelease, TypeCancel, TypeCloseConnection
     DEF AnyWorkerCall
<1>2. CASE OperatorCalls
  BY <1>2, TypeOperator
<1>3. CASE DeadlinePass
  BY <1>3, TypeDeadlines DEF DeadlinePass
<1>4. CASE Sending
  BY <1>4 DEF Sending, DeliverAnswer, TypeOK
<1>5. CASE UNCHANGED queueVars
  BY <1>5 DEF queueVars, TypeOK
<1>6. QED
  BY <1>1, <1>2, <1>3, <1>4, <1>5 DEF AnyNext

THEOREM TypeStep == TypeOK /\ [QueueNext]_queueVars => TypeOK'
  BY NextIsAny, TypeAny

(* Type correctness: the lane table, the pauses and the answers of the      *)
(* queue are well formed in every behaviour. *)
THEOREM TypeCorrect == QueueSpec => []TypeOK
  BY TypeInit, TypeStep, PTL DEF QueueSpec

----------------------------------------------------------------------------
(* Every step of the queue is of one of two shapes.  A quiet step grants    *)
(* nothing: nobody new waits, nobody comes in or out, no pause is lifted,   *)
(* and a lane changes size only while all is paused and nothing is held.    *)
Quiet ==
    /\ waiting' \subseteq waiting
    /\ held' = held
    /\ PausedStories(pausedAll, paused) \subseteq PausedStories(pausedAll', paused')
    /\ \/ limit' = limit
       \/ held = {} /\ PausedStories(pausedAll', paused') = Stories
    /\ closed' = closed
    /\ issued <= issued'

(* A request that may join the waiters. *)
Admissible(e) ==
    /\ e \in Entry
    /\ e.ticket = issued + 1 /\ e.ticket <= issued'
    /\ ~InOtherWindow(e)
    /\ e.owner \notin closed

(* A granting step leaves W waiting and H holding, then makes the grants. *)
Granting(W, H) ==
    /\ H \subseteq held
    /\ W \subseteq waiting \/ \E e : Admissible(e) /\ W = waiting \cup {e}
    /\ \A e \in W \cup H : e.owner \in closed' => e.owner \in closed
    /\ \A l \in Lanes : limit[l] <= limit'[l]
    /\ issued <= issued'
    /\ \E G \in Grants(W, H, limit', PausedStories(pausedAll', paused')) :
          waiting' = W \ G /\ held' = H \cup G

(* An acquire is refused (quiet), or grants from the waiters and itself. *)
LEMMA ShapeAcquire ==
    ASSUME TypeOK, NEW c \in Conns, NEW l \in Lanes,
           NEW a \in Accounts \cup {NoAccount}, NEW r \in Nat,
           Acquire(c, l, a, r)
    PROVE  Quiet \/ \E W, H : Granting(W, H)
<1> DEFINE e == NewEntry(c, l, a, r)
<1>1. issued \in Nat /\ issued <= issued'
  BY QueueConstants DEF Acquire, TypeOK
<1>2. CASE UNCHANGED <<waiting, held, limit>>
  BY <1>1, <1>2 DEF Acquire, Quiet
<1>3. CASE /\ ~InOtherWindow(e)
           /\ limit' = Opened(l)
           /\ GrantThenSend(waiting \cup {e}, held, Opened(l),
                            PausedStories(pausedAll, paused), {})
  <2>1. Admissible(e)
    <3>1. e \in Entry
      BY NewEntryType DEF Acquire
    <3>2. e.ticket = issued + 1 /\ e.owner = c
      BY DEF NewEntry
    <3>3. QED
      BY <1>1, <1>3, <3>1, <3>2 DEF Acquire, Admissible
  <2>2. \A k \in Lanes : limit[k] <= limit'[k]
    BY <1>3, QueueConstants DEF Opened, TypeOK
  <2>3. PICK G \in Grants(waiting \cup {e}, held, limit',
                          PausedStories(pausedAll', paused')) :
            waiting' = (waiting \cup {e}) \ G /\ held' = held \cup G
    BY <1>3 DEF GrantThenSend, Acquire
  <2>4. closed' = closed
    BY DEF Acquire
  <2>5. Granting(waiting \cup {e}, held)
    BY <1>1, <2>1, <2>2, <2>3, <2>4 DEF Granting
  <2>6. QED
    BY <2>5
<1>4. QED
  BY <1>2, <1>3 DEF Acquire

(* A release grants from the holders less one; a late one is quiet. *)
LEMMA ShapeRelease ==
    ASSUME TypeOK, NEW c, NEW t, Release(c, t)
    PROVE  Quiet \/ \E W, H : Granting(W, H)
<1>1. /\ issued \in Nat /\ issued' = issued /\ limit' = limit /\ closed' = closed
      /\ pausedAll' = pausedAll /\ paused' = paused
      /\ \A l \in Lanes : limit[l] \in Nat
  BY QueueConstants DEF Release, TypeOK
<1>2. CASE UNCHANGED <<waiting, held, answers>>
  BY <1>1, <1>2 DEF Quiet
<1>3. CASE \E e \in held :
              GrantThenSend(waiting, held \ {e}, limit,
                            PausedStories(pausedAll, paused), {})
  <2>1. PICK e \in held :
            GrantThenSend(waiting, held \ {e}, limit,
                          PausedStories(pausedAll, paused), {})
    BY <1>3
  <2>2. Granting(waiting, held \ {e})
    BY <1>1, <2>1 DEF GrantThenSend, Granting
  <2>3. QED
    BY <2>2
<1>4. QED
  BY <1>2, <1>3 DEF Release

(* A cancel grants from the waiters less one. *)
LEMMA ShapeCancel ==
    ASSUME TypeOK, NEW c, NEW r, Cancel(c, r)
    PROVE  \E W, H : Granting(W, H)
<1>1. /\ issued \in Nat /\ issued' = issued /\ limit' = limit /\ closed' = closed
      /\ pausedAll' = pausedAll /\ paused' = paused
      /\ \A l \in Lanes : limit[l] \in Nat
  BY QueueConstants DEF Cancel, TypeOK
<1>2. PICK e \in waiting :
          GrantThenSend(waiting \ {e}, held, limit,
                        PausedStories(pausedAll, paused),
                        Replies({e}, "cancelled"))
  BY DEF Cancel
<1>3. Granting(waiting \ {e}, held)
  BY <1>1, <1>2 DEF GrantThenSend, Granting
<1>4. QED
  BY <1>3

(* A lost connection grants from what the others wait for and hold. *)
LEMMA ShapeCloseConnection ==
    ASSUME TypeOK, NEW c, CloseConnection(c)
    PROVE  \E W, H : Granting(W, H)
<1> DEFINE W == {e \in waiting : e.owner # c}
           H == {e \in held : e.owner # c}
<1>1. /\ issued \in Nat /\ issued' = issued /\ limit' = limit
      /\ closed' = closed \cup {c}
      /\ pausedAll' = pausedAll /\ paused' = paused
      /\ \A l \in Lanes : limit[l] \in Nat
  BY QueueConstants DEF CloseConnection, TypeOK
<1>2. PICK G \in Grants(W, H, limit', PausedStories(pausedAll', paused')) :
          waiting' = W \ G /\ held' = H \cup G
  BY <1>1 DEF CloseConnection, GrantThenSend
<1>3. /\ W \subseteq waiting /\ H \subseteq held
      /\ \A e \in W \cup H : e.owner # c
  OBVIOUS
<1> HIDE DEF W, H
<1>4. Granting(W, H)
  BY <1>1, <1>2, <1>3 DEF Granting
<1>5. QED
  BY <1>4

(* Of the operators' calls only those that lift a pause grant. *)
LEMMA ShapeOperator ==
    ASSUME TypeOK, OperatorCalls
    PROVE  Quiet \/ \E W, H : Granting(W, H)
<1>0. issued \in Nat /\ \A l \in Lanes : limit[l] \in Nat
  BY QueueConstants DEF TypeOK
<1>1. ASSUME NEW s \in Stories, Pause(s) PROVE Quiet
  BY <1>0, <1>1 DEF Pause, Quiet, PausedStories
<1>2. ASSUME NEW s \in Stories, Resume(s) PROVE \E W, H : Granting(W, H)
  <2>1. Granting(waiting, held)
    BY <1>0, <1>2 DEF Resume, GrantThenSend, Granting
  <2>2. QED
    BY <2>1
<1>3. ASSUME NEW s \in Stories, CloseStory(s) PROVE Quiet
  BY <1>0, <1>3 DEF CloseStory, Quiet
<1>4. ASSUME NEW S \in SUBSET Stories, NarrowPause(S)
      PROVE  \E W, H : Granting(W, H)
  <2>1. PausedStories(pausedAll', paused') = paused \cup S
    BY <1>4 DEF NarrowPause, PausedStories
  <2>2. PICK G \in Grants(waiting, held, limit', paused \cup S) :
            waiting' = waiting \ G /\ held' = held \cup G
    BY <1>4 DEF NarrowPause, GrantThenSend
  <2>3. /\ limit' = limit /\ closed' = closed /\ issued' = issued
        /\ \A l \in Lanes : limit[l] <= limit'[l]
    BY <1>0, <1>4 DEF NarrowPause
  <2>4. Granting(waiting, held)
    BY <1>0, <2>1, <2>2, <2>3 DEF Granting
  <2>5. QED
    BY <2>4
<1>5. CASE PauseAll
  <2>1. /\ PausedStories(pausedAll', paused') = Stories
        /\ PausedStories(pausedAll, paused) \subseteq Stories
    BY <1>5 DEF PauseAll, PausedStories, TypeOK
  <2>2. QED
    BY <1>0, <1>5, <2>1 DEF PauseAll, Quiet
<1>6. CASE ResumeAll
  <2>1. PausedStories(pausedAll', paused') = {}
    BY <1>6 DEF ResumeAll, PausedStories
  <2>2. PICK G \in Grants(waiting, held, limit', {}) :
            waiting' = waiting \ G /\ held' = held \cup G
    BY <1>6 DEF ResumeAll, GrantThenSend
  <2>3. /\ limit' = limit /\ closed' = closed /\ issued' = issued
        /\ \A l \in Lanes : limit[l] <= limit'[l]
    BY <1>0, <1>6 DEF ResumeAll
  <2>4. Granting(waiting, held)
    BY <1>0, <2>1, <2>2, <2>3 DEF Granting
  <2>5. QED
    BY <2>4
<1>7. ASSUME NEW l \in Lanes, NEW n \in Sizes, Resize(l, n) PROVE Quiet
  <2>1. PausedStories(pausedAll', paused') = Stories
    BY <1>7 DEF Resize, PausedStories
  <2>2. PausedStories(pausedAll, paused) = Stories
    BY <1>7 DEF Resize, PausedStories
  <2>3. /\ waiting' = waiting /\ held' = held /\ held = {}
        /\ closed' = closed /\ issued' = issued
    BY <1>7 DEF Resize
  <2>4. QED
    BY <1>0, <2>1, <2>2, <2>3 DEF Quiet
<1>8. CASE CloseQueue
  BY <1>0, <1>8 DEF CloseQueue, Quiet
<1>9. QED
  BY <1>1, <1>2, <1>3, <1>4, <1>5, <1>6, <1>7, <1>8 DEF OperatorCalls

(* The deadline thread grants only what it took back. *)
LEMMA ShapeDeadlines ==
    ASSUME TypeOK, NEW W \in SUBSET waiting, NEW H \in SUBSET held,
           Deadlines(W, H)
    PROVE  Quiet \/ \E X, Y : Granting(X, Y)
<1>1. /\ issued \in Nat /\ issued' = issued /\ limit' = limit /\ closed' = closed
      /\ pausedAll' = pausedAll /\ paused' = paused
      /\ \A l \in Lanes : limit[l] \in Nat
  BY QueueConstants DEF Deadlines, TypeOK
<1>2. CASE GrantThenSend(waiting \ W, held \ H, limit,
                         PausedStories(pausedAll, paused), Replies(W, "busy"))
  <2>1. Granting(waiting \ W, held \ H)
    BY <1>1, <1>2 DEF GrantThenSend, Granting
  <2>2. QED
    BY <2>1
<1>3. CASE waiting' = waiting \ W /\ UNCHANGED held
  BY <1>1, <1>3 DEF Quiet
<1>4. QED
  BY <1>2, <1>3 DEF Deadlines

(* Every step is quiet or granting. *)
LEMMA StepShape ==
    ASSUME TypeOK, [QueueNext]_queueVars
    PROVE  Quiet \/ \E W, H : Granting(W, H)
<1>0. issued \in Nat
  BY QueueConstants DEF TypeOK
<1>1. CASE WorkerCalls
  <2>1. ASSUME NEW c \in Conns, NEW l \in Lanes,
               NEW a \in Accounts \cup {NoAccount}, Acquire(c, l, a, issued + 1)
        PROVE  Quiet \/ \E W, H : Granting(W, H)
    <3>1. issued + 1 \in Nat
      BY <1>0
    <3>2. QED
      BY <2>1, <3>1, ShapeAcquire
  <2>2. QED
    BY <1>1, <2>1, ShapeRelease, ShapeCancel, ShapeCloseConnection DEF WorkerCalls
<1>2. CASE OperatorCalls
  BY <1>2, ShapeOperator
<1>3. CASE DeadlinePass
  BY <1>3, ShapeDeadlines DEF DeadlinePass
<1>4. CASE Sending
  BY <1>0, <1>4 DEF Sending, DeliverAnswer, Quiet
<1>5. CASE UNCHANGED queueVars
  BY <1>0, <1>5 DEF queueVars, Quiet
<1>6. QED
  BY <1>1, <1>2, <1>3, <1>4, <1>5 DEF QueueNext

----------------------------------------------------------------------------
(* The inductive invariant: what the runs check, and the two facts it needs *)
(* beside them (finite lanes, no ticket from the future).                   *)
Bounded ==
    /\ IsFiniteSet(waiting) /\ IsFiniteSet(held)
    /\ waiting \cap held = {}
    /\ \A e \in waiting \cup held : e.ticket <= issued

QueueInv ==
    /\ TypeOK
    /\ Bounded
    /\ Capacity
    /\ OneTurnPerAccount
    /\ WorkConserving
    /\ ArrivalOrder

(* The invariant holds at the start: every lane is empty. *)
THEOREM QueueInvInit == QueueInit => QueueInv
<1> SUFFICES ASSUME QueueInit PROVE QueueInv
  OBVIOUS
<1>1. TypeOK
  BY TypeInit
<1>2. waiting = {} /\ held = {}
  BY DEF QueueInit
<1>3. Bounded
  BY <1>2, FS_EmptySet DEF Bounded
<1>4. Capacity
  <2>1. ASSUME NEW l \in Lanes PROVE Cardinality(InLane(held, l)) <= limit[l]
    <3>1. InLane(held, l) = {}
      BY <1>2 DEF InLane
    <3>2. limit[l] \in Nat /\ Cardinality(InLane(held, l)) = 0
      BY <1>1, <3>1, FS_EmptySet DEF TypeOK
    <3>3. QED
      BY <3>2
  <2>2. QED
    BY <2>1 DEF Capacity
<1>5. OneTurnPerAccount /\ WorkConserving /\ ArrivalOrder
  BY <1>2 DEF OneTurnPerAccount, WorkConserving, ArrivalOrder, InLane
<1>6. QED
  BY <1>1, <1>3, <1>4, <1>5 DEF QueueInv

(* Grants move waiters inside and lose nobody. *)
LEMMA GrantingMoves ==
    ASSUME NEW W, NEW H, Granting(W, H)
    PROVE  waiting' \cup held' = W \cup H
  BY GrantsFromWaiters DEF Granting

(* What a granting step leaves waiting and holding is entries, finitely     *)
(* many of them, none from the future.                                      *)
LEMMA GrantingBounded ==
    ASSUME QueueInv, TypeOK', NEW W, NEW H, Granting(W, H)
    PROVE  /\ W \subseteq Entry /\ H \subseteq Entry
           /\ IsFiniteSet(W) /\ IsFiniteSet(H)
           /\ \A e \in W \cup H : e.ticket <= issued'
           /\ W \cap H = {}
           /\ IsFiniteSet(waiting') /\ IsFiniteSet(held')
<1>1. /\ H \subseteq Entry
      /\ IsFiniteSet(H)
  BY FS_Subset DEF QueueInv, Bounded, Granting, TypeOK
<1>2. /\ W \subseteq Entry
      /\ IsFiniteSet(W)
  <2>1. CASE W \subseteq waiting
    BY <2>1, FS_Subset DEF QueueInv, Bounded, TypeOK
  <2>2. CASE \E e : Admissible(e) /\ W = waiting \cup {e}
    BY <2>2, FS_AddElement DEF QueueInv, Bounded, TypeOK, Admissible
  <2>3. QED
    BY <2>1, <2>2 DEF Granting
<1>3. \A e \in W \cup H : e.ticket <= issued'
  <2>1. issued \in Nat /\ issued' \in Nat /\ issued <= issued'
    BY QueueConstants DEF QueueInv, TypeOK, Granting
  <2>2. \A e \in Entry : e.ticket \in Nat
    BY QueueConstants DEF Entry
  <2>3. ASSUME NEW e \in W \cup H PROVE e.ticket <= issued'
    <3>1. e \in waiting \cup held \/ e.ticket <= issued'
      BY DEF Granting, Admissible
    <3>2. CASE e \in waiting \cup held
      BY <2>1, <2>2, <3>2, <1>1, <1>2 DEF QueueInv, Bounded
    <3>3. QED
      BY <3>1, <3>2
  <2>4. QED
    BY <2>3
<1>4. IsFiniteSet(waiting') /\ IsFiniteSet(held')
  <2>1. waiting' \subseteq W \cup H /\ held' \subseteq W \cup H
    BY GrantingMoves
  <2>2. IsFiniteSet(W \cup H)
    BY <1>1, <1>2, FS_Union
  <2>3. QED
    BY <2>1, <2>2, FS_Subset
<1>5. W \cap H = {}
  <2>1. CASE W \subseteq waiting
    BY <2>1 DEF QueueInv, Bounded, Granting
  <2>2. ASSUME NEW e, Admissible(e), W = waiting \cup {e}
        PROVE  W \cap H = {}
    <3>1. e \notin held
      BY <2>2, QueueConstants DEF QueueInv, Bounded, TypeOK, Admissible
    <3>2. QED
      BY <2>2, <3>1 DEF QueueInv, Bounded, Granting
  <2>3. QED
    BY <2>1, <2>2 DEF Granting
<1>6. QED
  BY <1>1, <1>2, <1>3, <1>4, <1>5

(* The slots granted were free, so no lane overflows; and if somebody       *)
(* eligible is left in a lane, that lane is full.                           *)
LEMMA GrantCounts ==
    ASSUME NEW W, NEW H, NEW P, NEW lim \in [Lanes -> Nat],
           IsFiniteSet(W), IsFiniteSet(H), W \cap H = {},
           NEW G \in Grants(W, H, lim, P), NEW l \in Lanes,
           Cardinality(InLane(H, l)) <= lim[l]
    PROVE  /\ Cardinality(InLane(H \cup G, l)) <= lim[l]
           /\ (\E u \in InLane(W \ G, l) : Eligible(u, H, P)) =>
                  Cardinality(InLane(H \cup G, l)) >= lim[l]
<1>1. /\ G \subseteq W
      /\ InLane(G, l) \subseteq W /\ InLane(H, l) \subseteq H
      /\ InLane(H \cup G, l) = InLane(H, l) \cup InLane(G, l)
      /\ InLane(H, l) \cap InLane(G, l) = {}
  BY DEF Grants, InLane
<1>2. /\ IsFiniteSet(InLane(G, l)) /\ IsFiniteSet(InLane(H, l))
      /\ Cardinality(InLane(G, l)) \in Nat /\ Cardinality(InLane(H, l)) \in Nat
  BY <1>1, FS_Subset, FS_CardinalityType
<1>3. Cardinality(InLane(H \cup G, l)) =
          Cardinality(InLane(H, l)) + Cardinality(InLane(G, l))
  <2>1. Cardinality(InLane(H, l) \cup InLane(G, l)) =
            Cardinality(InLane(H, l)) + Cardinality(InLane(G, l))
                - Cardinality(InLane(H, l) \cap InLane(G, l))
    BY <1>2, FS_Union
  <2>2. Cardinality(InLane(H, l) \cap InLane(G, l)) = 0
    BY <1>1, FS_EmptySet
  <2>3. Cardinality(InLane(H \cup G, l)) = Cardinality(InLane(H, l) \cup InLane(G, l))
    BY <1>1, Zenon
  <2> DEFINE n == Cardinality(InLane(H, l) \cap InLane(G, l))
             m == Cardinality(InLane(H, l) \cup InLane(G, l))
             h == Cardinality(InLane(H, l))
             g == Cardinality(InLane(G, l))
  <2>4. m = h + g - n /\ n = 0 /\ h \in Nat /\ g \in Nat
    BY <1>2, <2>1, <2>2
  <2> HIDE DEF n, m, h, g
  <2>5. m = h + g
    BY <2>4
  <2>6. QED
    BY <2>3, <2>5 DEF m, h, g
<1>4. lim[l] \in Nat
  OBVIOUS
<1> DEFINE h == Cardinality(InLane(H, l))
           g == Cardinality(InLane(G, l))
           Left == \E u \in InLane(W \ G, l) : Eligible(u, H, P)
<1>5. /\ g > 0 => g <= lim[l] - h
      /\ g >= lim[l] - h \/ ~Left
  BY DEF Grants
<1>6. h \in Nat /\ g \in Nat /\ h <= lim[l]
  BY <1>2
<1> HIDE DEF h, g, Left
<1>7. h + g <= lim[l] /\ (Left => h + g >= lim[l])
  BY <1>4, <1>5, <1>6
<1>8. QED
  BY <1>3, <1>7 DEF h, g, Left

(* A turn granted in this step makes nobody else eligible: a paused story   *)
(* is granted no turn, so eligibility is what it was before the grants.     *)
LEMMA EligibleBeforeGrants ==
    ASSUME NEW W \in SUBSET Entry, NEW H \in SUBSET Entry, NEW lim, NEW P,
           NEW G \in Grants(W, H, lim, P), NEW e \in Entry,
           Eligible(e, H \cup G, P)
    PROVE  Eligible(e, H, P)
<1>1. CASE Story(e) \notin P
  BY <1>1 DEF Eligible
<1>2. CASE e.lane # NARRATION /\ HoldsNarration(e, H \cup G) /\ Story(e) \in P
  <2>1. PICK h \in H \cup G : /\ h.lane = NARRATION
                              /\ h.account = e.account /\ h.owner = e.owner
    BY <1>2 DEF HoldsNarration, InLane
  <2>2. h \notin G
    <3>1. Story(h) \in P
      BY <1>2, <2>1 DEF Story
    <3>2. ~Eligible(h, H, P)
      BY <2>1, <3>1 DEF Eligible
    <3>3. QED
      BY <3>2 DEF Grants
  <2>3. QED
    BY <1>2, <2>1, <2>2 DEF Eligible, HoldsNarration, InLane
<1>3. QED
  BY <1>1, <1>2 DEF Eligible

----------------------------------------------------------------------------
(* A quiet step keeps the invariant. *)
LEMMA QuietKeeps ==
    ASSUME QueueInv, TypeOK', Quiet
    PROVE  QueueInv'
<1>1. waiting' \subseteq waiting /\ held' = held /\ issued <= issued'
  BY DEF Quiet
<1>2. issued \in Nat /\ issued' \in Nat
  BY QueueConstants DEF QueueInv, TypeOK
<1>3. Bounded'
  <2>1. IsFiniteSet(waiting') /\ IsFiniteSet(held')
    BY <1>1, FS_Subset DEF QueueInv, Bounded
  <2>2. \A e \in Entry : e.ticket \in Nat
    BY QueueConstants DEF Entry
  <2>3. \A e \in waiting' \cup held' : e.ticket <= issued'
    <3>1. \A e \in waiting' \cup held' : e.ticket <= issued /\ e.ticket \in Nat
      BY <1>1, <2>2 DEF QueueInv, Bounded, TypeOK
    <3>2. QED
      BY <1>1, <1>2, <3>1
  <2>4. waiting' \cap held' = {}
    BY <1>1 DEF QueueInv, Bounded
  <2>5. QED
    BY <2>1, <2>3, <2>4 DEF Bounded
<1>4. Capacity'
  <2>1. CASE limit' = limit
    BY <1>1, <2>1 DEF QueueInv, Capacity, InLane
  <2>2. CASE held = {}
    <3>1. ASSUME NEW l \in Lanes
          PROVE  Cardinality(InLane(held', l)) <= limit'[l]
      <4>1. InLane(held', l) = {} /\ limit'[l] \in Nat
        BY <1>1, <2>2 DEF InLane, TypeOK
      <4>2. QED
        BY <4>1, FS_EmptySet
    <3>2. QED
      BY <3>1 DEF Capacity, InLane
  <2>3. QED
    BY <2>1, <2>2 DEF Quiet
<1>5. OneTurnPerAccount'
  <2>1. InLane(waiting' \cup held', NARRATION) \subseteq
            InLane(waiting \cup held, NARRATION)
    BY <1>1 DEF InLane
  <2>2. QED
    BY <2>1 DEF QueueInv, OneTurnPerAccount, InLane
<1>6. WorkConserving'
  <2>1. SUFFICES ASSUME NEW e \in waiting',
                        Eligible(e, held', PausedStories(pausedAll', paused'))
                 PROVE  Cardinality(InLane(held', e.lane)) >= limit'[e.lane]
    BY DEF WorkConserving, Eligible, HoldsNarration, InLane, Story
  <2>2. e \in waiting /\ e \in Entry
    BY <1>1 DEF QueueInv, TypeOK
  <2>3. Eligible(e, held, PausedStories(pausedAll, paused))
    BY <1>1, <2>1 DEF Quiet, Eligible
  <2>4. Cardinality(InLane(held, e.lane)) >= limit[e.lane]
    BY <2>2, <2>3 DEF QueueInv, WorkConserving
  <2>5. CASE limit' = limit
    BY <1>1, <2>4, <2>5
  <2>6. CASE held = {} /\ PausedStories(pausedAll', paused') = Stories
    <3>1. Story(e) \in Stories
      BY <2>2, QueueConstants DEF Story, Entry
    <3>2. ~HoldsNarration(e, held')
      BY <1>1, <2>6 DEF HoldsNarration, InLane
    <3>3. QED
      BY <2>1, <2>6, <3>1, <3>2 DEF Eligible
  <2>7. QED
    BY <2>5, <2>6 DEF Quiet
<1>7. ArrivalOrder'
  BY <1>1 DEF QueueInv, ArrivalOrder, InLane, Story
<1>8. QED
  BY <1>3, <1>4, <1>5, <1>6, <1>7 DEF QueueInv

(* A granting step fills no slot that was not free. *)
LEMMA GrantingCapacity ==
    ASSUME QueueInv, TypeOK', NEW W, NEW H, Granting(W, H)
    PROVE  Capacity' /\ WorkConserving'
<1> DEFINE P == PausedStories(pausedAll', paused')
<1>1. PICK G \in Grants(W, H, limit', P) : waiting' = W \ G /\ held' = H \cup G
  BY DEF Granting
<1>2. /\ W \subseteq Entry /\ H \subseteq Entry /\ W \cap H = {}
      /\ IsFiniteSet(W) /\ IsFiniteSet(H)
  BY GrantingBounded
<1>3. limit' \in [Lanes -> Nat]
  BY DEF TypeOK
<1>4. ASSUME NEW l \in Lanes
      PROVE  Cardinality(InLane(H, l)) <= limit'[l]
  <2>1. InLane(H, l) \subseteq InLane(held, l) /\ IsFiniteSet(InLane(held, l))
    <3>1. InLane(held, l) \subseteq held
      BY DEF InLane
    <3>2. QED
      BY <3>1, FS_Subset DEF Granting, InLane, QueueInv, Bounded
  <2>2. /\ Cardinality(InLane(H, l)) <= Cardinality(InLane(held, l))
        /\ Cardinality(InLane(H, l)) \in Nat
        /\ Cardinality(InLane(held, l)) \in Nat
    BY <2>1, FS_Subset, FS_CardinalityType
  <2>3. Cardinality(InLane(held, l)) <= limit[l] /\ limit[l] <= limit'[l]
    BY DEF QueueInv, Capacity, Granting
  <2>4. limit[l] \in Nat /\ limit'[l] \in Nat
    BY <1>3 DEF QueueInv, TypeOK
  <2>5. QED
    BY <2>2, <2>3, <2>4
<1> HIDE DEF P
<1>5. Capacity'
  <2>1. ASSUME NEW l \in Lanes
        PROVE  Cardinality(InLane(held', l)) <= limit'[l]
    BY <1>1, <1>2, <1>3, <1>4, GrantCounts
  <2>2. QED
    BY <2>1 DEF Capacity, InLane
<1>6. WorkConserving'
  <2>1. SUFFICES ASSUME NEW e \in waiting', Eligible(e, held', P)
                 PROVE  Cardinality(InLane(held', e.lane)) >= limit'[e.lane]
    BY DEF WorkConserving, Eligible, HoldsNarration, InLane, Story, P
  <2>2. e \in W \ G /\ e \in Entry /\ e.lane \in Lanes
    BY <1>1, <1>2, <2>1 DEF Entry
  <2>3. Eligible(e, H, P)
    BY <1>1, <1>2, <2>1, <2>2, EligibleBeforeGrants
  <2>4. e \in InLane(W \ G, e.lane)
    BY <2>2 DEF InLane
  <2>5. QED
    BY <1>1, <1>2, <1>3, <1>4, <2>2, <2>3, <2>4, GrantCounts
<1>7. QED
  BY <1>5, <1>6

(* Grants bring nobody in who was not waiting. *)
LEMMA GrantingOneTurn ==
    ASSUME QueueInv, NEW W, NEW H, Granting(W, H)
    PROVE  OneTurnPerAccount'
<1>1. InLane(waiting' \cup held', NARRATION) = InLane(W \cup H, NARRATION)
  BY GrantingMoves DEF InLane
<1>2. \A e, f \in InLane(W \cup H, NARRATION) :
          e.account = f.account /\ e.account # NoAccount => e = f
  <2>1. CASE W \subseteq waiting
    BY <2>1 DEF Granting, QueueInv, OneTurnPerAccount, InLane
  <2>2. ASSUME NEW x, Admissible(x), W = waiting \cup {x}
        PROVE  \A e, f \in InLane(W \cup H, NARRATION) :
                   e.account = f.account /\ e.account # NoAccount => e = f
    <3>1. ASSUME x.lane = NARRATION, x.account # NoAccount
          PROVE  \A e \in InLane(waiting \cup held, NARRATION) :
                     e.account # x.account
      BY <2>2, <3>1 DEF Admissible, InOtherWindow, AccountInNarration, InLane
    <3>2. InLane(W \cup H, NARRATION) \subseteq
              InLane(waiting \cup held, NARRATION) \cup InLane({x}, NARRATION)
      BY <2>2 DEF Granting, InLane
    <3>3. \A e \in InLane({x}, NARRATION) : e = x /\ x.lane = NARRATION
      BY DEF InLane
    <3>4. QED
      BY <3>1, <3>2, <3>3 DEF QueueInv, OneTurnPerAccount
  <2>3. QED
    BY <2>1, <2>2 DEF Granting
<1>3. QED
  BY <1>1, <1>2 DEF OneTurnPerAccount, InLane

(* Of one story's turns the earliest is granted first. *)
LEMMA GrantingOrder ==
    ASSUME QueueInv, TypeOK', NEW W, NEW H, Granting(W, H)
    PROVE  ArrivalOrder'
<1> DEFINE P == PausedStories(pausedAll', paused')
<1>1. PICK G \in Grants(W, H, limit', P) : waiting' = W \ G /\ held' = H \cup G
  BY DEF Granting
<1>2. W \subseteq Entry /\ H \subseteq Entry
  BY GrantingBounded
<1> HIDE DEF P
<1>3. SUFFICES ASSUME NEW h \in InLane(held', NARRATION),
                      NEW w \in InLane(waiting', NARRATION),
                      Story(h) = Story(w)
               PROVE  h.ticket < w.ticket
  BY DEF ArrivalOrder, InLane, Story
<1>4. CASE h \in G
  <2>1. Eligible(h, H, P) /\ h.lane = NARRATION /\ w.lane = NARRATION
    BY <1>1, <1>3, <1>4 DEF Grants, InLane
  <2>2. Eligible(w, H, P) /\ w \in W \ G
    BY <1>1, <1>3, <2>1 DEF Eligible, InLane
  <2>3. QED
    BY <1>4, <2>1, <2>2 DEF Grants
<1>5. CASE h \in H
  <2>1. h \in held /\ h.lane = NARRATION
    BY <1>3, <1>5 DEF Granting, InLane
  <2>2. CASE w \in waiting
    BY <1>3, <2>1, <2>2 DEF QueueInv, ArrivalOrder, InLane
  <2>3. CASE w.ticket = issued + 1
    BY <2>1, <2>3, QueueConstants DEF QueueInv, Bounded, TypeOK, Entry
  <2>4. w \in waiting \/ w.ticket = issued + 1
    BY <1>1, <1>3 DEF InLane, Granting, Admissible
  <2>5. QED
    BY <2>2, <2>3, <2>4
<1>6. QED
  BY <1>1, <1>3, <1>4, <1>5 DEF InLane

(* Every step keeps the invariant. *)
THEOREM QueueInvStep == QueueInv /\ [QueueNext]_queueVars => QueueInv'
<1> SUFFICES ASSUME QueueInv, [QueueNext]_queueVars PROVE QueueInv'
  OBVIOUS
<1>1. TypeOK /\ TypeOK'
  BY TypeStep DEF QueueInv
<1>2. CASE Quiet
  BY <1>1, <1>2, QuietKeeps
<1>3. ASSUME NEW W, NEW H, Granting(W, H) PROVE QueueInv'
  <2>1. Capacity' /\ WorkConserving' /\ OneTurnPerAccount' /\ ArrivalOrder'
    BY <1>1, <1>3, GrantingCapacity, GrantingOneTurn, GrantingOrder
  <2>2. /\ IsFiniteSet(waiting') /\ IsFiniteSet(held')
        /\ \A e \in waiting' \cup held' : e.ticket <= issued'
    BY <1>1, <1>3, GrantingBounded, GrantingMoves
  <2>3. waiting' \cap held' = {}
    BY <1>1, <1>3, GrantingBounded DEF Granting
  <2>4. QED
    BY <1>1, <2>1, <2>2, <2>3 DEF QueueInv, Bounded
<1>4. QED
  BY <1>1, <1>2, <1>3, StepShape

(* The invariant holds in every behaviour of the queue. *)
THEOREM QueueInvariant == QueueSpec => []QueueInv
  BY QueueInvInit, QueueInvStep, PTL DEF QueueSpec

(* No lane ever has more holders than its size, through resizes, pauses,    *)
(* reclaims and lost connections. *)
THEOREM CapacityHolds == QueueSpec => []Capacity
<1>1. QueueInv => Capacity
  BY DEF QueueInv
<1>2. QED
  BY <1>1, QueueInvariant, PTL

(* A player is never twice in the narration lane, whatever their workers. *)
THEOREM OneTurnPerAccountHolds == QueueSpec => []OneTurnPerAccount
<1>1. QueueInv => OneTurnPerAccount
  BY DEF QueueInv
<1>2. QED
  BY <1>1, QueueInvariant, PTL

(* Nobody who may be admitted waits beside a free slot: the operations that *)
(* make no grants need none. *)
THEOREM WorkConservingHolds == QueueSpec => []WorkConserving
<1>1. QueueInv => WorkConserving
  BY DEF QueueInv
<1>2. QED
  BY <1>1, QueueInvariant, PTL

(* One story's turns come in in the order they arrived. *)
THEOREM ArrivalOrderHolds == QueueSpec => []ArrivalOrder
<1>1. QueueInv => ArrivalOrder
  BY DEF QueueInv
<1>2. QED
  BY <1>1, QueueInvariant, PTL

(* Grants only move the waiters: who is in the lanes after was there before. *)
LEMMA GrantThenSendLanes ==
    ASSUME NEW W, NEW H, NEW lim, NEW P, NEW sent, GrantThenSend(W, H, lim, P, sent)
    PROVE  waiting' \cup held' \subseteq W \cup H
  BY GrantsFromWaiters DEF GrantThenSend

(* Nothing of a closed connection comes back: an operation of another one   *)
(* leaves its entries alone, and closing takes them all.                    *)
LEMMA ClosedStep ==
    ASSUME ClosedLeaveNothing, [QueueNext]_queueVars
    PROVE  ClosedLeaveNothing'
<1>1. CASE WorkerCalls
  <2>1. ASSUME NEW c \in Conns, NEW l \in Lanes, NEW a \in Accounts \cup {NoAccount},
               Acquire(c, l, a, issued + 1)
        PROVE  ClosedLeaveNothing'
    <3> DEFINE e == NewEntry(c, l, a, issued + 1)
    <3>1. waiting' \cup held' \subseteq waiting \cup held \cup {e}
      BY <2>1, GrantThenSendLanes DEF Acquire
    <3>2. /\ reclaimed' = reclaimed /\ closed' = closed
          /\ e.owner \notin closed
      BY <2>1 DEF Acquire, NewEntry
    <3>3. QED
      BY <3>1, <3>2 DEF ClosedLeaveNothing
  <2>2. ASSUME NEW c \in Conns, NEW t \in 1..issued, Release(c, t)
        PROVE  ClosedLeaveNothing'
    <3>1. /\ waiting' \cup held' \subseteq waiting \cup held
          /\ reclaimed' \subseteq reclaimed /\ closed' = closed
      <4>1. ASSUME NEW e \in held,
                   GrantThenSend(waiting, held \ {e}, limit,
                                 PausedStories(pausedAll, paused), {})
            PROVE  waiting' \cup held' \subseteq waiting \cup held
        <5>1. waiting' \cup held' \subseteq waiting \cup (held \ {e})
          BY <4>1, GrantThenSendLanes
        <5>2. QED
          BY <5>1
      <4>2. QED
        BY <2>2, <4>1 DEF Release
    <3>2. QED
      BY <3>1 DEF ClosedLeaveNothing
  <2>3. ASSUME NEW c \in Conns, NEW r \in 1..issued, Cancel(c, r)
        PROVE  ClosedLeaveNothing'
    <3>1. /\ waiting' \cup held' \subseteq waiting \cup held
          /\ reclaimed' = reclaimed /\ closed' = closed
      BY <2>3, GrantThenSendLanes DEF Cancel
    <3>2. QED
      BY <3>1 DEF ClosedLeaveNothing
  <2>4. ASSUME NEW c \in Conns, CloseConnection(c)
        PROVE  ClosedLeaveNothing'
    <3>1. /\ waiting' \cup held' \subseteq {e \in waiting \cup held : e.owner # c}
          /\ reclaimed' = {e \in reclaimed : e.owner # c}
          /\ closed' = closed \cup {c}
      BY <2>4, GrantThenSendLanes DEF CloseConnection
    <3>2. QED
      BY <3>1 DEF ClosedLeaveNothing
  <2>5. QED
    BY <1>1, <2>1, <2>2, <2>3, <2>4 DEF WorkerCalls
<1>2. CASE OperatorCalls
  <2>1. ASSUME NEW s \in Stories, Pause(s) \/ Resume(s) \/ CloseStory(s)
        PROVE  /\ waiting' \cup held' \subseteq waiting \cup held
               /\ reclaimed' = reclaimed /\ closed' = closed
    <3>1. CASE Resume(s)
      BY <3>1, GrantThenSendLanes DEF Resume
    <3>2. CASE Pause(s) \/ CloseStory(s)
      BY <3>2 DEF Pause, CloseStory
    <3>3. QED
      BY <2>1, <3>1, <3>2
  <2>2. ASSUME (\E S \in SUBSET Stories : NarrowPause(S)) \/ ResumeAll
        PROVE  /\ waiting' \cup held' \subseteq waiting \cup held
               /\ reclaimed' = reclaimed /\ closed' = closed
    BY <2>2, GrantThenSendLanes DEF NarrowPause, ResumeAll
  <2>3. ASSUME PauseAll \/ CloseQueue \/ \E l \in Lanes, n \in Sizes : Resize(l, n)
        PROVE  /\ waiting' \cup held' \subseteq waiting \cup held
               /\ reclaimed' = reclaimed /\ closed' = closed
    BY <2>3 DEF PauseAll, CloseQueue, Resize
  <2>4. /\ waiting' \cup held' \subseteq waiting \cup held
        /\ reclaimed' = reclaimed /\ closed' = closed
    BY <1>2, <2>1, <2>2, <2>3 DEF OperatorCalls
  <2>5. QED
    BY <2>4 DEF ClosedLeaveNothing
<1>3. CASE DeadlinePass
  <2>1. PICK W \in SUBSET waiting, H \in SUBSET held : Deadlines(W, H)
    BY <1>3 DEF DeadlinePass
  <2>2. waiting' \cup held' \subseteq waiting \cup held
    BY <2>1, GrantThenSendLanes DEF Deadlines
  <2>3. reclaimed' \subseteq reclaimed \cup held /\ closed' = closed
    BY <2>1 DEF Deadlines, Remembered
  <2>4. QED
    BY <2>2, <2>3 DEF ClosedLeaveNothing
<1>4. CASE Sending \/ UNCHANGED queueVars
  BY <1>4 DEF Sending, DeliverAnswer, queueVars, ClosedLeaveNothing
<1>5. QED
  BY <1>1, <1>2, <1>3, <1>4 DEF QueueNext

(* A lost connection leaves no slot, no place and no memory behind, in      *)
(* every behaviour.                                                         *)
THEOREM ClosedLeaveNothingHolds == QueueSpec => []ClosedLeaveNothing
<1>1. QueueInit => ClosedLeaveNothing
  BY DEF QueueInit, ClosedLeaveNothing
<1>2. QED
  BY <1>1, ClosedStep, PTL DEF QueueSpec

(* A paused story that holds nothing holds nothing until it is resumed: the *)
(* three separate calls of a drain (pause, wait_until_idle, close_story)    *)
(* are as good as one. *)
THEOREM DrainIsFinalHolds == QueueSpec => DrainIsFinal
<1> DEFINE Drained == \A s \in Stories :
               IsPaused(s) /\ HeldBy(s) = {} /\ IsPaused(s)' => HeldBy(s)' = {}
<1>1. QueueInv /\ [QueueNext]_queueVars => Drained
  <2>1. SUFFICES ASSUME QueueInv, [QueueNext]_queueVars,
                        NEW s \in Stories,
                        HeldBy(s) = {}, IsPaused(s)'
                 PROVE  HeldBy(s)' = {}
    OBVIOUS
  <2>2. TypeOK /\ TypeOK'
    BY <2>1, TypeStep DEF QueueInv
  <2>3. CASE Quiet
    BY <2>1, <2>3 DEF Quiet, HeldBy, Story
  <2>4. ASSUME NEW W, NEW H, Granting(W, H) PROVE HeldBy(s)' = {}
    <3> DEFINE P == PausedStories(pausedAll', paused')
    <3>1. s \in P
      BY <2>1 DEF IsPaused
    <3> HIDE DEF P
    <3>2. PICK G \in Grants(W, H, limit', P) : held' = H \cup G
      BY <2>4 DEF Granting, P
    <3>3. \A h \in H : Story(h) # s
      BY <2>1, <2>4 DEF Granting, HeldBy
    <3>4. \A g \in G : Story(g) # s
      <4>1. SUFFICES ASSUME NEW g \in G, Story(g) = s PROVE FALSE
        OBVIOUS
      <4>2. Eligible(g, H, P)
        BY <3>2 DEF Grants
      <4>3. HoldsNarration(g, H)
        BY <3>1, <4>1, <4>2 DEF Eligible
      <4>4. PICK h \in H : h.owner = g.owner
        BY <4>3 DEF HoldsNarration, InLane
      <4>5. QED
        BY <3>3, <4>1, <4>4 DEF Story
    <3>5. QED
      BY <3>2, <3>3, <3>4 DEF HeldBy, Story
  <2>5. QED
    BY <2>1, <2>2, <2>3, <2>4, StepShape
<1>2. QED
  BY <1>1, QueueInvariant, PTL DEF QueueSpec, DrainIsFinal

(* A call that grants unheard nobody: whoever is admitted is answered, and  *)
(* the operation's own answers are on their way too.                        *)
LEMMA GrantThenSendHeard ==
    ASSUME NEW W, NEW H, NEW lim, NEW P, NEW sent,
           GrantThenSend(W, H, lim, P, sent)
    PROVE  /\ \A w \in W \ waiting' : \E m \in answers' : m.entry = w
           /\ sent \subseteq answers'
<1>1. PICK G \in Grants(W, H, lim, P) :
          /\ waiting' = W \ G
          /\ answers' = answers \cup sent \cup Replies(G, "granted")
  BY DEF GrantThenSend
<1>2. ASSUME NEW w \in W \ waiting' PROVE \E m \in answers' : m.entry = w
  <2>1. [entry |-> w, result |-> "granted"] \in Replies(G, "granted")
    BY <1>1, <1>2 DEF Replies
  <2>2. QED
    BY <1>1, <2>1
<1>3. QED
  BY <1>1, <1>2

(* Everyone replied to is answered. *)
LEMMA RepliesHeard ==
    ASSUME NEW S, NEW r, NEW w \in S, Replies(S, r) \subseteq answers'
    PROVE  \E m \in answers' : m.entry = w
<1>1. [entry |-> w, result |-> r] \in Replies(S, r)
  BY DEF Replies
<1>2. QED
  BY <1>1

(* Nobody leaves the queue unheard, whichever thread moves it: the waiter   *)
(* that goes is answered, unless its connection is gone.                    *)
THEOREM NoSilentDropHolds == QueueSpec => NoSilentDrop
<1> DEFINE Heard(w) == w.owner \in closed' \/ \E m \in answers' : m.entry = w
           AllHeard == \A w \in waiting \ waiting' :
                           \/ w.owner \in closed'
                           \/ \E m \in answers' : m.entry = w
<1>1. [QueueNext]_queueVars => AllHeard
  <2>1. SUFFICES ASSUME [QueueNext]_queueVars, NEW w \in waiting \ waiting'
                 PROVE  Heard(w)
    OBVIOUS
  <2>2. ASSUME NEW W, NEW H, NEW lim, NEW P, NEW sent, w \in W,
               GrantThenSend(W, H, lim, P, sent)
        PROVE  Heard(w)
    BY <2>1, <2>2, GrantThenSendHeard
  <2>3. CASE WorkerCalls
    <3>1. ASSUME NEW c \in Conns, NEW l \in Lanes,
                 NEW a \in Accounts \cup {NoAccount}, Acquire(c, l, a, issued + 1)
          PROVE  Heard(w)
      BY <2>1, <2>2, <3>1 DEF Acquire
    <3>2. ASSUME NEW c \in Conns, NEW t \in 1..issued, Release(c, t)
          PROVE  Heard(w)
      BY <2>1, <2>2, <3>2 DEF Release
    <3>3. ASSUME NEW c \in Conns, NEW r \in 1..issued, Cancel(c, r)
          PROVE  Heard(w)
      <4>1. PICK e \in waiting :
                GrantThenSend(waiting \ {e}, held, limit,
                              PausedStories(pausedAll, paused),
                              Replies({e}, "cancelled"))
        BY <3>3 DEF Cancel
      <4>2. CASE w = e
        <5>1. Replies({e}, "cancelled") \subseteq answers'
          BY <4>1, GrantThenSendHeard
        <5>2. QED
          BY <4>2, <5>1, RepliesHeard
      <4>3. CASE w # e
        BY <2>1, <2>2, <4>1, <4>3
      <4>4. QED
        BY <4>2, <4>3
    <3>4. ASSUME NEW c \in Conns, CloseConnection(c)
          PROVE  Heard(w)
      <4>1. CASE w.owner = c
        BY <3>4, <4>1 DEF CloseConnection
      <4>2. CASE w.owner # c
        BY <2>1, <2>2, <3>4, <4>2 DEF CloseConnection
      <4>3. QED
        BY <4>1, <4>2
    <3>5. QED
      BY <2>3, <3>1, <3>2, <3>3, <3>4 DEF WorkerCalls
  <2>4. CASE OperatorCalls
    <3>1. ASSUME NEW s \in Stories, CloseStory(s) PROVE Heard(w)
      <4>1. /\ w \in {e \in waiting : Story(e) = s}
            /\ Replies({e \in waiting : Story(e) = s}, "busy") \subseteq answers'
        BY <2>1, <3>1 DEF CloseStory
      <4>2. QED
        BY <4>1, RepliesHeard
    <3>2. CASE CloseQueue
      <4>1. Replies(waiting, "busy") \subseteq answers'
        BY <3>2 DEF CloseQueue
      <4>2. QED
        BY <2>1, <4>1, RepliesHeard
    <3>3. CASE \/ \E s \in Stories : Resume(s)
               \/ \E S \in SUBSET Stories : NarrowPause(S)
               \/ ResumeAll
      BY <2>1, <2>2, <3>3 DEF Resume, NarrowPause, ResumeAll
    <3>4. CASE \/ \E s \in Stories : Pause(s)
               \/ PauseAll
               \/ \E l \in Lanes, n \in Sizes : Resize(l, n)
      BY <2>1, <3>4 DEF Pause, PauseAll, Resize
    <3>5. QED
      BY <2>4, <3>1, <3>2, <3>3, <3>4 DEF OperatorCalls
  <2>5. CASE DeadlinePass
    <3>1. PICK W \in SUBSET waiting, H \in SUBSET held : Deadlines(W, H)
      BY <2>5 DEF DeadlinePass
    <3>2. Replies(W, "busy") \subseteq answers'
      BY <3>1, GrantThenSendHeard DEF Deadlines
    <3>3. CASE w \in W
      BY <3>2, <3>3, RepliesHeard
    <3>4. CASE w \notin W
      BY <2>1, <2>2, <3>1, <3>4 DEF Deadlines
    <3>5. QED
      BY <3>3, <3>4
  <2>6. CASE Sending \/ UNCHANGED queueVars
    BY <2>1, <2>6 DEF Sending, DeliverAnswer, queueVars
  <2>7. QED
    BY <2>1, <2>3, <2>4, <2>5, <2>6 DEF QueueNext
<1>2. QED
  BY <1>1, PTL DEF QueueSpec, NoSilentDrop

----------------------------------------------------------------------------
(* One answer for each call.  Every step of the queue passes its tickets    *)
(* on: N joins the waiters, H leaves the holders, and what is answered (A)  *)
(* has just left the waiters.                                               *)
PassesOn(N, H, A) ==
    /\ \A e \in N : e.ticket = issued + 1 /\ e.ticket <= issued'
    /\ \A e, f \in N : e = f
    /\ H \subseteq held
    /\ waiting' \subseteq waiting \cup N
    /\ held' \subseteq (held \ H) \cup ((waiting \cup N) \ waiting')
    /\ reclaimed' \subseteq reclaimed \cup H
    /\ answers' \subseteq answers \cup A
    /\ \A m \in A : m.entry \in (waiting \cup N) \ waiting'
    /\ \A m, n \in A : m.entry = n.entry => m = n
    /\ issued <= issued'

(* What the inductive invariant adds: no ticket from the future, and a      *)
(* ticket that waits was never taken back.                                  *)
Numbered ==
    /\ \A e \in waiting \cup held \cup reclaimed : e.ticket <= issued
    /\ \A m \in answers : m.entry.ticket <= issued
    /\ waiting \cap reclaimed = {}

(* The replies to S are about S and are one for each. *)
LEMMA RepliesAbout ==
    ASSUME NEW S, NEW r
    PROVE  /\ \A m \in Replies(S, r) : m.entry \in S
           /\ \A m, n \in Replies(S, r) : m.entry = n.entry => m = n
  BY DEF Replies

(* A step that leaves W waiting and H holding, has answered the others as   *)
(* `sent' says and then makes the grants, passes its tickets on. *)
LEMMA GrantThenSendPasses ==
    ASSUME NEW N, NEW W \in SUBSET (waiting \cup N), NEW H \in SUBSET held,
           NEW lim, NEW P, NEW R \in SUBSET ((waiting \cup N) \ W), NEW r,
           GrantThenSend(W, held \ H, lim, P, Replies(R, r)),
           \A e \in N : e.ticket = issued + 1 /\ e.ticket <= issued',
           \A e, f \in N : e = f,
           reclaimed' \subseteq reclaimed \cup H,
           issued <= issued'
    PROVE  \E A : PassesOn(N, H, A)
<1>1. PICK G \in Grants(W, held \ H, lim, P) :
          /\ waiting' = W \ G
          /\ held' = (held \ H) \cup G
          /\ answers' = answers \cup Replies(R, r) \cup Replies(G, "granted")
  BY DEF GrantThenSend
<1>2. G \subseteq W
  BY GrantsFromWaiters
<1> DEFINE A == Replies(R, r) \cup Replies(G, "granted")
<1>3. \A m \in A : m.entry \in (waiting \cup N) \ waiting'
  BY <1>1, <1>2, RepliesAbout
<1>4. ASSUME NEW m \in A, NEW n \in A, m.entry = n.entry PROVE m = n
  <2>1. R \cap G = {}
    BY <1>2
  <2>2. CASE m \in Replies(R, r) /\ n \in Replies(R, r)
    BY <1>4, <2>2, RepliesAbout
  <2>3. CASE m \in Replies(G, "granted") /\ n \in Replies(G, "granted")
    BY <1>4, <2>3, RepliesAbout
  <2>4. QED
    BY <1>4, <2>1, <2>2, <2>3, RepliesAbout
<1>5. answers' \subseteq answers \cup A
  BY <1>1
<1> HIDE DEF A
<1>6. PassesOn(N, H, A)
  BY <1>1, <1>2, <1>3, <1>4, <1>5 DEF PassesOn
<1>7. QED
  BY <1>6

(* So does a step that answers some of those who leave and grants nothing. *)
LEMMA AnsweringPasses ==
    ASSUME NEW N, NEW R \in SUBSET ((waiting \cup N) \ waiting'), NEW r,
           waiting' \subseteq waiting \cup N,
           held' = held, reclaimed' \subseteq reclaimed,
           answers' \subseteq answers \cup Replies(R, r),
           \A e \in N : e.ticket = issued + 1 /\ e.ticket <= issued',
           \A e, f \in N : e = f,
           issued <= issued'
    PROVE  \E A : PassesOn(N, {}, A)
<1>1. PassesOn(N, {}, Replies(R, r))
  BY RepliesAbout DEF PassesOn
<1>2. QED
  BY <1>1

(* Passing tickets on keeps a ticket in one place and with one answer. *)
LEMMA PassingKeeps ==
    ASSUME TypeOK, TypeOK', AnsweredOnce, Numbered,
           NEW N, NEW H, NEW A, PassesOn(N, H, A)
    PROVE  AnsweredOnce' /\ Numbered'
<1> DEFINE Old == waiting \cup held \cup reclaimed
<1>1. issued \in Nat /\ issued' >= issued
  <2>1. issued \in Nat
    BY QueueConstants DEF TypeOK
  <2>2. QED
    BY <2>1 DEF PassesOn
<1>2. \A e \in Old : e.ticket \in Nat /\ e.ticket <= issued
  BY QueueConstants DEF TypeOK, Entry, Numbered
<1>3. \A m \in answers : m.entry.ticket \in Nat /\ m.entry.ticket <= issued
  BY QueueConstants DEF TypeOK, Answer, Entry, Numbered
<1>4. \A e \in N : e.ticket = issued + 1 /\ e.ticket <= issued'
  BY DEF PassesOn
<1>5. \A e \in N : e \notin Old /\ \A f \in Old : e.ticket # f.ticket
  BY <1>1, <1>2, <1>4
<1>6. \A e, f \in Old \cup N : e.ticket = f.ticket => e = f
  <2>1. \A e, f \in Old : e.ticket = f.ticket => e = f
    BY DEF AnsweredOnce
  <2>2. \A e, f \in N : e = f
    BY DEF PassesOn
  <2>3. QED
    BY <1>5, <2>1, <2>2
<1>7. waiting' \cup held' \cup reclaimed' \subseteq Old \cup N
  BY DEF PassesOn
<1>8. issued' \in Nat
  BY QueueConstants DEF TypeOK
<1> HIDE DEF Old
<1>9. \A e \in Old \cup N : e.ticket <= issued'
  <2>1. \A e \in Old : e.ticket <= issued'
    BY <1>1, <1>2, <1>8
  <2>2. QED
    BY <1>4, <2>1
<1>10. /\ waiting \cap held = {} /\ held \cap reclaimed = {}
       /\ waiting \cap reclaimed = {}
  BY DEF AnsweredOnce, Numbered
<1>11. /\ waiting' \cap held' = {} /\ held' \cap reclaimed' = {}
       /\ waiting' \cap reclaimed' = {}
  <2>1. N \cap (held \cup reclaimed) = {}
    BY <1>5 DEF Old
  <2>2. QED
    BY <1>10, <2>1 DEF PassesOn
<1>12. \A m \in answers, e \in waiting \cup N : m.entry.ticket # e.ticket
  <2>1. \A m \in answers, w \in waiting : m.entry.ticket # w.ticket
    BY DEF AnsweredOnce
  <2>2. \A m \in answers, e \in N : m.entry.ticket # e.ticket
    BY <1>1, <1>3, <1>4
  <2>3. QED
    BY <2>1, <2>2
<1>13. \A m \in A : m.entry \in (waiting \cup N) \ waiting'
  BY DEF PassesOn
<1>14. \A m, n \in answers \cup A : m.entry.ticket = n.entry.ticket => m = n
  <2>1. \A m, n \in answers : m.entry.ticket = n.entry.ticket => m = n
    BY DEF AnsweredOnce
  <2>2. ASSUME NEW m \in A, NEW n \in A, m.entry.ticket = n.entry.ticket
        PROVE  m = n
    <3>1. m.entry = n.entry
      BY <1>6, <1>13, <2>2 DEF Old
    <3>2. QED
      BY <2>2, <3>1 DEF PassesOn
  <2>3. \A m \in answers, n \in A : m.entry.ticket # n.entry.ticket
    BY <1>12, <1>13
  <2>4. QED
    BY <2>1, <2>2, <2>3
<1>15. \A m \in answers \cup A, w \in waiting' : m.entry.ticket # w.ticket
  <2>1. waiting' \subseteq waiting \cup N
    BY DEF PassesOn
  <2>2. ASSUME NEW m \in A, NEW w \in waiting' PROVE m.entry.ticket # w.ticket
    <3>1. m.entry # w /\ m.entry \in Old \cup N /\ w \in Old \cup N
      BY <1>13, <2>1, <2>2 DEF Old
    <3>2. QED
      BY <1>6, <3>1
  <2>3. QED
    BY <1>12, <2>1, <2>2
<1>16. answers' \subseteq answers \cup A
  BY DEF PassesOn
<1>17. AnsweredOnce'
  <2>1. \A e, f \in waiting' \cup held' \cup reclaimed' :
            e.ticket = f.ticket => e = f
    BY <1>6, <1>7
  <2>2. QED
    BY <1>11, <1>14, <1>15, <1>16, <2>1 DEF AnsweredOnce
<1>18. Numbered'
  <2>1. \A e \in waiting' \cup held' \cup reclaimed' : e.ticket <= issued'
    BY <1>7, <1>9
  <2>2. \A m \in answers : m.entry.ticket <= issued'
    BY <1>1, <1>3, <1>8
  <2>3. \A m \in A : m.entry.ticket <= issued'
    BY <1>9, <1>13 DEF Old
  <2>4. QED
    BY <1>11, <1>16, <2>1, <2>2, <2>3 DEF Numbered
<1>19. QED
  BY <1>17, <1>18

(* An acquire: its own new ticket joins, and is answered or waits. *)
LEMMA AcquirePasses ==
    ASSUME TypeOK, Numbered,
           NEW c \in Conns, NEW l \in Lanes,
           NEW a \in Accounts \cup {NoAccount}, NEW r \in Nat, Acquire(c, l, a, r)
    PROVE  \E N, H, A : PassesOn(N, H, A)
<1> DEFINE e == NewEntry(c, l, a, r)
<1>1. /\ issued' = issued + 1 /\ reclaimed' = reclaimed
      /\ e.ticket = issued + 1
  BY DEF Acquire, NewEntry
<1>2. /\ issued <= issued' /\ e.ticket <= issued' /\ e \notin waiting
  BY <1>1, QueueConstants DEF TypeOK, Numbered
<1>3. \/ \E s : /\ answers' = answers \cup Replies({e}, s)
                /\ waiting' = waiting /\ held' = held
      \/ GrantThenSend(waiting \cup {e}, held, Opened(l),
                       PausedStories(pausedAll, paused), {})
  BY DEF Acquire
<1> HIDE DEF e
<1>4. ASSUME NEW s, answers' = answers \cup Replies({e}, s),
             waiting' = waiting, held' = held
      PROVE  \E A : PassesOn({e}, {}, A)
  BY <1>1, <1>2, <1>4, AnsweringPasses
<1>5. CASE GrantThenSend(waiting \cup {e}, held, Opened(l),
                         PausedStories(pausedAll, paused), {})
  <2>1. /\ GrantThenSend(waiting \cup {e}, held \ {}, Opened(l),
                         PausedStories(pausedAll, paused), Replies({}, "busy"))
    <3>1. held \ {} = held /\ Replies({}, "busy") = {}
      BY DEF Replies
    <3>2. QED
      BY <1>5, <3>1
  <2>2. \E A : PassesOn({e}, {}, A)
    BY <1>1, <1>2, <2>1, GrantThenSendPasses
  <2>3. QED
    BY <2>2
<1>6. QED
  BY <1>3, <1>4, <1>5

(* Every operation passes its tickets on. *)
LEMMA EveryStepPasses ==
    ASSUME TypeOK, Numbered, [AnyNext]_queueVars
    PROVE  \E N, H, A : PassesOn(N, H, A)
<1>0. issued \in Nat
  BY QueueConstants DEF TypeOK
<1>1. ASSUME NEW W \in SUBSET waiting, NEW H \in SUBSET held, NEW lim, NEW P,
             NEW R \in SUBSET (waiting \ W), NEW r,
             GrantThenSend(W, held \ H, lim, P, Replies(R, r)),
             reclaimed' \subseteq reclaimed \cup H, issued' = issued
      PROVE  \E N, H1, A : PassesOn(N, H1, A)
  <2>1. /\ W \in SUBSET (waiting \cup {})
        /\ R \in SUBSET ((waiting \cup {}) \ W)
        /\ issued <= issued'
    BY <1>0, <1>1
  <2>2. \A e \in {} : e.ticket = issued + 1 /\ e.ticket <= issued'
    OBVIOUS
  <2>3. \A e, f \in {} : e = f
    OBVIOUS
  <2>4. \E A : PassesOn({}, H, A)
    BY <1>1, <2>1, <2>2, <2>3, GrantThenSendPasses, ZenonT(30)
  <2>5. QED
    BY <2>4
<1>2. ASSUME NEW W \in SUBSET waiting, NEW H \in SUBSET held, NEW lim, NEW P,
             GrantThenSend(W, held \ H, lim, P, {}),
             reclaimed' \subseteq reclaimed \cup H, issued' = issued
      PROVE  \E N, H1, A : PassesOn(N, H1, A)
  <2>1. Replies({}, "busy") = {} /\ {} \in SUBSET (waiting \ W)
    BY DEF Replies
  <2>2. GrantThenSend(W, held \ H, lim, P, Replies({}, "busy"))
    BY <1>2, <2>1
  <2>3. QED
    BY <1>1, <1>2, <2>1, <2>2
<1>3. ASSUME NEW R \in SUBSET (waiting \ waiting'), NEW r,
             waiting' \subseteq waiting, held' = held,
             reclaimed' \subseteq reclaimed,
             answers' \subseteq answers \cup Replies(R, r), issued' = issued
      PROVE  \E N, H, A : PassesOn(N, H, A)
  <2>1. /\ waiting' \subseteq waiting \cup {}
        /\ R \in SUBSET ((waiting \cup {}) \ waiting')
        /\ issued <= issued'
    BY <1>0, <1>3
  <2>2. \A e \in {} : e.ticket = issued + 1 /\ e.ticket <= issued'
    OBVIOUS
  <2>3. \A e, f \in {} : e = f
    OBVIOUS
  <2>4. \E A : PassesOn({}, {}, A)
    BY <1>3, <2>1, <2>2, <2>3, AnsweringPasses, ZenonT(30)
  <2>5. QED
    BY <2>4
<1>4. ASSUME waiting' \subseteq waiting, held' = held,
             reclaimed' \subseteq reclaimed, answers' \subseteq answers,
             issued' = issued
      PROVE  \E N, H, A : PassesOn(N, H, A)
  <2>1. PassesOn({}, {}, {})
    BY <1>0, <1>4 DEF PassesOn
  <2>2. QED
    BY <2>1
<1>5. held \ {} = held
  OBVIOUS
<1>6. CASE AnyWorkerCall
  <2>1. ASSUME NEW c \in Conns, NEW t \in Nat, Release(c, t)
        PROVE  \E N, H, A : PassesOn(N, H, A)
    <3>1. CASE \E e \in held :
                   /\ GrantThenSend(waiting, held \ {e}, limit,
                                    PausedStories(pausedAll, paused), {})
                   /\ reclaimed' = reclaimed /\ issued' = issued
      BY <1>2, <3>1
    <3>2. CASE /\ reclaimed' \subseteq reclaimed /\ issued' = issued
               /\ waiting' = waiting /\ answers' = answers /\ held' = held
      BY <1>4, <3>2
    <3>3. QED
      BY <2>1, <3>1, <3>2 DEF Release
  <2>2. ASSUME NEW c \in Conns, NEW r \in Nat, Cancel(c, r)
        PROVE  \E N, H, A : PassesOn(N, H, A)
    <3>1. PICK e \in waiting :
              GrantThenSend(waiting \ {e}, held \ {}, limit,
                            PausedStories(pausedAll, paused),
                            Replies({e}, "cancelled"))
      BY <1>5, <2>2 DEF Cancel
    <3>2. {e} \in SUBSET (waiting \ (waiting \ {e}))
      OBVIOUS
    <3>3. reclaimed' = reclaimed /\ issued' = issued
      BY <2>2 DEF Cancel
    <3>4. QED
      BY <1>1, <3>1, <3>2, <3>3
  <2>3. ASSUME NEW c \in Conns, CloseConnection(c)
        PROVE  \E N, H, A : PassesOn(N, H, A)
    <3>1. {e \in held : e.owner # c} = held \ {e \in held : e.owner = c}
      OBVIOUS
    <3>2. GrantThenSend({e \in waiting : e.owner # c},
                        held \ {e \in held : e.owner = c}, limit,
                        PausedStories(pausedAll, paused), {})
      BY <2>3, <3>1 DEF CloseConnection
    <3>3. reclaimed' \subseteq reclaimed /\ issued' = issued
      BY <2>3 DEF CloseConnection
    <3>4. QED
      BY <1>2, <3>2, <3>3
  <2>4. QED
    BY <1>6, <2>1, <2>2, <2>3, AcquirePasses DEF AnyWorkerCall
<1>7. CASE OperatorCalls
  <2>1. ASSUME NEW s \in Stories, CloseStory(s)
        PROVE  \E N, H, A : PassesOn(N, H, A)
    <3>1. /\ waiting' \subseteq waiting
          /\ {e \in waiting : Story(e) = s} \subseteq waiting \ waiting'
      BY <2>1 DEF CloseStory
    <3>2. /\ answers' = answers \cup Replies({e \in waiting : Story(e) = s}, "busy")
          /\ held' = held /\ reclaimed' = reclaimed /\ issued' = issued
      BY <2>1 DEF CloseStory
    <3>3. QED
      BY <1>3, <3>1, <3>2
  <2>2. CASE CloseQueue
    <3>1. waiting' = {} /\ waiting \subseteq waiting \ waiting'
      BY <2>2 DEF CloseQueue
    <3>2. QED
      BY <1>3, <2>2, <3>1 DEF CloseQueue
  <2>3. CASE \/ \E s \in Stories : Resume(s)
             \/ \E S \in SUBSET Stories : NarrowPause(S)
             \/ ResumeAll
    <3>1. /\ \E lim, P : GrantThenSend(waiting, held \ {}, lim, P, {})
          /\ reclaimed' = reclaimed /\ issued' = issued
      BY <1>5, <2>3 DEF Resume, NarrowPause, ResumeAll
    <3>2. QED
      BY <1>2, <3>1
  <2>4. CASE \/ \E s \in Stories : Pause(s)
             \/ PauseAll
             \/ \E l \in Lanes, n \in Sizes : Resize(l, n)
    BY <1>4, <2>4 DEF Pause, PauseAll, Resize
  <2>5. QED
    BY <1>7, <2>1, <2>2, <2>3, <2>4 DEF OperatorCalls
<1>8. CASE DeadlinePass
  <2>1. PICK W \in SUBSET waiting, H \in SUBSET held : Deadlines(W, H)
    BY <1>8 DEF DeadlinePass
  <2>2. reclaimed' \subseteq reclaimed \cup H /\ issued' = issued
    BY <2>1 DEF Deadlines, Remembered
  <2>3. W \in SUBSET (waiting \ (waiting \ W))
    OBVIOUS
  <2>4. CASE GrantThenSend(waiting \ W, held \ H, limit,
                           PausedStories(pausedAll, paused), Replies(W, "busy"))
    BY <1>1, <2>2, <2>3, <2>4
  <2>5. CASE /\ H = {} /\ waiting' = waiting \ W /\ held' = held
             /\ answers' = answers \cup Replies(W, "busy")
    BY <1>3, <2>2, <2>5
  <2>6. QED
    BY <2>1, <2>4, <2>5 DEF Deadlines
<1>9. CASE Sending \/ UNCHANGED queueVars
  BY <1>4, <1>9 DEF Sending, DeliverAnswer, queueVars
<1>10. QED
  BY <1>6, <1>7, <1>8, <1>9 DEF AnyNext

(* The inductive invariant of AnsweredOnce, and that every operation keeps it. *)
TicketsInv == TypeOK /\ AnsweredOnce /\ Numbered

LEMMA TicketsStep ==
    ASSUME TicketsInv, [AnyNext]_queueVars
    PROVE  TicketsInv'
<1>1. TypeOK'
  BY TypeAny DEF TicketsInv
<1>2. PICK N, H, A : PassesOn(N, H, A)
  BY EveryStepPasses DEF TicketsInv
<1>3. QED
  BY <1>1, <1>2, PassingKeeps DEF TicketsInv

(* A call has one answer and a ticket one place, in every behaviour: the    *)
(* queue's half of OneAnswerEach.  Answers are sent after the lock is       *)
(* released, in any order, and none is sent twice over.                     *)
THEOREM AnsweredOnceHolds == QueueSpec => []AnsweredOnce
<1>1. QueueInit => TicketsInv
  BY TypeInit DEF QueueInit, TicketsInv, AnsweredOnce, Numbered
<1>2. TicketsInv /\ [QueueNext]_queueVars => TicketsInv'
  BY NextIsAny, TicketsStep DEF TicketsInv
<1>3. TicketsInv => AnsweredOnce
  BY DEF TicketsInv
<1>4. QED
  BY <1>1, <1>2, <1>3, PTL DEF QueueSpec
=============================================================================
