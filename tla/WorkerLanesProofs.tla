------------------------- MODULE WorkerLanesProofs -------------------------
(* What the workers and the queue between them guarantee for any number of  *)
(* workers, stories, turns, calls inside them and tickets: no slot leaks,   *)
(* no call is forgotten or answered twice, and both sides agree on what was *)
(* taken back.                                                              *)
(*                                                                          *)
(* None of the three is inductive: each speaks of a slot or a call wherever *)
(* it is, so the invariants below follow a call from its acquire through    *)
(* the queue, the answer, the bus and its thread to the release, and say    *)
(* that it is in one of these places at a time (CallsInv), and that a       *)
(* ticket on the workers' side is one the supervisor knows (SlotsInv).      *)
(* At the end, that the workers drive the queue as LaneQueue specifies it.  *)
EXTENDS WorkerLanes, LaneQueueProofs

(* What a connection carries. *)
Requests == [op : {"acquire", "release", "cancel"}, arg : Nat]
News     == [op : {"reply", "reclaimed"}, call : Nat, ticket : 0..MaxTickets]

WorkersTyped ==
    /\ phase \in [Calls -> Phases]
    /\ ticketOf \in [Calls -> 0..MaxTickets]
    /\ late \subseteq Calls /\ withdrawing \subseteq Calls
    /\ alive \subseteq Conns
    /\ toSup \in [Conns -> Seq(Requests)]
    /\ toWorker \in [Conns -> Seq(News)]
    /\ pool \subseteq Conns \X Nat
    /\ asking \subseteq Entry
    /\ wheld \in [Conns -> SUBSET Nat]
    /\ wreclaimed \in [Conns -> SUBSET Nat]

----------------------------------------------------------------------------
(* Where a call stands between its acquire and its answer. *)
Asked(k)    == Request("acquire", k) \in Range(toSup[WorkerOf[k]])
Waits(k)    == \E e \in waiting : e.request = k
Answered(k) == \E m \in answers : m.entry.request = k
Replied(k)  == \E t \in 0..MaxTickets : Reply(k, t) \in Range(toWorker[WorkerOf[k]])

UnderWay(k) == Asked(k) \/ Waits(k) \/ Answered(k) \/ Replied(k)

(* Its answer is still awaited, by its thread or by _late; it needs none    *)
(* any more, and holds none.                                                *)
Awaited(k) == phase[k] = "asking" \/ k \in late
Spent(k)   == phase[k] = "done" /\ k \notin late

(* Nothing alike is twice on a connection: an acquire, a reply to a call.   *)
OneAcquire(s) ==
    \A i, j \in DOMAIN s :
        s[i].op = "acquire" /\ s[j].op = "acquire" /\ s[i].arg = s[j].arg => i = j
OneRelease(s) ==
    \A i, j \in DOMAIN s :
        s[i].op = "release" /\ s[j].op = "release" /\ s[i].arg = s[j].arg => i = j
OneReply(s) ==
    \A i, j \in DOMAIN s :
        s[i].op = "reply" /\ s[j].op = "reply" /\ s[i].call = s[j].call => i = j

(* Whose a message or an entry is. *)
OwnEntry(e) == e.request \in Calls /\ e.owner = WorkerOf[e.request]

OwnersTold ==
    /\ \A e \in waiting \cup held \cup reclaimed \cup asking : OwnEntry(e)
    /\ \A m \in answers : OwnEntry(m.entry)
    /\ \A c \in Conns : \A x \in Range(toSup[c]) :
          x.op # "release" => x.arg \in Calls /\ WorkerOf[x.arg] = c
    /\ \A c \in Conns : \A x \in Range(toWorker[c]) :
          x.op = "reply" => x.call \in Calls /\ WorkerOf[x.call] = c

(* A call is in one place at a time, and once. *)
OnePlace ==
    /\ \A k \in Calls :
          /\ Asked(k) => ~Waits(k) /\ ~Answered(k) /\ ~Replied(k)
          /\ Waits(k) => ~Answered(k) /\ ~Replied(k)
          /\ Answered(k) => ~Replied(k)
    /\ \A e, f \in waiting : e.request = f.request => e = f
    /\ \A m, n \in answers : m.entry.request = n.entry.request => m = n
    /\ \A c \in Conns : OneAcquire(toSup[c]) /\ OneReply(toWorker[c])

(* Nothing is under way to a living worker that it does not await. *)
Expected ==
    /\ \A k \in late : phase[k] = "done"
    /\ \A k \in Calls : WorkerOf[k] \in alive /\ UnderWay(k) => Awaited(k)

CallsInv ==
    /\ WorkersTyped /\ OwnersTold /\ OnePlace /\ Expected
    /\ NoOrphanTicket /\ NoLostCall

----------------------------------------------------------------------------
(* The supervisor knows the ticket t of call k; it still counts it as held. *)
Backed(k, t)    == \E e \in held \cup reclaimed : e.request = k /\ e.ticket = t
StillHeld(k, t) == \E e \in held : e.request = k /\ e.ticket = t

GrantsBacked ==
    \A m \in answers : m.result = "granted" /\ Linked(m.entry.owner) =>
        /\ m.entry \in held \cup reclaimed
        /\ phase[m.entry.request] = "asking" => m.entry \in held

RepliesBacked ==
    \A k \in Calls, t \in 1..MaxTickets :
        Reply(k, t) \in Range(toWorker[WorkerOf[k]]) /\ Linked(WorkerOf[k]) =>
            /\ Backed(k, t)
            /\ phase[k] = "asking" => StillHeld(k, t)

HandsBacked ==
    \A k \in Calls :
        /\ phase[k] \in {"holding", "releasing"} => ticketOf[k] # 0
        /\ InHand(k, ticketOf[k]) /\ ticketOf[k] # 0 /\ Linked(WorkerOf[k]) =>
              /\ Backed(k, ticketOf[k])
              /\ phase[k] = "answered" => StillHeld(k, ticketOf[k])

ReleasesBacked ==
    \A c \in Conns : Linked(c) =>
        /\ OneRelease(toSup[c])
        /\ \A t \in 1..MaxTickets : ReleaseUnderWay(c, t) =>
              \E e \in held \cup reclaimed :
                  e.ticket = t /\ e.owner = c /\ Spent(e.request)

HeldHere ==
    \A k \in Calls : phase[k] = "holding" /\ Linked(WorkerOf[k]) =>
        ticketOf[k] \in wheld[WorkerOf[k]]

NewsTold ==
    \A k \in Calls : LET c == WorkerOf[k]  t == ticketOf[k] IN
        phase[k] = "holding" /\ Linked(c) =>
            \/ StillHeld(k, t)
            \/ \E e \in asking : e.request = k /\ e.ticket = t
            \/ Reclaimed(t) \in Range(toWorker[c])
            \/ <<c, t>> \in pool
            \/ t \in wreclaimed[c]

NotedHeld == \A c \in Conns : wreclaimed[c] \subseteq wheld[c]

SlotsInv ==
    /\ GrantsBacked /\ RepliesBacked /\ HandsBacked /\ ReleasesBacked
    /\ HeldHere /\ NewsTold /\ NotedHeld

----------------------------------------------------------------------------
(* The channels: a message posted is the last, the head is the one read.    *)
LEMMA PostIs ==
    ASSUME NEW S, NEW channel \in [Conns -> Seq(S)], NEW c \in Conns, NEW m \in S
    PROVE  /\ Post(channel, c, m) \in [Conns -> Seq(S)]
           /\ Post(channel, c, m)[c] = Append(channel[c], m)
           /\ Range(Post(channel, c, m)[c]) = Range(channel[c]) \cup {m}
           /\ \A d \in Conns \ {c} : Post(channel, c, m)[d] = channel[d]
           /\ \A d \in Conns : Range(channel[d]) \subseteq Range(Post(channel, c, m)[d])
<1> DEFINE s == channel[c]
<1>1. s \in Seq(S) /\ Append(s, m) \in Seq(S)
  OBVIOUS
<1>2. /\ Post(channel, c, m) \in [Conns -> Seq(S)]
      /\ Post(channel, c, m)[c] = Append(s, m)
      /\ \A d \in Conns \ {c} : Post(channel, c, m)[d] = channel[d]
  BY <1>1 DEF Post
<1>3. Range(Append(s, m)) = Range(s) \cup {m}
  <2> HIDE DEF s
  <2>1. DOMAIN Append(s, m) = 1..(Len(s) + 1) /\ DOMAIN s = 1..Len(s) /\ Len(s) \in Nat
    BY <1>1
  <2>2. /\ \A i \in 1..Len(s) : Append(s, m)[i] = s[i]
        /\ Append(s, m)[Len(s) + 1] = m
    BY <1>1
  <2>3. 1..(Len(s) + 1) = (1..Len(s)) \cup {Len(s) + 1}
    BY <2>1
  <2>4. QED
    BY <2>1, <2>2, <2>3 DEF Range
<1>4. QED
  BY <1>2, <1>3

(* The head of a channel is read; the rest stays as it was. *)
LEMMA DropIs ==
    ASSUME NEW S, NEW channel \in [Conns -> Seq(S)], NEW c \in Conns,
           channel[c] # <<>>
    PROVE  /\ Drop(channel, c) \in [Conns -> Seq(S)]
           /\ Drop(channel, c)[c] = Tail(channel[c])
           /\ Head(channel[c]) \in S
           /\ Head(channel[c]) \in Range(channel[c])
           /\ Range(Drop(channel, c)[c]) \subseteq Range(channel[c])
           /\ Range(channel[c]) \subseteq
                 {Head(channel[c])} \cup Range(Drop(channel, c)[c])
           /\ \A d \in Conns \ {c} : Drop(channel, c)[d] = channel[d]
           /\ \A d \in Conns : Range(Drop(channel, c)[d]) \subseteq Range(channel[d])
<1> DEFINE s == channel[c]
<1>1. s \in Seq(S) /\ s # <<>> /\ Tail(s) \in Seq(S) /\ Head(s) \in S
  OBVIOUS
<1>2. /\ Drop(channel, c) \in [Conns -> Seq(S)]
      /\ Drop(channel, c)[c] = Tail(s)
      /\ \A d \in Conns \ {c} : Drop(channel, c)[d] = channel[d]
  BY <1>1 DEF Drop
<1>3. /\ Head(s) \in Range(s)
      /\ Range(Tail(s)) \subseteq Range(s)
      /\ Range(s) \subseteq {Head(s)} \cup Range(Tail(s))
  <2> HIDE DEF s
  <2>1. /\ DOMAIN s = 1..Len(s) /\ Len(s) \in Nat \ {0}
        /\ DOMAIN Tail(s) = 1..(Len(s) - 1)
        /\ Head(s) = s[1]
        /\ \A i \in 1..(Len(s) - 1) : Tail(s)[i] = s[i + 1]
    BY <1>1
  <2>2. \A i \in 1..Len(s) : i = 1 \/ (i - 1 \in 1..(Len(s) - 1) /\ (i - 1) + 1 = i)
    BY <2>1
  <2>3. \A i \in 1..(Len(s) - 1) : i + 1 \in 1..Len(s)
    BY <2>1
  <2>4. 1 \in 1..Len(s)
    BY <2>1
  <2>5. Head(s) \in Range(s)
    BY <2>1, <2>4 DEF Range
  <2>6. Range(Tail(s)) \subseteq Range(s)
    BY <2>1, <2>3 DEF Range
  <2>7. ASSUME NEW i \in 1..Len(s)
        PROVE  s[i] \in {Head(s)} \cup Range(Tail(s))
    <3>1. CASE i = 1
      BY <2>1, <3>1
    <3>2. CASE i # 1
      <4>1. /\ i - 1 \in DOMAIN Tail(s) /\ Tail(s)[i - 1] = s[i]
        BY <2>1, <2>2, <3>2
      <4>2. QED
        BY <4>1 DEF Range
    <3>3. QED
      BY <3>1, <3>2
  <2>8. Range(s) \subseteq {Head(s)} \cup Range(Tail(s))
    BY <2>1, <2>7 DEF Range
  <2>9. QED
    BY <2>5, <2>6, <2>8
<1>4. QED
  BY <1>2, <1>3, <1>1

(* What is once on a connection is once after its head was read, and once   *)
(* after another message was posted.                                        *)
LEMMA OnceAfterTail ==
    ASSUME NEW S, NEW s \in Seq(S), s # <<>>
    PROVE  /\ OneAcquire(s) =>
                 /\ OneAcquire(Tail(s))
                 /\ Head(s).op = "acquire" => \A x \in Range(Tail(s)) :
                       x.op = "acquire" => x.arg # Head(s).arg
           /\ OneRelease(s) =>
                 /\ OneRelease(Tail(s))
                 /\ Head(s).op = "release" => \A x \in Range(Tail(s)) :
                       x.op = "release" => x.arg # Head(s).arg
           /\ OneReply(s) =>
                 /\ OneReply(Tail(s))
                 /\ Head(s).op = "reply" => \A x \in Range(Tail(s)) :
                       x.op = "reply" => x.call # Head(s).call
<1>1. /\ DOMAIN s = 1..Len(s) /\ Len(s) \in Nat \ {0}
      /\ DOMAIN Tail(s) = 1..(Len(s) - 1)
      /\ Head(s) = s[1]
      /\ \A i \in 1..(Len(s) - 1) : Tail(s)[i] = s[i + 1]
  OBVIOUS
<1>2. /\ \A i \in 1..(Len(s) - 1) : i + 1 \in 1..Len(s) /\ i + 1 # 1
      /\ \A i, j \in 1..(Len(s) - 1) : i + 1 = j + 1 => i = j
      /\ 1 \in 1..Len(s)
  BY <1>1
<1>3. \A x \in Range(Tail(s)) : \E i \in DOMAIN s : i # 1 /\ x = s[i]
  BY <1>1, <1>2 DEF Range
<1>4. OneAcquire(s) => OneAcquire(Tail(s))
  BY <1>1, <1>2 DEF OneAcquire
<1>5. OneRelease(s) => OneRelease(Tail(s))
  BY <1>1, <1>2 DEF OneRelease
<1>6. OneReply(s) => OneReply(Tail(s))
  BY <1>1, <1>2 DEF OneReply
<1>7. OneAcquire(s) /\ Head(s).op = "acquire" =>
          \A x \in Range(Tail(s)) : x.op = "acquire" => x.arg # Head(s).arg
  BY <1>1, <1>2, <1>3 DEF OneAcquire
<1>8. OneRelease(s) /\ Head(s).op = "release" =>
          \A x \in Range(Tail(s)) : x.op = "release" => x.arg # Head(s).arg
  BY <1>1, <1>2, <1>3 DEF OneRelease
<1>9. OneReply(s) /\ Head(s).op = "reply" =>
          \A x \in Range(Tail(s)) : x.op = "reply" => x.call # Head(s).call
  BY <1>1, <1>2, <1>3 DEF OneReply
<1>10. QED
  BY <1>4, <1>5, <1>6, <1>7, <1>8, <1>9

(* One message more is no message twice. *)
LEMMA OnceAfterAppend ==
    ASSUME NEW S, NEW s \in Seq(S), NEW m \in S
    PROVE  /\ /\ OneAcquire(s)
              /\ m.op = "acquire" => \A x \in Range(s) :
                    x.op = "acquire" => x.arg # m.arg
              => OneAcquire(Append(s, m))
           /\ /\ OneRelease(s)
              /\ m.op = "release" => \A x \in Range(s) :
                    x.op = "release" => x.arg # m.arg
              => OneRelease(Append(s, m))
           /\ /\ OneReply(s)
              /\ m.op = "reply" => \A x \in Range(s) :
                    x.op = "reply" => x.call # m.call
              => OneReply(Append(s, m))
<1>1. /\ DOMAIN s = 1..Len(s) /\ Len(s) \in Nat
      /\ DOMAIN Append(s, m) = 1..(Len(s) + 1)
      /\ \A i \in 1..Len(s) : Append(s, m)[i] = s[i]
      /\ Append(s, m)[Len(s) + 1] = m
  OBVIOUS
<1>2. \A i \in 1..(Len(s) + 1) : i \in 1..Len(s) \/ i = Len(s) + 1
  BY <1>1
<1>3. \A i \in 1..Len(s) : s[i] \in Range(s)
  BY <1>1 DEF Range
<1>4. /\ OneAcquire(s)
      /\ m.op = "acquire" => \A x \in Range(s) : x.op = "acquire" => x.arg # m.arg
      => OneAcquire(Append(s, m))
  BY <1>1, <1>2, <1>3 DEF OneAcquire
<1>5. /\ OneRelease(s)
      /\ m.op = "release" => \A x \in Range(s) : x.op = "release" => x.arg # m.arg
      => OneRelease(Append(s, m))
  BY <1>1, <1>2, <1>3 DEF OneRelease
<1>6. /\ OneReply(s)
      /\ m.op = "reply" => \A x \in Range(s) : x.op = "reply" => x.call # m.call
      => OneReply(Append(s, m))
  BY <1>1, <1>2, <1>3 DEF OneReply
<1>7. QED
  BY <1>4, <1>5, <1>6

----------------------------------------------------------------------------
(* The queue's part of a step.  N joins the waiters; who leaves them is     *)
(* answered by A, unless its connection is gone, and A is the only way in.  *)
GoesOn(N, A) ==
    /\ waiting' \subseteq waiting \cup N
    /\ answers' = answers \cup A
    /\ \A e \in held' \ held : \E m \in A : m.entry = e /\ m.result = "granted"
    /\ \A m \in A : /\ m.entry \in (waiting \cup N) \ waiting'
                    /\ m.result = "granted" => m.entry \in held'
    /\ \A m, n \in A : m.entry = n.entry => m = n
    /\ \A e \in (waiting \cup N) \ waiting' :
          e.owner \in closed' \/ \E m \in A : m.entry = e

(* _grant's part: who leaves the waiters is granted, or in R and answered r. *)
LEMMA GrantThenSendGoesOn ==
    ASSUME NEW N, NEW W \in SUBSET (waiting \cup N), NEW H \in SUBSET held,
           NEW lim, NEW P, NEW R \in SUBSET ((waiting \cup N) \ W), NEW r,
           r # "granted",
           GrantThenSend(W, H, lim, P, Replies(R, r)),
           \A e \in (waiting \cup N) \ W : e \in R \/ e.owner \in closed'
    PROVE  /\ \E A : GoesOn(N, A)
           /\ H \subseteq held'
<1>1. PICK G \in Grants(W, H, lim, P) :
          /\ waiting' = W \ G
          /\ held' = H \cup G
          /\ answers' = answers \cup Replies(R, r) \cup Replies(G, "granted")
  BY DEF GrantThenSend
<1>2. G \subseteq W
  BY GrantsFromWaiters
<1> DEFINE A == Replies(R, r) \cup Replies(G, "granted")
<1>3. \A m \in A : /\ m.entry \in (waiting \cup N) \ waiting'
                   /\ m.result = "granted" => m.entry \in held'
  BY <1>1, <1>2 DEF Replies
<1>4. R \cap G = {}
  BY <1>2
<1>5. \A m, n \in A : m.entry = n.entry => m = n
  BY <1>4 DEF Replies
<1>6. answers' = answers \cup A
  BY <1>1
<1>7. ASSUME NEW e \in G
      PROVE  \E m \in A : m.entry = e /\ m.result = "granted"
  <2>1. [entry |-> e, result |-> "granted"] \in A
    BY DEF Replies
  <2>2. QED
    BY <2>1
<1>8. ASSUME NEW e \in R PROVE \E m \in A : m.entry = e
  <2>1. [entry |-> e, result |-> r] \in A
    BY DEF Replies
  <2>2. QED
    BY <2>1
<1> HIDE DEF A
<1>9. \A e \in (waiting \cup N) \ waiting' :
          e.owner \in closed' \/ \E m \in A : m.entry = e
  BY <1>1, <1>7, <1>8
<1>10. \A e \in held' \ held : \E m \in A : m.entry = e /\ m.result = "granted"
  BY <1>1, <1>7
<1>11. GoesOn(N, A)
  BY <1>1, <1>2, <1>3, <1>5, <1>6, <1>9, <1>10 DEF GoesOn
<1>12. QED
  BY <1>1, <1>11

(* An operation that only answers: R leaves the waiters, refused. *)
LEMMA AnsweringGoesOn ==
    ASSUME NEW N, NEW R, NEW r, r # "granted",
           waiting' \subseteq waiting \cup N, held' = held,
           R = (waiting \cup N) \ waiting',
           answers' = answers \cup Replies(R, r)
    PROVE  \E A : GoesOn(N, A)
<1> DEFINE A == Replies(R, r)
<1>1. \A e \in R : \E m \in A : m.entry = e
  <2>1. \A e \in R : [entry |-> e, result |-> r] \in A
    BY DEF Replies
  <2>2. QED
    BY <2>1
<1>2. \A m \in A : m.entry \in R /\ m.result # "granted"
  BY DEF Replies
<1>3. \A m, n \in A : m.entry = n.entry => m = n
  BY DEF Replies
<1>4. answers' = answers \cup A
  OBVIOUS
<1> HIDE DEF A
<1>5. GoesOn(N, A)
  BY <1>1, <1>2, <1>3, <1>4 DEF GoesOn
<1>6. QED
  BY <1>5

(* Nobody to answer, no answer. *)
LEMMA NoReplies == \A r : Replies({}, r) = {}
  BY DEF Replies

(* Nobody is answered but those who are granted. *)
LEMMA DroppingGoesOn ==
    ASSUME NEW N, NEW W \in SUBSET (waiting \cup N), NEW H \in SUBSET held,
           NEW lim, NEW P, GrantThenSend(W, H, lim, P, {}),
           \A e \in (waiting \cup N) \ W : e.owner \in closed'
    PROVE  (\E A : GoesOn(N, A)) /\ H \subseteq held'
<1>1. PICK R, r : R = {} /\ r = "busy"
  OBVIOUS
<1>2. R \in SUBSET ((waiting \cup N) \ W) /\ r # "granted"
  BY <1>1
<1>3. \A e \in (waiting \cup N) \ W : e \in R \/ e.owner \in closed'
  OBVIOUS
<1>4. GrantThenSend(W, H, lim, P, Replies(R, r))
  BY <1>1, NoReplies
<1>5. QED
  BY <1>2, <1>3, <1>4, GrantThenSendGoesOn

(* Each operation: what it does with the waiters, and whom it lets go. *)
LEMMA AcquireGoesOn ==
    ASSUME TicketsInv, NEW c \in Conns, NEW l, NEW a, NEW r, Acquire(c, l, a, r)
    PROVE  /\ \E A : GoesOn({NewEntry(c, l, a, r)}, A)
           /\ held \subseteq held' /\ reclaimed' = reclaimed /\ closed' = closed
           /\ c \notin closed
<1> DEFINE e == NewEntry(c, l, a, r)
<1>1. e \notin waiting
  <2>1. e.ticket = issued + 1 /\ issued \in Nat
    BY QueueConstants DEF TicketsInv, TypeOK, NewEntry
  <2>2. \A w \in waiting : w.ticket <= issued
    BY DEF TicketsInv, Numbered
  <2>3. QED
    BY <2>1, <2>2
<1>2. \/ \E s : /\ s # "granted" /\ answers' = answers \cup Replies({e}, s)
                /\ waiting' = waiting /\ held' = held
      \/ GrantThenSend(waiting \cup {e}, held, Opened(l),
                       PausedStories(pausedAll, paused), {})
  BY DEF Acquire
<1>3. reclaimed' = reclaimed /\ closed' = closed /\ c \notin closed
  BY DEF Acquire
<1> HIDE DEF e
<1>4. ASSUME NEW s, s # "granted", answers' = answers \cup Replies({e}, s),
             waiting' = waiting, held' = held
      PROVE  \E A : GoesOn({e}, A)
  <2>1. {e} = (waiting \cup {e}) \ waiting'
    BY <1>1, <1>4
  <2>2. QED
    BY <1>4, <2>1, AnsweringGoesOn
<1>5. CASE GrantThenSend(waiting \cup {e}, held, Opened(l),
                         PausedStories(pausedAll, paused), {})
  <2>1. (\E A : GoesOn({e}, A)) /\ held \subseteq held'
    BY <1>5, DroppingGoesOn
  <2>2. QED
    BY <1>3, <2>1 DEF e
<1>6. QED
  BY <1>2, <1>3, <1>4, <1>5 DEF e

(* Nothing joins: the waiters W stay or are granted, the others are         *)
(* answered, and only H stays in.                                           *)
LEMMA GrantingGoesOn ==
    ASSUME NEW W \in SUBSET waiting, NEW H \in SUBSET held, NEW lim, NEW P,
           NEW r, r # "granted",
           GrantThenSend(W, H, lim, P, Replies(waiting \ W, r))
    PROVE  (\E A : GoesOn({}, A)) /\ H \subseteq held'
<1>1. waiting \cup {} = waiting
  OBVIOUS
<1>2. /\ W \in SUBSET (waiting \cup {})
      /\ waiting \ W \in SUBSET ((waiting \cup {}) \ W)
      /\ \A e \in (waiting \cup {}) \ W : e \in waiting \ W
  OBVIOUS
<1>3. QED
  BY <1>2, GrantThenSendGoesOn

(* A release takes the ticket out of the lanes, or out of the memory. *)
LEMMA ReleaseGoesOn ==
    ASSUME TicketsInv, NEW c, NEW t, Release(c, t)
    PROVE  /\ \E A : GoesOn({}, A)
           /\ \A e \in held' : ~(e.ticket = t /\ e.owner = c)
           /\ \A e \in held \ held' : e.ticket = t /\ e.owner = c
           /\ reclaimed' \subseteq reclaimed
           /\ \A e \in reclaimed \ reclaimed' :
                 e.ticket = t /\ \E f \in reclaimed : f.ticket = t /\ f.owner = c
           /\ closed' = closed /\ c \notin closed
<1>1. CASE \E e \in held :
              /\ e.ticket = t /\ e.owner = c
              /\ GrantThenSend(waiting, held \ {e}, limit,
                               PausedStories(pausedAll, paused), {})
              /\ UNCHANGED reclaimed
  <2>1. PICK e \in held :
            /\ e.ticket = t /\ e.owner = c
            /\ GrantThenSend(waiting, held \ {e}, limit,
                             PausedStories(pausedAll, paused), {})
            /\ UNCHANGED reclaimed
    BY <1>1
  <2>2. waiting \ waiting = {}
    OBVIOUS
  <2>3. GrantThenSend(waiting, held \ {e}, limit,
                      PausedStories(pausedAll, paused),
                      Replies(waiting \ waiting, "busy"))
    BY <2>1, <2>2, NoReplies
  <2>4. (\E A : GoesOn({}, A)) /\ held \ {e} \subseteq held'
    BY <2>3, GrantingGoesOn
  <2>5. \A f \in held' : f.ticket # t
    <3>1. waiting' \cup held' \subseteq waiting \cup (held \ {e})
      BY <2>1, GrantThenSendLanes
    <3>2. \A f \in waiting \cup held : f.ticket = e.ticket => f = e
      BY DEF TicketsInv, AnsweredOnce
    <3>3. e \notin waiting
      BY DEF TicketsInv, AnsweredOnce
    <3>4. QED
      BY <2>1, <3>1, <3>2, <3>3
  <2>6. QED
    BY <2>1, <2>4, <2>5 DEF Release
<1>2. CASE /\ \A e \in held : ~(e.ticket = t /\ e.owner = c)
           /\ \E e \in reclaimed : e.ticket = t /\ e.owner = c
           /\ reclaimed' = {e \in reclaimed : e.ticket # t}
           /\ UNCHANGED <<waiting, held, answers>>
  <2>1. GoesOn({}, {})
    BY <1>2 DEF GoesOn
  <2>2. QED
    BY <1>2, <2>1 DEF Release
<1>3. QED
  BY <1>1, <1>2 DEF Release

(* A cancel answers one waiter, and holds nobody up. *)
LEMMA CancelGoesOn ==
    ASSUME NEW c, NEW r, Cancel(c, r)
    PROVE  /\ \E A : GoesOn({}, A)
           /\ held \subseteq held' /\ reclaimed' = reclaimed
           /\ closed' = closed /\ c \notin closed
<1>1. PICK e \in waiting :
          GrantThenSend(waiting \ {e}, held, limit,
                        PausedStories(pausedAll, paused),
                        Replies({e}, "cancelled"))
  BY DEF Cancel
<1>2. waiting \ (waiting \ {e}) = {e}
  OBVIOUS
<1>3. GrantThenSend(waiting \ {e}, held, limit,
                    PausedStories(pausedAll, paused),
                    Replies(waiting \ (waiting \ {e}), "cancelled"))
  BY <1>1, <1>2
<1>4. (\E A : GoesOn({}, A)) /\ held \subseteq held'
  BY <1>3, GrantingGoesOn
<1>5. QED
  BY <1>4 DEF Cancel

(* A connection closed takes only its own with it. *)
LEMMA CloseGoesOn ==
    ASSUME NEW c, CloseConnection(c)
    PROVE  /\ \E A : GoesOn({}, A)
           /\ \A e \in (held \ held') \cup (reclaimed \ reclaimed') : e.owner = c
           /\ reclaimed' \subseteq reclaimed
           /\ closed' = closed \cup {c}
<1>1. PICK W, H : W = {e \in waiting : e.owner # c} /\ H = {e \in held : e.owner # c}
  OBVIOUS
<1>2. /\ closed' = closed \cup {c}
      /\ reclaimed' = {e \in reclaimed : e.owner # c}
      /\ GrantThenSend(W, H, limit, PausedStories(pausedAll, paused), {})
  BY <1>1 DEF CloseConnection
<1>3. W \in SUBSET (waiting \cup {}) /\ H \in SUBSET held
  BY <1>1
<1>4. \A e \in (waiting \cup {}) \ W : e.owner \in closed'
  BY <1>1, <1>2
<1>5. (\E A : GoesOn({}, A)) /\ H \subseteq held'
  BY <1>2, <1>3, <1>4, DroppingGoesOn
<1>6. QED
  BY <1>1, <1>2, <1>5

(* The deadline pass takes back H, and nobody else. *)
LEMMA DeadlinesGoesOn ==
    ASSUME NEW W \in SUBSET waiting, NEW H \in SUBSET held, Deadlines(W, H)
    PROVE  /\ \E A : GoesOn({}, A)
           /\ held \ held' \subseteq H
           /\ reclaimed' \in Remembered(H)
           /\ closed' = closed
<1>1. waiting \ (waiting \ W) = W
  OBVIOUS
<1>2. CASE GrantThenSend(waiting \ W, held \ H, limit,
                         PausedStories(pausedAll, paused), Replies(W, "busy"))
  <2>1. GrantThenSend(waiting \ W, held \ H, limit,
                      PausedStories(pausedAll, paused),
                      Replies(waiting \ (waiting \ W), "busy"))
    BY <1>1, <1>2
  <2>2. (\E A : GoesOn({}, A)) /\ held \ H \subseteq held'
    BY <2>1, GrantingGoesOn
  <2>3. QED
    BY <2>2 DEF Deadlines
<1>3. CASE /\ waiting' = waiting \ W
           /\ answers' = answers \cup Replies(W, "busy")
           /\ UNCHANGED held
  <2>1. W = (waiting \cup {}) \ waiting'
    BY <1>3
  <2>2. \E A : GoesOn({}, A)
    BY <1>3, <2>1, AnsweringGoesOn
  <2>3. QED
    BY <1>3, <2>2 DEF Deadlines
<1>4. QED
  BY <1>2, <1>3 DEF Deadlines

----------------------------------------------------------------------------
(* What a step of the supervisor's end does to the messages sent to it:     *)
(* none is added; an acquire that goes has joined the queue (N), a release  *)
(* that goes leaves nothing held.                                           *)
Reads(N) ==
    /\ \A c \in Conns : /\ OneAcquire(toSup'[c])
                        /\ Range(toSup'[c]) \subseteq Range(toSup[c])
    /\ \A c \in Conns \ closed' : \A x \in Range(toSup[c]) \ Range(toSup'[c]) :
          /\ x.op = "acquire" => \E e \in N : e.request = x.arg
          /\ x.op = "release" => \A e \in held' : ~(e.owner = c /\ e.ticket = x.arg)
    /\ \A e \in N : OwnEntry(e) /\ Asked(e.request) /\ ~Asked(e.request)'
    /\ \A e, f \in N : e = f

(* The workers have no part in it. *)
WorkersStand ==
    UNCHANGED <<phase, ticketOf, late, withdrawing, alive, toWorker, pool,
                wheld, wreclaimed>>

(* The supervisor's steps leave every call where it is or pass it on.       *)
LEMMA SupervisorCalls ==
    ASSUME CallsInv, NEW N, NEW A, GoesOn(N, A), Reads(N), WorkersStand,
           reclaimed' \subseteq reclaimed \cup held,
           asking' \subseteq asking \cup held,
           closed \subseteq closed'
    PROVE  /\ OwnersTold' /\ OnePlace' /\ Expected'
           /\ NoOrphanTicket' /\ NoLostCall'
<1>1. /\ \A k \in Calls : WorkerOf[k] \in Conns
      /\ OwnersTold /\ OnePlace /\ Expected
      /\ NoOrphanTicket /\ NoLostCall
  BY CallConstants DEF CallsInv
<1>2. PICK Line : Line = waiting \cup N
  OBVIOUS
<1>3. /\ waiting' \subseteq Line
      /\ answers' = answers \cup A
      /\ \A m \in A : m.entry \in Line \ waiting'
      /\ \A m, n \in A : m.entry = n.entry => m = n
      /\ \A e \in Line \ waiting' :
            e.owner \in closed' \/ \E m \in A : m.entry = e
      /\ \A e \in held' \ held : \E m \in A : m.entry = e /\ m.result = "granted"
  BY <1>2 DEF GoesOn
<1>4. \A k \in Calls :
         /\ Asked(k)' => Asked(k)
         /\ Replied(k)' <=> Replied(k)
         /\ Awaited(k)' <=> Awaited(k)
  BY <1>1 DEF Reads, Asked, Replied, Awaited, WorkersStand
<1>5. \A e \in Line : OwnEntry(e)
  BY <1>1, <1>2 DEF OwnersTold, Reads
<1>6. \A e \in Line : /\ ~Answered(e.request) /\ ~Replied(e.request)
                      /\ ~Asked(e.request)'
                      /\ UnderWay(e.request)
  <2>1. ASSUME NEW e \in waiting
        PROVE  /\ ~Answered(e.request) /\ ~Replied(e.request)
               /\ ~Asked(e.request)' /\ UnderWay(e.request)
    <3>1. e.request \in Calls /\ Waits(e.request)
      BY <1>1, <2>1 DEF OwnersTold, OwnEntry, Waits
    <3>2. ~Asked(e.request) /\ ~Answered(e.request) /\ ~Replied(e.request)
      BY <1>1, <3>1 DEF OnePlace
    <3>3. QED
      BY <1>4, <3>1, <3>2 DEF UnderWay
  <2>2. ASSUME NEW e \in N
        PROVE  /\ ~Answered(e.request) /\ ~Replied(e.request)
               /\ ~Asked(e.request)' /\ UnderWay(e.request)
    <3>1. e.request \in Calls /\ Asked(e.request) /\ ~Asked(e.request)'
      BY <2>2 DEF Reads, OwnEntry
    <3>2. ~Answered(e.request) /\ ~Replied(e.request)
      BY <1>1, <3>1 DEF OnePlace
    <3>3. QED
      BY <3>1, <3>2 DEF UnderWay
  <2>3. QED
    BY <1>2, <2>1, <2>2
<1>7. \A e, f \in Line : e.request = f.request => e = f
  <2>1. \A e, f \in waiting : e.request = f.request => e = f
    BY <1>1 DEF OnePlace
  <2>2. \A e, f \in N : e = f
    BY DEF Reads
  <2>3. ASSUME NEW e \in waiting, NEW f \in N, e.request = f.request PROVE FALSE
    <3>1. f.request \in Calls /\ Asked(f.request) /\ Waits(f.request)
      BY <2>3 DEF Reads, OwnEntry, Waits
    <3>2. QED
      BY <1>1, <3>1 DEF OnePlace
  <2>4. QED
    BY <1>2, <2>1, <2>2, <2>3
<1>8. \A m \in A : m.entry \in Line
  BY <1>3
<1>9. \A k \in Calls : Waits(k)' => \E e \in Line : e.request = k /\ e \in waiting'
  BY <1>3 DEF Waits
<1>10. \A k \in Calls : Answered(k)' =>
          Answered(k) \/ \E e \in Line : e.request = k /\ e \notin waiting'
  BY <1>3 DEF Answered
<1>11. OwnersTold'
  <2>1. \A e \in waiting' \cup held' \cup reclaimed' \cup asking' :
            e \in Line \cup held \cup reclaimed \cup asking
    BY <1>3, <1>8
  <2>2. \A m \in answers' : OwnEntry(m.entry)
    BY <1>1, <1>3, <1>5, <1>8 DEF OwnersTold
  <2>3. \A e \in waiting' \cup held' \cup reclaimed' \cup asking' : OwnEntry(e)
    BY <1>1, <1>5, <2>1 DEF OwnersTold
  <2>4. \A c \in Conns : \A x \in Range(toSup'[c]) :
            x.op # "release" => x.arg \in Calls /\ WorkerOf[x.arg] = c
    BY <1>1 DEF OwnersTold, Reads
  <2>5. \A c \in Conns : \A x \in Range(toWorker'[c]) :
            x.op = "reply" => x.call \in Calls /\ WorkerOf[x.call] = c
    BY <1>1 DEF OwnersTold, WorkersStand
  <2>6. QED
    BY <2>2, <2>3, <2>4, <2>5 DEF OwnersTold, OwnEntry
<1>12. OnePlace'
  <2>1. ASSUME NEW k \in Calls
        PROVE  /\ Asked(k)' => ~Waits(k)' /\ ~Answered(k)' /\ ~Replied(k)'
               /\ Waits(k)' => ~Answered(k)' /\ ~Replied(k)'
               /\ Answered(k)' => ~Replied(k)'
    <3>1. Asked(k) => ~Answered(k) /\ ~Replied(k)
      BY <1>1 DEF OnePlace
    <3>2. Answered(k) => ~Replied(k)
      BY <1>1 DEF OnePlace
    <3>3. Asked(k)' => ~Waits(k)' /\ ~Answered(k)' /\ ~Replied(k)'
      BY <1>4, <1>6, <1>9, <1>10, <3>1
    <3>4. Waits(k)' => ~Answered(k)' /\ ~Replied(k)'
      BY <1>4, <1>6, <1>7, <1>9, <1>10
    <3>5. Answered(k)' => ~Replied(k)'
      BY <1>4, <1>6, <1>10, <3>2
    <3>6. QED
      BY <3>3, <3>4, <3>5
  <2>2. \A e, f \in waiting' : e.request = f.request => e = f
    BY <1>3, <1>7
  <2>3. \A m, n \in answers' : m.entry.request = n.entry.request => m = n
    <3>1. \A m, n \in answers : m.entry.request = n.entry.request => m = n
      BY <1>1 DEF OnePlace
    <3>2. \A m, n \in A : m.entry.request = n.entry.request => m = n
      BY <1>3, <1>7, <1>8
    <3>3. \A m \in answers, n \in A : m.entry.request # n.entry.request
      BY <1>6, <1>8 DEF Answered
    <3>4. QED
      BY <1>3, <3>1, <3>2, <3>3
  <2>4. \A c \in Conns : OneAcquire(toSup'[c]) /\ OneReply(toWorker'[c])
    BY <1>1 DEF OnePlace, Reads, WorkersStand
  <2>5. QED
    BY <2>1, <2>2, <2>3, <2>4 DEF OnePlace
<1>13. Expected'
  <2>1. \A k \in late' : phase'[k] = "done"
    BY <1>1 DEF Expected, WorkersStand
  <2>2. ASSUME NEW k \in Calls, WorkerOf[k] \in alive', UnderWay(k)'
        PROVE  Awaited(k)'
    <3>1. UnderWay(k)
      BY <1>4, <1>6, <1>9, <1>10, <2>2 DEF UnderWay
    <3>2. WorkerOf[k] \in alive
      BY <2>2 DEF WorkersStand
    <3>3. Awaited(k)
      BY <1>1, <3>1, <3>2 DEF Expected
    <3>4. QED
      BY <1>4, <3>3
  <2>3. QED
    BY <2>1, <2>2 DEF Expected
<1>14. NoLostCall'
  <2>1. ASSUME NEW k \in Calls, Awaited(k)', Linked(WorkerOf[k])'
        PROVE  Asked(k)' \/ Waits(k)' \/ Answered(k)' \/ Replied(k)'
    <3>1. Awaited(k) /\ Linked(WorkerOf[k]) /\ WorkerOf[k] \in Conns \ closed'
      BY <1>1, <1>4, <2>1 DEF Linked, WorkersStand
    <3>2. ASSUME NEW e \in Line, e.request = k PROVE Waits(k)' \/ Answered(k)'
      <4>1. e.owner = WorkerOf[k]
        BY <1>5, <3>2 DEF OwnEntry
      <4>2. CASE e \in waiting'
        BY <3>2, <4>2 DEF Waits
      <4>3. CASE e \notin waiting'
        BY <1>3, <3>1, <3>2, <4>1, <4>3 DEF Answered
      <4>4. QED
        BY <4>2, <4>3
    <3>3. CASE Asked(k)
      <4>1. Request("acquire", k).op = "acquire" /\ Request("acquire", k).arg = k
        BY DEF Request
      <4>2. Asked(k)' \/ \E e \in N : e.request = k
        BY <3>1, <3>3, <4>1 DEF Asked, Reads
      <4>3. QED
        BY <1>2, <3>2, <4>2
    <3>4. CASE Waits(k)
      BY <1>2, <3>2, <3>4 DEF Waits
    <3>5. CASE Answered(k)
      BY <1>3, <3>5 DEF Answered
    <3>6. CASE Replied(k)
      BY <1>4, <3>6
    <3>7. QED
      BY <1>1, <3>1, <3>3, <3>4, <3>5, <3>6
         DEF NoLostCall, Awaited, Asked, Waits, Answered, Replied
  <2>2. QED
    BY <2>1 DEF NoLostCall, Awaited, Asked, Waits, Answered, Replied
<1>15. NoOrphanTicket'
  <2>1. SUFFICES ASSUME NEW e \in held', Linked(e.owner)'
                 PROVE  \/ GrantUnderWay(e.request, e.ticket)'
                        \/ InHand(e.request, e.ticket)'
                        \/ ReleaseUnderWay(e.owner, e.ticket)'
    BY DEF NoOrphanTicket
  <2>2. OwnEntry(e)
    BY <1>1, <1>3, <1>5, <1>8 DEF OwnersTold
  <2>3. Linked(e.owner) /\ e.owner \in Conns \ closed'
    BY <1>1, <2>1, <2>2 DEF Linked, WorkersStand, OwnEntry
  <2>4. CASE e \in held
    <3>1. GrantUnderWay(e.request, e.ticket) => GrantUnderWay(e.request, e.ticket)'
      BY <1>3 DEF GrantUnderWay, WorkersStand
    <3>2. InHand(e.request, e.ticket) => InHand(e.request, e.ticket)'
      BY DEF InHand, WorkersStand
    <3>3. ReleaseUnderWay(e.owner, e.ticket) => ReleaseUnderWay(e.owner, e.ticket)'
      <4>1. /\ Request("release", e.ticket).op = "release"
            /\ Request("release", e.ticket).arg = e.ticket
        BY DEF Request
      <4>2. QED
        BY <2>1, <2>3, <4>1 DEF ReleaseUnderWay, Reads
    <3>4. QED
      BY <1>1, <2>3, <2>4, <3>1, <3>2, <3>3 DEF NoOrphanTicket
  <2>5. CASE e \notin held
    <3>1. PICK m \in A : m.entry = e /\ m.result = "granted"
      BY <1>3, <2>5
    <3>2. m \in answers' /\ m.entry.request = e.request /\ TicketIn(m) = e.ticket
      BY <1>3, <3>1 DEF TicketIn
    <3>3. UnderWay(e.request) /\ WorkerOf[e.request] \in alive
      BY <1>6, <1>8, <2>2, <2>3, <3>1 DEF OwnEntry, Linked
    <3>4. Awaited(e.request)'
      BY <1>1, <1>4, <2>2, <3>3 DEF Expected, OwnEntry
    <3>5. QED
      BY <3>2, <3>4 DEF GrantUnderWay, Awaited
  <2>6. QED
    BY <2>4, <2>5
<1>16. QED
  BY <1>11, <1>12, <1>13, <1>14, <1>15

(* Whom the supervisor forgets, and whose slot it takes: of the living,     *)
(* only a ticket whose call is over is forgotten, and a thread that is on   *)
(* with its call is told (asking).                                          *)
Forgets ==
    /\ \A c \in Conns \ closed' : OneRelease(toSup[c]) => OneRelease(toSup'[c])
    /\ \A e \in (held \cup reclaimed) \ (held' \cup reclaimed') :
          Linked(e.owner)' =>
              Spent(e.request) /\ ~ReleaseUnderWay(e.owner, e.ticket)'
    /\ \A e \in held \ held' :
          Linked(e.owner)' =>
              /\ phase[e.request] \notin {"asking", "answered"}
              /\ phase[e.request] = "holding" => e \in asking'
    /\ asking \subseteq asking'

(* ... and every ticket backed, if none still out is forgotten. *)
LEMMA SupervisorSlots ==
    ASSUME CallsInv, SlotsInv, NEW N, NEW A, GoesOn(N, A), Reads(N),
           WorkersStand, Forgets, closed \subseteq closed'
    PROVE  SlotsInv'
<1>1. /\ \A k \in Calls : WorkerOf[k] \in Conns
      /\ OwnersTold /\ Expected
      /\ GrantsBacked /\ RepliesBacked /\ HandsBacked /\ ReleasesBacked
      /\ HeldHere /\ NewsTold /\ NotedHeld
  BY CallConstants DEF CallsInv, SlotsInv
<1>2. \A c : Linked(c)' => Linked(c) /\ c \notin closed' /\ c \in alive
  BY DEF Linked, WorkersStand
<1>3. /\ phase' = phase /\ ticketOf' = ticketOf /\ late' = late
      /\ toWorker' = toWorker /\ pool' = pool
      /\ wheld' = wheld /\ wreclaimed' = wreclaimed
  BY DEF WorkersStand
<1>4. \A e \in held \cup reclaimed : OwnEntry(e)
  BY <1>1 DEF OwnersTold
<1>5. \A e \in held \cup reclaimed :
          Linked(e.owner)' /\ ~Spent(e.request) => e \in held' \cup reclaimed'
  BY DEF Forgets
<1>6. \A e \in held : Linked(e.owner)' /\ phase[e.request] \in {"asking", "answered"} =>
          e \in held'
  BY DEF Forgets
<1>7. \A k \in Calls : Linked(WorkerOf[k])' /\ UnderWay(k) => ~Spent(k)
  BY <1>1, <1>2 DEF Expected, Awaited, Spent
<1>8. ASSUME NEW k \in Calls, NEW t, Linked(WorkerOf[k])'
      PROVE  /\ Backed(k, t) /\ ~Spent(k) => Backed(k, t)'
             /\ StillHeld(k, t) /\ phase[k] \in {"asking", "answered"} =>
                   StillHeld(k, t)'
  <2>1. ASSUME Backed(k, t), ~Spent(k) PROVE Backed(k, t)'
    <3>1. PICK e \in held \cup reclaimed : e.request = k /\ e.ticket = t
      BY <2>1 DEF Backed
    <3>2. e.owner = WorkerOf[k]
      BY <1>4, <3>1 DEF OwnEntry
    <3>3. e \in held' \cup reclaimed'
      BY <1>5, <1>8, <2>1, <3>1, <3>2
    <3>4. QED
      BY <3>1, <3>3 DEF Backed
  <2>2. ASSUME StillHeld(k, t), phase[k] \in {"asking", "answered"}
        PROVE  StillHeld(k, t)'
    <3>1. PICK e \in held : e.request = k /\ e.ticket = t
      BY <2>2 DEF StillHeld
    <3>2. e.owner = WorkerOf[k]
      BY <1>4, <3>1 DEF OwnEntry
    <3>3. e \in held'
      BY <1>6, <1>8, <2>2, <3>1, <3>2
    <3>4. QED
      BY <3>1, <3>3 DEF StillHeld
  <2>3. QED
    BY <2>1, <2>2
<1>9. GrantsBacked'
  <2>1. SUFFICES ASSUME NEW m \in answers', m.result = "granted",
                        Linked(m.entry.owner)'
                 PROVE  /\ m.entry \in held' \cup reclaimed'
                        /\ phase[m.entry.request] = "asking" => m.entry \in held'
    BY <1>3 DEF GrantsBacked
  <2>2. CASE m \in A
    BY <2>1, <2>2 DEF GoesOn
  <2>3. CASE m \in answers
    <3>1. OwnEntry(m.entry) /\ UnderWay(m.entry.request)
      BY <1>1, <2>3 DEF OwnersTold, UnderWay, Answered
    <3>2. Linked(WorkerOf[m.entry.request])' /\ m.entry.request \in Calls
      BY <2>1, <3>1 DEF OwnEntry
    <3>3. ~Spent(m.entry.request)
      BY <1>7, <3>1, <3>2
    <3>4. /\ m.entry \in held \cup reclaimed
          /\ phase[m.entry.request] = "asking" => m.entry \in held
      BY <1>1, <1>2, <2>1, <2>3 DEF GrantsBacked
    <3>5. QED
      BY <1>5, <1>6, <2>1, <3>3, <3>4
  <2>4. QED
    BY <2>1, <2>2, <2>3 DEF GoesOn
<1>10. RepliesBacked'
  <2>1. SUFFICES ASSUME NEW k \in Calls, NEW t \in 1..MaxTickets,
                        Reply(k, t) \in Range(toWorker[WorkerOf[k]]),
                        Linked(WorkerOf[k])'
                 PROVE  /\ Backed(k, t)'
                        /\ phase[k] = "asking" => StillHeld(k, t)'
    BY <1>3 DEF RepliesBacked
  <2>2. /\ Backed(k, t)
        /\ phase[k] = "asking" => StillHeld(k, t)
    BY <1>1, <1>2, <2>1 DEF RepliesBacked
  <2>3. UnderWay(k)
    <3>1. t \in 0..MaxTickets
      BY QueueConstants
    <3>2. QED
      BY <2>1, <3>1 DEF UnderWay, Replied
  <2>4. QED
    BY <1>7, <1>8, <2>1, <2>2, <2>3
<1>11. HandsBacked'
  <2>1. ASSUME NEW k \in Calls, InHand(k, ticketOf[k]), ticketOf[k] # 0,
               Linked(WorkerOf[k])'
        PROVE  /\ Backed(k, ticketOf[k])'
               /\ phase[k] = "answered" => StillHeld(k, ticketOf[k])'
    <3>1. /\ Backed(k, ticketOf[k])
          /\ phase[k] = "answered" => StillHeld(k, ticketOf[k])
      BY <1>1, <1>2, <2>1 DEF HandsBacked
    <3>2. ~Spent(k)
      BY <2>1 DEF InHand, Spent
    <3>3. PICK t : t = ticketOf[k]
      OBVIOUS
    <3>4. Backed(k, t)' /\ (phase[k] = "answered" => StillHeld(k, t)')
      BY <1>8, <2>1, <3>1, <3>2, <3>3
    <3>5. QED
      BY <1>3, <3>3, <3>4 DEF Backed, StillHeld
  <2>2. \A k \in Calls : phase[k] \in {"holding", "releasing"} => ticketOf[k] # 0
    BY <1>1 DEF HandsBacked
  <2>3. \A k \in Calls : InHand(k, ticketOf[k])' <=> InHand(k, ticketOf[k])
    BY <1>3 DEF InHand
  <2>4. QED
    BY <1>3, <2>1, <2>2, <2>3 DEF HandsBacked
<1>12. ReleasesBacked'
  <2>1. ASSUME NEW c \in Conns, Linked(c)'
        PROVE  OneRelease(toSup'[c])
    BY <1>1, <1>2, <2>1 DEF ReleasesBacked, Forgets
  <2>2. ASSUME NEW c \in Conns, Linked(c)', NEW t \in 1..MaxTickets,
               ReleaseUnderWay(c, t)'
        PROVE  \E e \in held' \cup reclaimed' :
                   e.ticket = t /\ e.owner = c /\ Spent(e.request)
    <3>1. ReleaseUnderWay(c, t)
      BY <2>2 DEF ReleaseUnderWay, Reads
    <3>2. PICK e \in held \cup reclaimed :
              e.ticket = t /\ e.owner = c /\ Spent(e.request)
      BY <1>1, <1>2, <2>2, <3>1 DEF ReleasesBacked
    <3>3. e \in held' \cup reclaimed'
      BY <2>2, <3>2 DEF Forgets
    <3>4. QED
      BY <3>2, <3>3
  <2>3. \A k : Spent(k)' <=> Spent(k)
    BY <1>3 DEF Spent
  <2>4. QED
    BY <2>1, <2>2, <2>3 DEF ReleasesBacked
<1>13. HeldHere' /\ NotedHeld'
  BY <1>1, <1>2, <1>3 DEF HeldHere, NotedHeld
<1>14. NewsTold'
  <2>1. SUFFICES ASSUME NEW k \in Calls, phase[k] = "holding", Linked(WorkerOf[k])'
                 PROVE  \/ StillHeld(k, ticketOf[k])'
                        \/ \E e \in asking' : e.request = k /\ e.ticket = ticketOf[k]
                        \/ Reclaimed(ticketOf[k]) \in Range(toWorker[WorkerOf[k]])
                        \/ <<WorkerOf[k], ticketOf[k]>> \in pool
                        \/ ticketOf[k] \in wreclaimed[WorkerOf[k]]
    BY <1>3 DEF NewsTold, StillHeld
  <2>2. CASE StillHeld(k, ticketOf[k])
    <3>1. PICK e \in held : e.request = k /\ e.ticket = ticketOf[k]
      BY <2>2 DEF StillHeld
    <3>2. e.owner = WorkerOf[k]
      BY <1>4, <3>1 DEF OwnEntry
    <3>3. e \in held' \/ e \in asking'
      BY <2>1, <3>1, <3>2 DEF Forgets
    <3>4. QED
      BY <1>3, <3>1, <3>3 DEF StillHeld
  <2>3. CASE \E e \in asking : e.request = k /\ e.ticket = ticketOf[k]
    BY <2>3 DEF Forgets
  <2>4. QED
    BY <1>1, <1>2, <2>1, <2>2, <2>3 DEF NewsTold
<1>15. QED
  BY <1>9, <1>10, <1>11, <1>12, <1>13, <1>14 DEF SlotsInv

----------------------------------------------------------------------------
(* The supervisor's end of the connections.  A message read was the only    *)
(* one of its kind.                                                         *)
LEMMA ReadingOne ==
    ASSUME CallsInv, NEW c \in Conns, toSup[c] # <<>>, toSup' = Drop(toSup, c),
           NEW m, m = Head(toSup[c])
    PROVE  /\ toSup' \in [Conns -> Seq(Requests)]
           /\ \A d \in Conns : /\ OneAcquire(toSup'[d])
                               /\ Range(toSup'[d]) \subseteq Range(toSup[d])
                               /\ OneRelease(toSup[d]) => OneRelease(toSup'[d])
           /\ \A d \in Conns : \A x \in Range(toSup[d]) \ Range(toSup'[d]) :
                 d = c /\ x = m
           /\ m.arg \in Nat
           /\ m.op # "release" =>
                 /\ m.arg \in Calls
                 /\ WorkerOf[m.arg] = c
           /\ m.op = "acquire" =>
                 Asked(m.arg) /\ ~Asked(m.arg)'
           /\ m.op = "release" =>
                 /\ ReleaseUnderWay(c, m.arg)
                 /\ OneRelease(toSup[c]) =>
                       ~ReleaseUnderWay(c, m.arg)'
<1>1. toSup \in [Conns -> Seq(Requests)] /\ OwnersTold /\ OnePlace
  BY DEF CallsInv, WorkersTyped
<1>2. /\ toSup' \in [Conns -> Seq(Requests)]
      /\ toSup'[c] = Tail(toSup[c])
      /\ m \in Requests /\ m \in Range(toSup[c])
      /\ Range(toSup[c]) \subseteq {m} \cup Range(toSup'[c])
      /\ \A d \in Conns \ {c} : toSup'[d] = toSup[d]
      /\ \A d \in Conns : Range(toSup'[d]) \subseteq Range(toSup[d])
  BY <1>1, DropIs
<1>3. toSup[c] \in Seq(Requests) /\ OneAcquire(toSup[c])
  BY <1>1 DEF OnePlace
<1>4. /\ OneAcquire(Tail(toSup[c]))
      /\ m.op = "acquire" => \A x \in Range(Tail(toSup[c])) :
            x.op = "acquire" => x.arg # m.arg
      /\ OneRelease(toSup[c]) =>
            /\ OneRelease(Tail(toSup[c]))
            /\ m.op = "release" => \A x \in Range(Tail(toSup[c])) :
                  x.op = "release" => x.arg # m.arg
  BY <1>3, OnceAfterTail
<1>5. \A d \in Conns : /\ OneAcquire(toSup'[d])
                       /\ OneRelease(toSup[d]) => OneRelease(toSup'[d])
  BY <1>1, <1>2, <1>4 DEF OnePlace
<1>6. \A d \in Conns : \A x \in Range(toSup[d]) \ Range(toSup'[d]) : d = c /\ x = m
  BY <1>2
<1>7. m = Request(m.op, m.arg) /\ m.arg \in Nat
  BY <1>2 DEF Requests, Request
<1>8. \A o, k : Request(o, k).op = o /\ Request(o, k).arg = k
  BY DEF Request
<1>9. m.op # "release" => m.arg \in Calls /\ WorkerOf[m.arg] = c
  BY <1>1, <1>2 DEF OwnersTold
<1>10. m.op = "acquire" => Asked(m.arg) /\ ~Asked(m.arg)'
  BY <1>2, <1>4, <1>7, <1>8, <1>9 DEF Asked
<1>11. m.op = "release" =>
          /\ ReleaseUnderWay(c, m.arg)
          /\ OneRelease(toSup[c]) => ~ReleaseUnderWay(c, m.arg)'
  BY <1>2, <1>4, <1>7, <1>8 DEF ReleaseUnderWay
<1>12. QED
  BY <1>2, <1>5, <1>6, <1>7, <1>9, <1>10, <1>11

(* What a step of the supervisor's end is, to the workers. *)
SupervisorStep ==
    /\ \E N, A : GoesOn(N, A) /\ Reads(N)
    /\ WorkersStand
    /\ reclaimed' \subseteq reclaimed \cup held
    /\ asking' \subseteq asking \cup held
    /\ closed \subseteq closed'

(* A message read and refused, or of no effect. *)
LEMMA NothingGoesOn ==
    ASSUME UNCHANGED queueVars
    PROVE  GoesOn({}, {})
  BY DEF queueVars, GoesOn

(* The selector thread takes a message: an operation, or a refusal. *)
LEMMA ReceiveStep ==
    ASSUME TicketsInv, CallsInv, NEW c \in Conns, Receive(c)
    PROVE  /\ SupervisorStep
           /\ SlotsInv => Forgets
           /\ toSup' \in [Conns -> Seq(Requests)]
           /\ asking' = asking
<1>1. PICK m : m = Head(toSup[c])
  OBVIOUS
<1>2. /\ toSup[c] # <<>> /\ toSup' = Drop(toSup, c)
      /\ WorkersStand /\ asking' = asking
  BY DEF Receive, WorkersStand
<1>3. /\ toSup' \in [Conns -> Seq(Requests)]
      /\ \A d \in Conns : /\ OneAcquire(toSup'[d])
                          /\ Range(toSup'[d]) \subseteq Range(toSup[d])
                          /\ OneRelease(toSup[d]) => OneRelease(toSup'[d])
      /\ \A d \in Conns : \A x \in Range(toSup[d]) \ Range(toSup'[d]) : d = c /\ x = m
      /\ m.arg \in Nat
      /\ m.op # "release" => m.arg \in Calls /\ WorkerOf[m.arg] = c
      /\ m.op = "acquire" => Asked(m.arg) /\ ~Asked(m.arg)'
      /\ m.op = "release" =>
            /\ ReleaseUnderWay(c, m.arg)
            /\ OneRelease(toSup[c]) => ~ReleaseUnderWay(c, m.arg)'
  BY <1>1, <1>2, ReadingOne
<1>4. \A d \in Conns : /\ OneAcquire(toSup'[d])
                        /\ Range(toSup'[d]) \subseteq Range(toSup[d])
  BY <1>3
<1>5. \A d \in Conns : \A x \in Range(toSup[d]) \ Range(toSup'[d]) : d = c /\ x = m
  BY <1>3
<1>6. ASSUME m.op # "acquire",
             m.op = "release" => \A e \in held' : ~(e.owner = c /\ e.ticket = m.arg)
      PROVE  Reads({})
  BY <1>4, <1>5, <1>6 DEF Reads
<1>7. ASSUME held \subseteq held', reclaimed' = reclaimed PROVE Forgets
  BY <1>2, <1>3, <1>7 DEF Forgets
<1>8. CASE m.op = "acquire" /\ Acquire(c, LaneOf[m.arg], AccountOf[m.arg], m.arg)
  <2>1. PICK e : e = NewEntry(c, LaneOf[m.arg], AccountOf[m.arg], m.arg)
    OBVIOUS
  <2>2. PICK A : GoesOn({e}, A)
    BY <1>8, <2>1, AcquireGoesOn
  <2>3. held \subseteq held' /\ reclaimed' = reclaimed /\ closed' = closed
    BY <1>8, AcquireGoesOn
  <2>4. e.request = m.arg /\ e.owner = c
    BY <2>1 DEF NewEntry
  <2>5. OwnEntry(e) /\ Asked(e.request) /\ ~Asked(e.request)'
    BY <1>3, <1>8, <2>4 DEF OwnEntry
  <2>6. Reads({e})
    BY <1>3, <1>8, <2>4, <2>5 DEF Reads
  <2>7. SupervisorStep
    BY <1>2, <2>2, <2>3, <2>6 DEF SupervisorStep
  <2>8. QED
    BY <1>2, <1>3, <1>7, <2>3, <2>7
<1>9. CASE m.op = "release" /\ Release(c, m.arg)
  <2>1. PICK A : GoesOn({}, A)
    BY <1>9, ReleaseGoesOn
  <2>2. /\ \A e \in held' : ~(e.ticket = m.arg /\ e.owner = c)
        /\ \A e \in held \ held' : e.ticket = m.arg /\ e.owner = c
        /\ reclaimed' \subseteq reclaimed
        /\ \A e \in reclaimed \ reclaimed' :
              e.ticket = m.arg /\ \E f \in reclaimed : f.ticket = m.arg /\ f.owner = c
        /\ closed' = closed
    BY <1>9, ReleaseGoesOn
  <2>3. Reads({})
    BY <1>9, <1>6, <2>2
  <2>4. SupervisorStep
    BY <1>2, <2>1, <2>2, <2>3 DEF SupervisorStep
  <2>5. \A e, f \in held \cup reclaimed : e.ticket = f.ticket => e = f
    BY DEF TicketsInv, AnsweredOnce
  <2>6. \A e \in (held \cup reclaimed) \ (held' \cup reclaimed') :
            e.ticket = m.arg /\ e.owner = c
    BY <2>2, <2>5
  <2>7. ASSUME SlotsInv, NEW e \in (held \cup reclaimed), e.ticket = m.arg,
               e.owner = c, Linked(e.owner)'
        PROVE  Spent(e.request) /\ ~ReleaseUnderWay(e.owner, e.ticket)'
    <3>1. Linked(c) /\ ReleasesBacked
      BY <1>2, <2>2, <2>7 DEF Linked, WorkersStand, SlotsInv
    <3>2. e.ticket \in 1..MaxTickets
      BY <2>7 DEF TicketsInv, TypeOK, Entry
    <3>3. PICK f \in held \cup reclaimed :
              f.ticket = e.ticket /\ f.owner = c /\ Spent(f.request)
      BY <1>3, <1>9, <2>7, <3>1, <3>2 DEF ReleasesBacked
    <3>4. f = e
      BY <2>5, <3>3
    <3>5. OneRelease(toSup[c])
      BY <3>1 DEF ReleasesBacked
    <3>6. QED
      BY <1>3, <1>9, <2>7, <3>3, <3>4, <3>5
  <2>8. SlotsInv => Forgets
    <3>1. SUFFICES ASSUME SlotsInv PROVE Forgets
      OBVIOUS
    <3>2. \A e \in (held \cup reclaimed) \ (held' \cup reclaimed') :
              Linked(e.owner)' =>
                  Spent(e.request) /\ ~ReleaseUnderWay(e.owner, e.ticket)'
      BY <2>6, <2>7, <3>1
    <3>3. \A e \in held \ held' : Linked(e.owner)' => Spent(e.request)
      BY <2>2, <2>7, <3>1
    <3>4. QED
      BY <1>2, <1>3, <3>2, <3>3 DEF Forgets, Spent
  <2>9. QED
    BY <1>2, <1>3, <2>4, <2>8
<1>10. CASE m.op = "release" /\ ~Known(c, m.arg) /\ UNCHANGED queueVars
  <2>1. GoesOn({}, {})
    BY <1>10, NothingGoesOn
  <2>2. /\ held' = held /\ reclaimed' = reclaimed /\ closed' = closed
        /\ \A e \in held' : ~(e.owner = c /\ e.ticket = m.arg)
    BY <1>10 DEF queueVars, Known
  <2>3. Reads({})
    BY <1>10, <1>6, <2>2
  <2>4. SupervisorStep
    BY <1>2, <2>1, <2>2, <2>3 DEF SupervisorStep
  <2>5. QED
    BY <1>2, <1>3, <1>7, <2>2, <2>4
<1>11. CASE m.op = "cancel" /\ (Cancel(c, m.arg) \/ UNCHANGED queueVars)
  <2>1. /\ \E A : GoesOn({}, A)
        /\ held \subseteq held' /\ reclaimed' = reclaimed /\ closed' = closed
    <3>1. CASE Cancel(c, m.arg)
      BY <3>1, CancelGoesOn
    <3>2. CASE UNCHANGED queueVars
      BY <3>2, NothingGoesOn DEF queueVars
    <3>3. QED
      BY <1>11, <3>1, <3>2
  <2>2. Reads({})
    BY <1>11, <1>6
  <2>3. SupervisorStep
    BY <1>2, <2>1, <2>2 DEF SupervisorStep
  <2>4. QED
    BY <1>2, <1>3, <1>7, <2>1, <2>3
<1>12. QED
  BY <1>1, <1>8, <1>9, <1>10, <1>11 DEF Receive

(* A connection lost: its messages are gone, and nobody is linked by it. *)
LEMMA SeeCloseStep ==
    ASSUME CallsInv, NEW c \in Conns, SeeClose(c)
    PROVE  /\ SupervisorStep /\ Forgets
           /\ toSup' \in [Conns -> Seq(Requests)]
           /\ asking' = asking
<1>1. /\ toSup' = [toSup EXCEPT ![c] = <<>>]
      /\ CloseConnection(c) /\ WorkersStand /\ asking' = asking
  BY DEF SeeClose, WorkersStand
<1>2. toSup \in [Conns -> Seq(Requests)] /\ OnePlace
  BY DEF CallsInv, WorkersTyped
<1>3. /\ toSup' \in [Conns -> Seq(Requests)]
      /\ toSup'[c] = <<>> /\ \A d \in Conns \ {c} : toSup'[d] = toSup[d]
  <2>1. <<>> \in Seq(Requests)
    OBVIOUS
  <2>2. QED
    BY <1>1, <1>2, <2>1
<1>4. Range(<<>>) = {} /\ OneAcquire(<<>>)
  BY DEF Range, OneAcquire
<1>5. /\ \A e \in (held \ held') \cup (reclaimed \ reclaimed') : e.owner = c
      /\ reclaimed' \subseteq reclaimed
      /\ closed' = closed \cup {c}
  BY <1>1, CloseGoesOn
<1>6. PICK A : GoesOn({}, A)
  BY <1>1, CloseGoesOn
<1>7. \A d \in Conns : OneAcquire(toSup'[d]) /\ Range(toSup'[d]) \subseteq Range(toSup[d])
  BY <1>2, <1>3, <1>4 DEF OnePlace
<1>8. \A d \in Conns \ closed' : toSup'[d] = toSup[d]
  BY <1>3, <1>5
<1>9. Reads({})
  BY <1>7, <1>8 DEF Reads
<1>10. SupervisorStep
  BY <1>1, <1>5, <1>6, <1>9 DEF SupervisorStep
<1>11. Forgets
  BY <1>1, <1>5, <1>8 DEF Forgets, Linked
<1>12. QED
  BY <1>1, <1>3, <1>10, <1>11

(* The memory of reclaimed tickets has room for all that are out: held, or  *)
(* taken back and not yet given back.                                       *)
Roomy == Cardinality(held \cup reclaimed) <= MAX_RECLAIMED

(* It then forgets none. *)
LEMMA AllRemembered ==
    ASSUME TicketsInv, Roomy, NEW H \in SUBSET held, NEW R \in Remembered(H)
    PROVE  reclaimed \cup H \subseteq R
<1>1. PICK S, T : S = held \cup reclaimed /\ T = reclaimed \cup H
  OBVIOUS
<1>2. PICK f : f = [e \in S |-> e.ticket]
  OBVIOUS
<1>3. /\ \A e \in S : e.ticket \in 1..MaxTickets
      /\ \A e, g \in S : e.ticket = g.ticket => e = g
  BY <1>1 DEF TicketsInv, TypeOK, Entry, AnsweredOnce
<1>4. f \in Injection(S, 1..MaxTickets)
  BY <1>2, <1>3 DEF Injection, IsInjective
<1>5. MaxTickets \in Nat /\ MAX_RECLAIMED \in Nat /\ Cardinality(S) <= MAX_RECLAIMED
  BY <1>1, QueueConstants DEF Roomy
<1>6. IsFiniteSet(1..MaxTickets)
  BY <1>5, FS_Interval
<1>7. IsFiniteSet(S)
  BY <1>4, <1>6, FS_Injection
<1>8. T \in SUBSET S /\ R \in SUBSET T /\ (R # T => Cardinality(R) = MAX_RECLAIMED)
  BY <1>1 DEF Remembered
<1>9. IsFiniteSet(T) /\ Cardinality(T) <= Cardinality(S)
  BY <1>7, <1>8, FS_Subset
<1>10. /\ Cardinality(R) <= Cardinality(T)
       /\ Cardinality(T) = Cardinality(R) => T = R
  BY <1>8, <1>9, FS_Subset
<1>11. Cardinality(S) \in Nat /\ Cardinality(T) \in Nat
  BY <1>7, <1>9, FS_CardinalityType
<1>12. R = T
  <2>1. CASE R # T
    <3>1. Cardinality(R) = MAX_RECLAIMED
      BY <1>8, <2>1
    <3>2. Cardinality(T) = Cardinality(R)
      BY <1>5, <1>9, <1>10, <1>11, <3>1
    <3>3. QED
      BY <1>10, <3>2
  <2>2. QED
    BY <2>1
<1>13. QED
  BY <1>1, <1>12

(* The deadline thread: every ticket it takes back is remembered, and told. *)
LEMMA ExpireStep ==
    ASSUME TicketsInv, CallsInv, NEW W \in SUBSET waiting,
           NEW H \in SUBSET LongHeld, Expire(W, H)
    PROVE  /\ SupervisorStep
           /\ Roomy => Forgets
           /\ toSup' \in [Conns -> Seq(Requests)]
           /\ asking' \subseteq Entry
<1>1. /\ Deadlines(W, H) /\ asking' = asking \cup H
      /\ WorkersStand /\ toSup' = toSup
  BY DEF Expire, WorkersStand
<1>2. H \in SUBSET held
  BY DEF LongHeld
<1>3. /\ held \ held' \subseteq H /\ reclaimed' \in Remembered(H)
      /\ closed' = closed
  BY <1>1, <1>2, DeadlinesGoesOn
<1>4. PICK A : GoesOn({}, A)
  BY <1>1, <1>2, DeadlinesGoesOn
<1>5. toSup \in [Conns -> Seq(Requests)] /\ OnePlace
  BY DEF CallsInv, WorkersTyped
<1>6. Reads({})
  BY <1>1, <1>5 DEF Reads, OnePlace
<1>7. reclaimed' \subseteq reclaimed \cup held /\ asking' \subseteq asking \cup held
  BY <1>1, <1>2, <1>3 DEF Remembered
<1>8. SupervisorStep
  BY <1>1, <1>3, <1>4, <1>6, <1>7 DEF SupervisorStep
<1>9. asking' \subseteq Entry
  BY <1>1, <1>2 DEF CallsInv, WorkersTyped, TicketsInv, TypeOK
<1>10. Roomy => Forgets
  <2>1. SUFFICES ASSUME Roomy PROVE Forgets
    OBVIOUS
  <2>2. reclaimed \cup H \subseteq reclaimed'
    BY <1>2, <1>3, <2>1, AllRemembered
  <2>3. held \cup reclaimed \subseteq held' \cup reclaimed'
    BY <1>3, <2>2
  <2>4. \A e \in held \ held' :
            /\ phase[e.request] \notin {"asking", "answered"}
            /\ e \in asking'
    BY <1>1, <1>3 DEF LongHeld
  <2>5. QED
    BY <1>1, <2>3, <2>4 DEF Forgets
<1>11. QED
  BY <1>1, <1>5, <1>8, <1>9, <1>10

(* The supervisor's steps keep both invariants. *)
LEMMA SupervisorKeeps ==
    ASSUME CallsInv, SupervisorStep,
           toSup' \in [Conns -> Seq(Requests)], asking' \subseteq Entry
    PROVE  /\ CallsInv'
           /\ SlotsInv /\ Forgets => SlotsInv'
<1>1. PICK N, A : GoesOn(N, A) /\ Reads(N)
  BY DEF SupervisorStep
<1>2. /\ WorkersStand /\ closed \subseteq closed'
      /\ reclaimed' \subseteq reclaimed \cup held
      /\ asking' \subseteq asking \cup held
  BY DEF SupervisorStep
<1>3. WorkersTyped'
  BY <1>2 DEF CallsInv, WorkersTyped, WorkersStand
<1>4. CallsInv'
  BY <1>1, <1>2, <1>3, SupervisorCalls DEF CallsInv
<1>5. SlotsInv /\ Forgets => SlotsInv'
  BY <1>1, <1>2, SupervisorSlots
<1>6. QED
  BY <1>4, <1>5

----------------------------------------------------------------------------
(* The workers' steps.  A request posted is the last of its connection.     *)
LEMMA RequestPosted ==
    ASSUME CallsInv, NEW c \in Conns, NEW o \in {"acquire", "release", "cancel"},
           NEW x \in Nat, toSup' = Post(toSup, c, Request(o, x))
    PROVE  /\ toSup' \in [Conns -> Seq(Requests)]
           /\ \A d \in Conns : Range(toSup[d]) \subseteq Range(toSup'[d])
           /\ Request(o, x) \in Range(toSup'[c])
           /\ \A d \in Conns : \A y \in Range(toSup'[d]) :
                 y \in Range(toSup[d]) \/ (d = c /\ y = Request(o, x))
           /\ \A d \in Conns :
                 /\ (o = "acquire" /\ d = c => Request(o, x) \notin Range(toSup[c]))
                       => OneAcquire(toSup'[d])
                 /\ OneRelease(toSup[d])
                       /\ (o = "release" /\ d = c => ~ReleaseUnderWay(c, x))
                       => OneRelease(toSup'[d])
<1>1. PICK m : m = Request(o, x)
  OBVIOUS
<1>2. m \in Requests /\ m.op = o /\ m.arg = x
  BY <1>1 DEF Requests, Request
<1>3. toSup \in [Conns -> Seq(Requests)] /\ OnePlace
  BY DEF CallsInv, WorkersTyped
<1>4. toSup' = Post(toSup, c, m)
  BY <1>1
<1>5. toSup \in [Conns -> Seq(Requests)] /\ m \in Requests
  BY <1>2, <1>3
<1>6. /\ Post(toSup, c, m) \in [Conns -> Seq(Requests)]
      /\ Post(toSup, c, m)[c] = Append(toSup[c], m)
      /\ Range(Post(toSup, c, m)[c]) = Range(toSup[c]) \cup {m}
      /\ \A d \in Conns \ {c} : Post(toSup, c, m)[d] = toSup[d]
      /\ \A d \in Conns : Range(toSup[d]) \subseteq Range(Post(toSup, c, m)[d])
  BY <1>5, PostIs
<1>7. /\ toSup' \in [Conns -> Seq(Requests)]
      /\ toSup'[c] = Append(toSup[c], m)
      /\ Range(toSup'[c]) = Range(toSup[c]) \cup {m}
      /\ \A d \in Conns \ {c} : toSup'[d] = toSup[d]
      /\ \A d \in Conns : Range(toSup[d]) \subseteq Range(toSup'[d])
  BY <1>4, <1>6
<1>8. \A d \in Conns : \A y \in Range(toSup[d]) : y \in Requests
  BY <1>3 DEF Range
<1>9. \A y \in Requests : y = Request(y.op, y.arg)
  BY DEF Requests, Request
<1>10. toSup[c] \in Seq(Requests) /\ OneAcquire(toSup[c])
  BY <1>3 DEF OnePlace
<1>11. (m.op = "acquire" => \A y \in Range(toSup[c]) :
           y.op = "acquire" => y.arg # m.arg)
          => OneAcquire(Append(toSup[c], m))
  BY <1>2, <1>10, OnceAfterAppend
<1>12. OneRelease(toSup[c])
          /\ (m.op = "release" => \A y \in Range(toSup[c]) :
                 y.op = "release" => y.arg # m.arg)
         => OneRelease(Append(toSup[c], m))
  BY <1>2, <1>10, OnceAfterAppend
<1>13. (o = "acquire" => m \notin Range(toSup[c])) => OneAcquire(toSup'[c])
  BY <1>1, <1>2, <1>7, <1>8, <1>9, <1>11
<1>14. OneRelease(toSup[c]) /\ (o = "release" => ~ReleaseUnderWay(c, x))
          => OneRelease(toSup'[c])
  BY <1>1, <1>2, <1>7, <1>8, <1>9, <1>12 DEF ReleaseUnderWay
<1>15. \A d \in Conns \ {c} :
          OneAcquire(toSup'[d]) /\ (OneRelease(toSup[d]) => OneRelease(toSup'[d]))
  BY <1>3, <1>7 DEF OnePlace
<1>16. QED
  BY <1>1, <1>7, <1>13, <1>14, <1>15

(* A step of a thread, of the reader or of the pool that leaves every call  *)
(* where it is between its acquire and its answer, and gives no slot up     *)
(* but by a release.                                                        *)
ThreadStep ==
    /\ UNCHANGED <<waiting, held, reclaimed, closed, answers, alive>>
    /\ WorkersTyped'
    /\ asking' \subseteq asking
    /\ \A k \in Calls : /\ Awaited(k)' <=> Awaited(k)
                        /\ Asked(k)' <=> Asked(k)
                        /\ k \in late' => phase'[k] = "done"
    /\ \A k \in Calls, t \in 0..MaxTickets :
          Reply(k, t) \in Range(toWorker'[WorkerOf[k]])
             <=> Reply(k, t) \in Range(toWorker[WorkerOf[k]])
    /\ \A c \in Conns : OneAcquire(toSup'[c]) /\ OneReply(toWorker'[c])
    /\ \A c \in Conns : \A x \in Range(toSup'[c]) :
          x.op # "release" => x.arg \in Calls /\ WorkerOf[x.arg] = c
    /\ \A c \in Conns : \A x \in Range(toWorker'[c]) :
          x.op = "reply" => x.call \in Calls /\ WorkerOf[x.call] = c
    /\ \A c \in Conns, t \in 1..MaxTickets :
          ReleaseUnderWay(c, t) => ReleaseUnderWay(c, t)'
    /\ \A k \in Calls, t \in 1..MaxTickets :
          InHand(k, t) => InHand(k, t)' \/ ReleaseUnderWay(WorkerOf[k], t)'

(* Such a step keeps every call where it is. *)
LEMMA ThreadCalls ==
    ASSUME CallsInv, TypeOK, ThreadStep
    PROVE  CallsInv'
<1>1. /\ \A k \in Calls : WorkerOf[k] \in Conns
      /\ OwnersTold /\ OnePlace /\ Expected
      /\ NoOrphanTicket /\ NoLostCall
  BY CallConstants DEF CallsInv
<1>2. /\ waiting' = waiting /\ held' = held /\ reclaimed' = reclaimed
      /\ closed' = closed /\ answers' = answers /\ alive' = alive
      /\ asking' \subseteq asking
      /\ \A k \in Calls : /\ Awaited(k)' <=> Awaited(k)
                          /\ Asked(k)' <=> Asked(k)
      /\ \A c \in Conns : OneAcquire(toSup'[c]) /\ OneReply(toWorker'[c])
  BY DEF ThreadStep
<1>3. \A k \in Calls : Replied(k)' <=> Replied(k)
  BY DEF ThreadStep, Replied
<1>4. \A k \in Calls : (Waits(k)' <=> Waits(k)) /\ (Answered(k)' <=> Answered(k))
  BY <1>2 DEF Waits, Answered
<1>5. WorkersTyped'
  BY DEF ThreadStep
<1>6. OwnersTold'
  BY <1>1, <1>2 DEF ThreadStep, OwnersTold, OwnEntry
<1>7. OnePlace'
  BY <1>1, <1>2, <1>3, <1>4 DEF OnePlace
<1>8. Expected'
  <2>1. \A k \in Calls : UnderWay(k)' <=> UnderWay(k)
    BY <1>2, <1>3, <1>4 DEF UnderWay
  <2>2. \A k \in late' : phase'[k] = "done"
    BY <1>5 DEF ThreadStep, WorkersTyped
  <2>3. QED
    BY <1>1, <1>2, <2>1, <2>2 DEF Expected
<1>9. NoLostCall'
  <2>1. \A k \in Calls : Awaited(k) /\ Linked(WorkerOf[k]) =>
            Asked(k) \/ Waits(k) \/ Answered(k) \/ Replied(k)
    BY <1>1 DEF NoLostCall, Awaited, Asked, Waits, Answered, Replied
  <2>2. \A k \in Calls : Awaited(k)' /\ Linked(WorkerOf[k])' =>
            Asked(k)' \/ Waits(k)' \/ Answered(k)' \/ Replied(k)'
    BY <1>2, <1>3, <1>4, <2>1 DEF Linked
  <2>3. QED
    BY <2>2 DEF NoLostCall, Awaited, Asked, Waits, Answered, Replied
<1>10. NoOrphanTicket'
  <2>1. SUFFICES ASSUME NEW e \in held, Linked(e.owner)
                 PROVE  \/ GrantUnderWay(e.request, e.ticket)'
                        \/ InHand(e.request, e.ticket)'
                        \/ ReleaseUnderWay(e.owner, e.ticket)'
    BY <1>2 DEF NoOrphanTicket, Linked
  <2>2. /\ e.request \in Calls /\ e.owner = WorkerOf[e.request]
        /\ e.owner \in Conns
        /\ e.ticket \in 1..MaxTickets /\ e.ticket \in 0..MaxTickets
    <3>1. e.ticket \in 1..MaxTickets
      BY DEF TypeOK, Entry
    <3>2. e.request \in Calls /\ e.owner = WorkerOf[e.request]
      BY <1>1 DEF OwnersTold, OwnEntry
    <3>3. QED
      BY <1>1, <3>1, <3>2, QueueConstants
  <2>3. GrantUnderWay(e.request, e.ticket) => GrantUnderWay(e.request, e.ticket)'
    <3>1. Awaited(e.request)' <=> Awaited(e.request)
      BY <1>2, <2>2
    <3>2. Reply(e.request, e.ticket) \in Range(toWorker[WorkerOf[e.request]]) =>
              Reply(e.request, e.ticket) \in Range(toWorker'[WorkerOf[e.request]])
      BY <2>2 DEF ThreadStep
    <3>3. QED
      BY <1>2, <3>1, <3>2 DEF GrantUnderWay, Awaited
  <2>4. InHand(e.request, e.ticket) =>
            InHand(e.request, e.ticket)' \/ ReleaseUnderWay(e.owner, e.ticket)'
    BY <2>2 DEF ThreadStep
  <2>5. ReleaseUnderWay(e.owner, e.ticket) => ReleaseUnderWay(e.owner, e.ticket)'
    BY <2>2 DEF ThreadStep
  <2>6. QED
    BY <1>1, <2>1, <2>3, <2>4, <2>5 DEF NoOrphanTicket
<1>11. QED
  BY <1>5, <1>6, <1>7, <1>8, <1>9, <1>10 DEF CallsInv

(* A ticket in hand is the supervisor's of that call, in no other hand, and *)
(* not given back yet.                                                      *)
LEMMA InHandAlone ==
    ASSUME CallsInv, SlotsInv, TicketsInv, NEW k \in Calls, Linked(WorkerOf[k]),
           InHand(k, ticketOf[k]), ticketOf[k] # 0
    PROVE  /\ ticketOf[k] \in 1..MaxTickets
           /\ ~ReleaseUnderWay(WorkerOf[k], ticketOf[k])
           /\ \A j \in Calls : InHand(j, ticketOf[k]) /\ WorkerOf[j] = WorkerOf[k] => j = k
<1>1. ticketOf[k] \in 1..MaxTickets /\ WorkerOf[k] \in Conns
  <2>1. ticketOf[k] \in 0..MaxTickets /\ MaxTickets \in Nat
    BY QueueConstants DEF CallsInv, WorkersTyped
  <2>2. QED
    BY <2>1, CallConstants
<1>2. PICK e \in held \cup reclaimed : e.request = k /\ e.ticket = ticketOf[k]
  BY DEF SlotsInv, HandsBacked, Backed
<1>3. \A f, g \in held \cup reclaimed : f.ticket = g.ticket => f = g
  BY DEF TicketsInv, AnsweredOnce
<1>4. ASSUME ReleaseUnderWay(WorkerOf[k], ticketOf[k]) PROVE FALSE
  <2>1. PICK f \in held \cup reclaimed :
            f.ticket = ticketOf[k] /\ Spent(f.request)
    BY <1>1, <1>4 DEF SlotsInv, ReleasesBacked
  <2>2. f = e
    BY <1>2, <1>3, <2>1
  <2>3. QED
    BY <1>2, <2>1, <2>2 DEF Spent, InHand
<1>5. ASSUME NEW j \in Calls, InHand(j, ticketOf[k]), WorkerOf[j] = WorkerOf[k]
      PROVE  j = k
  <2>1. ticketOf[j] = ticketOf[k] /\ InHand(j, ticketOf[j])
    BY <1>5 DEF InHand
  <2>2. PICK f \in held \cup reclaimed : f.request = j /\ f.ticket = ticketOf[j]
    BY <1>5, <2>1 DEF SlotsInv, HandsBacked, Backed
  <2>3. f = e
    BY <1>2, <1>3, <2>1, <2>2
  <2>4. QED
    BY <1>2, <2>2, <2>3
<1>6. QED
  BY <1>1, <1>4, <1>5

(* What such a step does with the tickets in hand, and whom a release is    *)
(* sent for.                                                                *)
HandsKept ==
    /\ \A k \in Calls :
          /\ phase'[k] = "asking" => phase[k] = "asking"
          /\ Spent(k) => Spent(k)'
          /\ phase'[k] \in {"answered", "holding", "releasing"} =>
                /\ phase[k] \in {"answered", "holding", "releasing"}
                /\ ticketOf'[k] = ticketOf[k]
                /\ phase'[k] = "answered" => phase[k] = "answered"
                /\ phase'[k] # "answered" => ticketOf[k] # 0
    /\ \A c \in Conns, t \in 1..MaxTickets :
          Linked(c) /\ ReleaseUnderWay(c, t)' =>
              \/ ReleaseUnderWay(c, t)
              \/ \E k \in Calls : InHand(k, t) /\ WorkerOf[k] = c /\ Spent(k)'
    /\ \A c \in Conns : Linked(c) => OneRelease(toSup'[c])

(* ... and with HandsKept, every ticket backed. *)
LEMMA ThreadSlots ==
    ASSUME CallsInv, SlotsInv, TicketsInv, ThreadStep, HandsKept,
           HeldHere', NewsTold', NotedHeld'
    PROVE  SlotsInv'
<1>1. /\ \A k \in Calls : WorkerOf[k] \in Conns
      /\ OwnersTold /\ GrantsBacked /\ RepliesBacked /\ HandsBacked
      /\ ReleasesBacked
  BY CallConstants DEF CallsInv, SlotsInv
<1>2. /\ held' = held /\ reclaimed' = reclaimed
      /\ answers' = answers /\ alive' = alive /\ closed' = closed
  BY DEF ThreadStep
<1>3. \A c : Linked(c)' <=> Linked(c)
  BY <1>2 DEF Linked
<1>4. \A k, t : (Backed(k, t)' <=> Backed(k, t)) /\ (StillHeld(k, t)' <=> StillHeld(k, t))
  BY <1>2 DEF Backed, StillHeld
<1>5. GrantsBacked'
  <2>1. \A m \in answers : m.entry.request \in Calls
    BY <1>1 DEF OwnersTold, OwnEntry
  <2>2. QED
    BY <1>1, <1>2, <1>3, <2>1 DEF GrantsBacked, HandsKept
<1>6. RepliesBacked'
  <2>1. SUFFICES ASSUME NEW k \in Calls, NEW t \in 1..MaxTickets,
                        Reply(k, t) \in Range(toWorker'[WorkerOf[k]]),
                        Linked(WorkerOf[k])
                 PROVE  /\ Backed(k, t)
                        /\ phase'[k] = "asking" => StillHeld(k, t)
    BY <1>3, <1>4 DEF RepliesBacked
  <2>2. t \in 0..MaxTickets
    BY QueueConstants
  <2>3. Reply(k, t) \in Range(toWorker[WorkerOf[k]])
    BY <2>1, <2>2 DEF ThreadStep
  <2>4. QED
    BY <1>1, <2>1, <2>3 DEF RepliesBacked, HandsKept
<1>7. HandsBacked'
  <2>1. SUFFICES ASSUME NEW k \in Calls,
                        phase'[k] \in {"answered", "holding", "releasing"}
                 PROVE  /\ phase'[k] \in {"holding", "releasing"} => ticketOf'[k] # 0
                        /\ ticketOf'[k] # 0 /\ Linked(WorkerOf[k])' =>
                              /\ Backed(k, ticketOf[k])'
                              /\ phase'[k] = "answered" => StillHeld(k, ticketOf[k])'
    BY DEF HandsBacked, InHand
  <2>2. /\ phase[k] \in {"answered", "holding", "releasing"}
        /\ ticketOf'[k] = ticketOf[k]
        /\ phase'[k] = "answered" => phase[k] = "answered"
        /\ phase'[k] # "answered" => ticketOf[k] # 0
    BY <2>1 DEF HandsKept
  <2>3. ticketOf[k] # 0 /\ Linked(WorkerOf[k]) =>
            /\ Backed(k, ticketOf[k])
            /\ phase[k] = "answered" => StillHeld(k, ticketOf[k])
    BY <1>1, <2>2 DEF HandsBacked, InHand
  <2>4. QED
    BY <1>2, <1>3, <2>2, <2>3 DEF Backed, StillHeld
<1>8. ReleasesBacked'
  <2>1. ASSUME NEW c \in Conns, Linked(c)', NEW t \in 1..MaxTickets,
               ReleaseUnderWay(c, t)'
        PROVE  \E e \in held' \cup reclaimed' :
                   e.ticket = t /\ e.owner = c /\ Spent(e.request)'
    <3>1. Linked(c)
      BY <1>3, <2>1
    <3>2. CASE ReleaseUnderWay(c, t)
      <4>1. PICK e \in held \cup reclaimed :
                e.ticket = t /\ e.owner = c /\ Spent(e.request)
        BY <1>1, <3>1, <3>2 DEF ReleasesBacked
      <4>2. e.request \in Calls
        BY <1>1 DEF OwnersTold, OwnEntry
      <4>3. QED
        BY <1>2, <4>1, <4>2 DEF HandsKept
    <3>3. ASSUME NEW k \in Calls, InHand(k, t), WorkerOf[k] = c, Spent(k)'
          PROVE  \E e \in held' \cup reclaimed' :
                     e.ticket = t /\ e.owner = c /\ Spent(e.request)'
      <4>1. ticketOf[k] = t /\ t # 0 /\ InHand(k, ticketOf[k])
        BY <3>3, QueueConstants DEF InHand
      <4>2. PICK e \in held \cup reclaimed : e.request = k /\ e.ticket = t
        BY <1>1, <3>1, <3>3, <4>1 DEF HandsBacked, Backed
      <4>3. e.owner = c
        BY <1>1, <3>3, <4>2 DEF OwnersTold, OwnEntry
      <4>4. QED
        BY <1>2, <3>3, <4>2, <4>3
    <3>4. QED
      BY <2>1, <3>1, <3>2, <3>3 DEF HandsKept
  <2>2. \A c \in Conns : Linked(c)' => OneRelease(toSup'[c])
    BY <1>3 DEF HandsKept
  <2>3. QED
    BY <2>1, <2>2 DEF ReleasesBacked
<1>9. QED
  BY <1>5, <1>6, <1>7, <1>8 DEF SlotsInv

(* A step that sends nothing. *)
LEMMA NothingSent ==
    ASSUME CallsInv, WorkersTyped',
           UNCHANGED <<toSup, toWorker, waiting, held, reclaimed, closed,
                       answers, alive, asking>>,
           \A k \in Calls : (Awaited(k)' <=> Awaited(k))
                            /\ (k \in late' => phase'[k] = "done"),
           \A k \in Calls, t \in 1..MaxTickets : InHand(k, t) => InHand(k, t)'
    PROVE  ThreadStep
<1>1. /\ \A c \in Conns : OneAcquire(toSup'[c]) /\ OneReply(toWorker'[c])
      /\ \A c \in Conns : \A x \in Range(toSup'[c]) :
            x.op # "release" => x.arg \in Calls /\ WorkerOf[x.arg] = c
      /\ \A c \in Conns : \A x \in Range(toWorker'[c]) :
            x.op = "reply" => x.call \in Calls /\ WorkerOf[x.call] = c
  BY DEF CallsInv, OnePlace, OwnersTold
<1>2. \A k \in Calls : Asked(k)' <=> Asked(k)
  BY DEF Asked
<1>3. \A c \in Conns, t \in 1..MaxTickets :
          ReleaseUnderWay(c, t) => ReleaseUnderWay(c, t)'
  BY DEF ReleaseUnderWay
<1>4. QED
  BY <1>1, <1>2, <1>3 DEF ThreadStep

(* A step that sends a release or a withdrawal. *)
LEMMA OneSent ==
    ASSUME CallsInv, WorkersTyped', NEW c \in Conns,
           NEW o \in {"release", "cancel"}, NEW x \in Nat,
           toSup' = Post(toSup, c, Request(o, x)),
           o = "cancel" => x \in Calls /\ WorkerOf[x] = c,
           UNCHANGED <<toWorker, waiting, held, reclaimed, closed, answers,
                       alive, asking>>,
           \A k \in Calls : (Awaited(k)' <=> Awaited(k))
                            /\ (k \in late' => phase'[k] = "done"),
           \A k \in Calls, t \in 1..MaxTickets :
              InHand(k, t) => InHand(k, t)' \/ ReleaseUnderWay(WorkerOf[k], t)'
    PROVE  /\ ThreadStep
           /\ \A d \in Conns, t \in Nat :
                 ReleaseUnderWay(d, t)' =>
                    ReleaseUnderWay(d, t) \/ (o = "release" /\ d = c /\ t = x)
           /\ \A d \in Conns :
                 OneRelease(toSup[d])
                    /\ (o = "release" /\ d = c => ~ReleaseUnderWay(c, x))
                 => OneRelease(toSup'[d])
<1>1. o \in {"acquire", "release", "cancel"} /\ o # "acquire"
  OBVIOUS
<1>2. /\ \A d \in Conns : Range(toSup[d]) \subseteq Range(toSup'[d])
      /\ \A d \in Conns : \A y \in Range(toSup'[d]) :
            y \in Range(toSup[d]) \/ (d = c /\ y = Request(o, x))
      /\ \A d \in Conns :
            /\ (o = "acquire" /\ d = c => Request(o, x) \notin Range(toSup[c]))
                  => OneAcquire(toSup'[d])
            /\ OneRelease(toSup[d])
                  /\ (o = "release" /\ d = c => ~ReleaseUnderWay(c, x))
                  => OneRelease(toSup'[d])
  BY <1>1, RequestPosted
<1>3. \A p, y : Request(p, y).op = p /\ Request(p, y).arg = y
  BY DEF Request
<1>4. \A k \in Calls : WorkerOf[k] \in Conns
  BY CallConstants
<1>5. \A d \in Conns : OneAcquire(toSup'[d]) /\ OneReply(toWorker'[d])
  BY <1>1, <1>2 DEF CallsInv, OnePlace
<1>6. \A d \in Conns : \A y \in Range(toSup'[d]) :
          y.op # "release" => y.arg \in Calls /\ WorkerOf[y.arg] = d
  <2>1. SUFFICES ASSUME NEW d \in Conns, NEW y \in Range(toSup'[d]), y.op # "release"
                 PROVE  y.arg \in Calls /\ WorkerOf[y.arg] = d
    OBVIOUS
  <2>2. CASE y \in Range(toSup[d])
    BY <2>1, <2>2 DEF CallsInv, OwnersTold
  <2>3. CASE d = c /\ y = Request(o, x)
    BY <1>3, <2>1, <2>3
  <2>4. QED
    BY <1>2, <2>2, <2>3
<1>7. \A d \in Conns : \A y \in Range(toWorker'[d]) :
          y.op = "reply" => y.call \in Calls /\ WorkerOf[y.call] = d
  BY DEF CallsInv, OwnersTold
<1>8. \A k \in Calls : Asked(k)' <=> Asked(k)
  BY <1>1, <1>2, <1>3, <1>4 DEF Asked
<1>9. \A d \in Conns : \A t : ReleaseUnderWay(d, t) => ReleaseUnderWay(d, t)'
  BY <1>2 DEF ReleaseUnderWay
<1>10. \A d \in Conns : \A t : ReleaseUnderWay(d, t)' =>
           ReleaseUnderWay(d, t) \/ (o = "release" /\ d = c /\ t = x)
  BY <1>2, <1>3 DEF ReleaseUnderWay
<1>11. ThreadStep
  BY <1>5, <1>6, <1>7, <1>8, <1>9 DEF ThreadStep
<1>12. QED
  BY <1>2, <1>10, <1>11

(* A step after which nobody more is on with a call, and the news are where *)
(* they were.                                                               *)
LEMMA NewsKept ==
    ASSUME SlotsInv,
           UNCHANGED <<held, closed, alive, ticketOf, toWorker, pool, asking,
                       wheld, wreclaimed>>,
           \A k \in Calls : phase'[k] = "holding" => phase[k] = "holding"
    PROVE  HeldHere' /\ NewsTold' /\ NotedHeld'
<1>1. \A c : Linked(c)' <=> Linked(c)
  BY DEF Linked
<1>2. \A k : StillHeld(k, ticketOf[k])' <=> StillHeld(k, ticketOf[k])
  BY DEF StillHeld
<1>3. HeldHere'
  BY <1>1 DEF SlotsInv, HeldHere
<1>4. NewsTold'
  BY <1>1, <1>2 DEF SlotsInv, NewsTold
<1>5. NotedHeld'
  BY DEF SlotsInv, NotedHeld
<1>6. QED
  BY <1>3, <1>4, <1>5

----------------------------------------------------------------------------
(* Each step of a thread. *)
LEMMA TakeAnswerStep ==
    ASSUME TicketsInv, CallsInv, NEW k \in Calls, TakeAnswer(k)
    PROVE  CallsInv' /\ (SlotsInv => SlotsInv')
<1>1. /\ WorkersTyped /\ Expected /\ TypeOK /\ WorkerOf[k] \in Conns
      /\ MaxTickets \in Nat
  BY CallConstants, QueueConstants DEF CallsInv, TicketsInv
<1>2. /\ phase[k] = "answered" /\ WorkerOf[k] \in alive
      /\ UNCHANGED <<waiting, held, reclaimed, closed, answers, ticketOf, late,
                     alive, toSup, toWorker, pool, asking, wreclaimed>>
      /\ \/ /\ ticketOf[k] # 0
            /\ wheld' = [wheld EXCEPT ![WorkerOf[k]] = @ \cup {ticketOf[k]}]
            /\ phase' = [phase EXCEPT ![k] = "holding"]
         \/ /\ ticketOf[k] = 0
            /\ phase' = [phase EXCEPT ![k] = "done"]
            /\ wheld' = wheld
      /\ withdrawing' = withdrawing
  BY DEF TakeAnswer, queueVars
<1>3. /\ \A j \in Calls \ {k} : phase'[j] = phase[j]
      /\ phase'[k] = IF ticketOf[k] # 0 THEN "holding" ELSE "done"
      /\ phase' \in [Calls -> Phases]
  BY <1>1, <1>2 DEF WorkersTyped, Phases
<1>4. ticketOf[k] \in Nat
  BY <1>1 DEF WorkersTyped
<1>5. WorkersTyped'
  <2>1. wheld' \in [Conns -> SUBSET Nat]
    BY <1>1, <1>2, <1>4 DEF WorkersTyped
  <2>2. QED
    BY <1>1, <1>2, <1>3, <2>1 DEF WorkersTyped
<1>6. \A j \in Calls : (Awaited(j)' <=> Awaited(j)) /\ (j \in late' => phase'[j] = "done")
  BY <1>1, <1>2, <1>3 DEF Awaited, Expected
<1>7. \A j \in Calls, t \in 1..MaxTickets : InHand(j, t) => InHand(j, t)'
  BY <1>1, <1>2, <1>3 DEF InHand
<1>8. ThreadStep
  BY <1>2, <1>5, <1>6, <1>7, NothingSent
<1>9. CallsInv'
  BY <1>1, <1>8, ThreadCalls
<1>10. ASSUME SlotsInv PROVE SlotsInv'
  <2>1. HandsKept
    <3>1. \A c \in Conns : Linked(c) => OneRelease(toSup'[c])
      BY <1>2, <1>10 DEF SlotsInv, ReleasesBacked
    <3>2. \A j \in Calls :
              /\ phase'[j] = "asking" => phase[j] = "asking"
              /\ Spent(j) => Spent(j)'
              /\ phase'[j] \in {"answered", "holding", "releasing"} =>
                    /\ phase[j] \in {"answered", "holding", "releasing"}
                    /\ ticketOf'[j] = ticketOf[j]
                    /\ phase'[j] = "answered" => phase[j] = "answered"
                    /\ phase'[j] # "answered" => ticketOf[j] # 0
      BY <1>2, <1>3, <1>10 DEF Spent, SlotsInv, HandsBacked
    <3>3. \A c, t : ReleaseUnderWay(c, t)' => ReleaseUnderWay(c, t)
      BY <1>2 DEF ReleaseUnderWay
    <3>4. QED
      BY <3>1, <3>2, <3>3 DEF HandsKept
  <2>2. \A c : Linked(c)' <=> Linked(c)
    BY <1>2 DEF Linked
  <2>3. \A c \in Conns : wheld[c] \subseteq wheld'[c]
    BY <1>1, <1>2 DEF WorkersTyped
  <2>4. phase'[k] = "holding" => ticketOf[k] \in wheld'[WorkerOf[k]]
    BY <1>1, <1>2, <1>3 DEF WorkersTyped
  <2>5. phase'[k] = "holding" /\ Linked(WorkerOf[k]) => StillHeld(k, ticketOf[k])
    BY <1>2, <1>3, <1>10 DEF SlotsInv, HandsBacked, InHand
  <2>6. \A j \in Calls : WorkerOf[j] \in Conns
    BY CallConstants
  <2>7. HeldHere'
    BY <1>2, <1>3, <1>10, <2>2, <2>3, <2>4, <2>6 DEF SlotsInv, HeldHere
  <2>8. NewsTold'
    BY <1>2, <1>3, <1>10, <2>2, <2>5 DEF SlotsInv, NewsTold, StillHeld
  <2>9. NotedHeld'
    BY <1>2, <1>10, <2>3 DEF SlotsInv, NotedHeld
  <2>10. QED
    BY <1>8, <1>10, <2>1, <2>7, <2>8, <2>9, ThreadSlots
<1>11. QED
  BY <1>9, <1>10

(* The wait ends without its answer: kept for _late, and withdrawn if the   *)
(* player left (CallOff).                                                   *)
LEMMA StopWaitingStep ==
    ASSUME TicketsInv, CallsInv, NEW k \in Calls,
           phase[k] = "asking", phase' = [phase EXCEPT ![k] = "done"],
           late' = late \cup {k}, withdrawing' \subseteq Calls,
           UNCHANGED <<queueVars, ticketOf, alive, toSup, toWorker, pool, asking,
                       wheld, wreclaimed>>
    PROVE  CallsInv' /\ (SlotsInv => SlotsInv')
<1>1. WorkersTyped /\ Expected /\ TypeOK
  BY DEF CallsInv, TicketsInv
<1>2. UNCHANGED <<waiting, held, reclaimed, closed, answers>>
  BY DEF queueVars
<1>3. /\ \A j \in Calls \ {k} : phase'[j] = phase[j]
      /\ phase'[k] = "done" /\ phase' \in [Calls -> Phases]
  BY <1>1 DEF WorkersTyped, Phases
<1>4. WorkersTyped'
  BY <1>1, <1>3 DEF WorkersTyped
<1>5. \A j \in Calls : (Awaited(j)' <=> Awaited(j)) /\ (j \in late' => phase'[j] = "done")
  BY <1>1, <1>3 DEF Awaited, Expected
<1>6. \A j \in Calls, t \in 1..MaxTickets : InHand(j, t) => InHand(j, t)'
  BY <1>3 DEF InHand
<1>7. ThreadStep
  BY <1>2, <1>4, <1>5, <1>6, NothingSent
<1>8. CallsInv'
  BY <1>1, <1>7, ThreadCalls
<1>9. ASSUME SlotsInv PROVE SlotsInv'
  <2>1. HandsKept
    <3>1. \A c \in Conns : Linked(c) => OneRelease(toSup'[c])
      BY <1>9 DEF SlotsInv, ReleasesBacked
    <3>2. \A j \in Calls :
              /\ phase'[j] = "asking" => phase[j] = "asking"
              /\ Spent(j) => Spent(j)'
              /\ phase'[j] \in {"answered", "holding", "releasing"} =>
                    /\ phase[j] \in {"answered", "holding", "releasing"}
                    /\ ticketOf'[j] = ticketOf[j]
                    /\ phase'[j] = "answered" => phase[j] = "answered"
                    /\ phase'[j] # "answered" => ticketOf[j] # 0
      BY <1>3, <1>9 DEF Spent, SlotsInv, HandsBacked
    <3>3. \A c, t : ReleaseUnderWay(c, t)' => ReleaseUnderWay(c, t)
      BY DEF ReleaseUnderWay
    <3>4. QED
      BY <3>1, <3>2, <3>3 DEF HandsKept
  <2>2. \A j \in Calls : phase'[j] = "holding" => phase[j] = "holding"
    BY <1>3
  <2>3. HeldHere' /\ NewsTold' /\ NotedHeld'
    BY <1>2, <1>9, <2>2, NewsKept
  <2>4. QED
    BY <1>7, <1>9, <2>1, <2>3, ThreadSlots
<1>10. QED
  BY <1>8, <1>9

(* A ticket in hand is given back: the release is on its way and the call   *)
(* is over.                                                                 *)
LEMMA HandBackStep ==
    ASSUME TicketsInv, CallsInv, NEW k \in Calls,
           phase[k] \in {"answered", "releasing"},
           phase[k] = "answered" => ticketOf[k] # 0,
           phase' = [phase EXCEPT ![k] = "done"],
           toSup' = Post(toSup, WorkerOf[k], Request("release", ticketOf[k])),
           UNCHANGED <<queueVars, ticketOf, late, withdrawing, alive, toWorker,
                       pool, asking, wheld, wreclaimed>>
    PROVE  CallsInv' /\ (SlotsInv => SlotsInv')
<1>1. WorkersTyped /\ Expected /\ TypeOK /\ WorkerOf[k] \in Conns
  BY CallConstants DEF CallsInv, TicketsInv
<1>2. UNCHANGED <<waiting, held, reclaimed, closed, answers>>
  BY DEF queueVars
<1>3. /\ \A j \in Calls \ {k} : phase'[j] = phase[j]
      /\ phase'[k] = "done" /\ phase' \in [Calls -> Phases]
  BY <1>1 DEF WorkersTyped, Phases
<1>4. PICK c, x : c = WorkerOf[k] /\ x = ticketOf[k]
  OBVIOUS
<1>5. /\ c \in Conns /\ x \in Nat
      /\ toSup' = Post(toSup, c, Request("release", x))
  <2>1. ticketOf[k] \in 0..MaxTickets /\ MaxTickets \in Nat
    BY <1>1, QueueConstants DEF WorkersTyped
  <2>2. QED
    BY <1>1, <1>4, <2>1
<1>6. /\ toSup' \in [Conns -> Seq(Requests)]
      /\ Request("release", x) \in Range(toSup'[c])
  <2>1. "release" \in {"acquire", "release", "cancel"}
    OBVIOUS
  <2>2. QED
    BY <1>5, <2>1, RequestPosted
<1>7. WorkersTyped'
  BY <1>1, <1>3, <1>6 DEF WorkersTyped
<1>8. k \notin late
  BY <1>1 DEF Expected
<1>9. \A j \in Calls : (Awaited(j)' <=> Awaited(j)) /\ (j \in late' => phase'[j] = "done")
  BY <1>1, <1>3 DEF Awaited, Expected
<1>10. \A j \in Calls, t \in 1..MaxTickets :
          InHand(j, t) => InHand(j, t)' \/ ReleaseUnderWay(WorkerOf[j], t)'
  BY <1>3, <1>4, <1>6 DEF InHand, ReleaseUnderWay
<1>11. /\ ThreadStep
       /\ \A d \in Conns, t \in Nat :
             ReleaseUnderWay(d, t)' =>
                ReleaseUnderWay(d, t) \/ (d = c /\ t = x)
       /\ \A d \in Conns :
             OneRelease(toSup[d]) /\ (d = c => ~ReleaseUnderWay(c, x))
             => OneRelease(toSup'[d])
  <2>1. PICK o : o = "release"
    OBVIOUS
  <2>2. /\ o \in {"release", "cancel"}
        /\ o = "cancel" => x \in Calls /\ WorkerOf[x] = c
        /\ toSup' = Post(toSup, c, Request(o, x))
    BY <1>5, <2>1
  <2>3. /\ ThreadStep
        /\ \A d \in Conns, t \in Nat :
              ReleaseUnderWay(d, t)' =>
                 ReleaseUnderWay(d, t) \/ (o = "release" /\ d = c /\ t = x)
        /\ \A d \in Conns :
              OneRelease(toSup[d])
                 /\ (o = "release" /\ d = c => ~ReleaseUnderWay(c, x))
              => OneRelease(toSup'[d])
    BY <1>2, <1>5, <1>7, <1>9, <1>10, <2>2, OneSent
  <2>4. QED
    BY <2>1, <2>3
<1>12. CallsInv'
  BY <1>1, <1>11, ThreadCalls
<1>13. ASSUME SlotsInv PROVE SlotsInv'
  <2>1. InHand(k, x) /\ Spent(k)'
    BY <1>3, <1>4, <1>8 DEF InHand, Spent
  <2>2. Linked(c) => ~ReleaseUnderWay(c, x)
    <3>1. ticketOf[k] # 0
      BY <1>13 DEF SlotsInv, HandsBacked
    <3>2. QED
      BY <1>4, <1>13, <2>1, <3>1, InHandAlone
  <2>3. \A d \in Conns : Linked(d) => OneRelease(toSup'[d])
    BY <1>11, <1>13, <2>2 DEF SlotsInv, ReleasesBacked
  <2>4. \A j \in Calls :
            /\ phase'[j] = "asking" => phase[j] = "asking"
            /\ Spent(j) => Spent(j)'
            /\ phase'[j] \in {"answered", "holding", "releasing"} =>
                  /\ phase[j] \in {"answered", "holding", "releasing"}
                  /\ ticketOf'[j] = ticketOf[j]
                  /\ phase'[j] = "answered" => phase[j] = "answered"
                  /\ phase'[j] # "answered" => ticketOf[j] # 0
    BY <1>3, <1>8, <1>13 DEF Spent, SlotsInv, HandsBacked
  <2>5. \A d \in Conns, t \in 1..MaxTickets :
            ReleaseUnderWay(d, t)' =>
               \/ ReleaseUnderWay(d, t)
               \/ InHand(k, t) /\ WorkerOf[k] = d /\ Spent(k)'
    <3>1. 1..MaxTickets \subseteq Nat
      BY QueueConstants
    <3>2. QED
      BY <1>4, <1>11, <2>1, <3>1
  <2>6. HandsKept
    BY <2>3, <2>4, <2>5 DEF HandsKept
  <2>7. \A j \in Calls : phase'[j] = "holding" => phase[j] = "holding"
    BY <1>3
  <2>8. HeldHere' /\ NewsTold' /\ NotedHeld'
    BY <1>2, <1>13, <2>7, NewsKept
  <2>9. QED
    BY <1>11, <1>13, <2>6, <2>8, ThreadSlots
<1>14. QED
  BY <1>12, <1>13

(* A refusal nobody waits for any more is dropped. *)
LEMMA DropAnswerStep ==
    ASSUME TicketsInv, CallsInv, NEW k \in Calls,
           phase[k] = "answered", ticketOf[k] = 0,
           phase' = [phase EXCEPT ![k] = "done"],
           UNCHANGED <<queueVars, ticketOf, late, withdrawing, alive, toSup,
                       toWorker, pool, asking, wheld, wreclaimed>>
    PROVE  CallsInv' /\ (SlotsInv => SlotsInv')
<1>1. WorkersTyped /\ Expected /\ TypeOK /\ MaxTickets \in Nat
  BY QueueConstants DEF CallsInv, TicketsInv
<1>2. UNCHANGED <<waiting, held, reclaimed, closed, answers>>
  BY DEF queueVars
<1>3. /\ \A j \in Calls \ {k} : phase'[j] = phase[j]
      /\ phase'[k] = "done" /\ phase' \in [Calls -> Phases]
  BY <1>1 DEF WorkersTyped, Phases
<1>4. WorkersTyped'
  BY <1>1, <1>3 DEF WorkersTyped
<1>5. \A j \in Calls : (Awaited(j)' <=> Awaited(j)) /\ (j \in late' => phase'[j] = "done")
  BY <1>1, <1>3 DEF Awaited, Expected
<1>6. \A j \in Calls, t \in 1..MaxTickets : InHand(j, t) => InHand(j, t)'
  BY <1>1, <1>3 DEF InHand
<1>7. ThreadStep
  BY <1>2, <1>4, <1>5, <1>6, NothingSent
<1>8. CallsInv'
  BY <1>1, <1>7, ThreadCalls
<1>9. ASSUME SlotsInv PROVE SlotsInv'
  <2>1. HandsKept
    <3>1. \A c \in Conns : Linked(c) => OneRelease(toSup'[c])
      BY <1>9 DEF SlotsInv, ReleasesBacked
    <3>2. \A j \in Calls :
              /\ phase'[j] = "asking" => phase[j] = "asking"
              /\ Spent(j) => Spent(j)'
              /\ phase'[j] \in {"answered", "holding", "releasing"} =>
                    /\ phase[j] \in {"answered", "holding", "releasing"}
                    /\ ticketOf'[j] = ticketOf[j]
                    /\ phase'[j] = "answered" => phase[j] = "answered"
                    /\ phase'[j] # "answered" => ticketOf[j] # 0
      BY <1>3, <1>9 DEF Spent, SlotsInv, HandsBacked
    <3>3. \A c, t : ReleaseUnderWay(c, t)' => ReleaseUnderWay(c, t)
      BY DEF ReleaseUnderWay
    <3>4. QED
      BY <3>1, <3>2, <3>3 DEF HandsKept
  <2>2. \A j \in Calls : phase'[j] = "holding" => phase[j] = "holding"
    BY <1>3
  <2>3. HeldHere' /\ NewsTold' /\ NotedHeld'
    BY <1>2, <1>9, <2>2, NewsKept
  <2>4. QED
    BY <1>7, <1>9, <2>1, <2>3, ThreadSlots
<1>10. QED
  BY <1>8, <1>9

(* The bus's timeout, whether it beats the answer or not. *)
LEMMA GiveUpStep ==
    ASSUME TicketsInv, CallsInv, NEW k \in Calls, GiveUp(k)
    PROVE  CallsInv' /\ (SlotsInv => SlotsInv')
<1>1. /\ phase' = [phase EXCEPT ![k] = "done"]
      /\ UNCHANGED <<queueVars, ticketOf, withdrawing, alive, toWorker, pool,
                     asking, wheld, wreclaimed>>
  BY DEF GiveUp
<1>2. CASE phase[k] = "asking" /\ late' = late \cup {k} /\ toSup' = toSup
  <2>1. withdrawing' \subseteq Calls
    BY <1>1 DEF CallsInv, WorkersTyped
  <2>2. QED
    BY <1>1, <1>2, <2>1, StopWaitingStep
<1>3. CASE /\ phase[k] = "answered" /\ late' = late
           /\ toSup' = GiveBack(toSup, WorkerOf[k], ticketOf[k])
  <2>1. CASE ticketOf[k] = 0
    <3>1. toSup' = toSup
      BY <1>3, <2>1 DEF GiveBack
    <3>2. QED
      BY <1>1, <1>3, <2>1, <3>1, DropAnswerStep
  <2>2. CASE ticketOf[k] # 0
    <3>1. toSup' = Post(toSup, WorkerOf[k], Request("release", ticketOf[k]))
      BY <1>3, <2>2 DEF GiveBack
    <3>2. QED
      BY <1>1, <1>3, <2>2, <3>1, HandBackStep
  <2>3. QED
    BY <2>1, <2>2
<1>4. QED
  BY <1>2, <1>3 DEF GiveUp

(* The player leaves while the call waits. *)
LEMMA CallOffStep ==
    ASSUME TicketsInv, CallsInv, NEW k \in Calls, CallOff(k)
    PROVE  CallsInv' /\ (SlotsInv => SlotsInv')
<1>1. withdrawing' \subseteq Calls
  BY DEF CallOff, CallsInv, WorkersTyped
<1>2. QED
  BY <1>1, StopWaitingStep DEF CallOff

(* A release is the ticket in hand sent back. *)
LEMMA SendReleaseStep ==
    ASSUME TicketsInv, CallsInv, NEW k \in Calls, SendRelease(k)
    PROVE  CallsInv' /\ (SlotsInv => SlotsInv')
BY HandBackStep DEF SendRelease

(* The withdrawal of a call that was called off. *)
LEMMA WithdrawStep ==
    ASSUME TicketsInv, CallsInv, NEW k \in Calls, Withdraw(k)
    PROVE  CallsInv' /\ (SlotsInv => SlotsInv')
<1>1. WorkersTyped /\ Expected /\ TypeOK /\ WorkerOf[k] \in Conns
  BY CallConstants DEF CallsInv, TicketsInv
<1>2. /\ toSup' = Post(toSup, WorkerOf[k], Request("cancel", k))
      /\ withdrawing' \subseteq withdrawing
      /\ UNCHANGED <<waiting, held, reclaimed, closed, answers>>
      /\ UNCHANGED <<phase, ticketOf, late, alive, toWorker, pool, asking,
                     wheld, wreclaimed>>
  BY DEF Withdraw, queueVars
<1>3. PICK c, o, x : c = WorkerOf[k] /\ o = "cancel" /\ x = k
  OBVIOUS
<1>4. /\ c \in Conns /\ x \in Nat /\ o \in {"release", "cancel"}
      /\ o \in {"acquire", "release", "cancel"} /\ o # "release"
      /\ o = "cancel" => x \in Calls /\ WorkerOf[x] = c
      /\ toSup' = Post(toSup, c, Request(o, x))
  BY <1>1, <1>2, <1>3, CallConstants
<1>5. toSup' \in [Conns -> Seq(Requests)]
  BY <1>4, RequestPosted
<1>6. WorkersTyped'
  BY <1>1, <1>2, <1>5 DEF WorkersTyped
<1>7. \A j \in Calls : (Awaited(j)' <=> Awaited(j)) /\ (j \in late' => phase'[j] = "done")
  BY <1>1, <1>2 DEF Awaited, Expected
<1>8. \A j \in Calls, t \in 1..MaxTickets :
          InHand(j, t) => InHand(j, t)' \/ ReleaseUnderWay(WorkerOf[j], t)'
  BY <1>2 DEF InHand
<1>9. /\ ThreadStep
      /\ \A d \in Conns, t \in Nat :
            ReleaseUnderWay(d, t)' =>
               ReleaseUnderWay(d, t) \/ (o = "release" /\ d = c /\ t = x)
      /\ \A d \in Conns :
            OneRelease(toSup[d])
               /\ (o = "release" /\ d = c => ~ReleaseUnderWay(c, x))
            => OneRelease(toSup'[d])
  BY <1>2, <1>4, <1>6, <1>7, <1>8, OneSent
<1>10. CallsInv'
  BY <1>1, <1>9, ThreadCalls
<1>11. ASSUME SlotsInv PROVE SlotsInv'
  <2>1. \A d \in Conns : Linked(d) => OneRelease(toSup'[d])
    BY <1>4, <1>9, <1>11 DEF SlotsInv, ReleasesBacked
  <2>2. \A j \in Calls :
            /\ phase'[j] = "asking" => phase[j] = "asking"
            /\ Spent(j) => Spent(j)'
            /\ phase'[j] \in {"answered", "holding", "releasing"} =>
                  /\ phase[j] \in {"answered", "holding", "releasing"}
                  /\ ticketOf'[j] = ticketOf[j]
                  /\ phase'[j] = "answered" => phase[j] = "answered"
                  /\ phase'[j] # "answered" => ticketOf[j] # 0
    BY <1>2, <1>11 DEF Spent, SlotsInv, HandsBacked
  <2>3. \A d \in Conns, t \in 1..MaxTickets :
            ReleaseUnderWay(d, t)' => ReleaseUnderWay(d, t)
    <3>1. 1..MaxTickets \subseteq Nat
      BY QueueConstants
    <3>2. QED
      BY <1>4, <1>9, <3>1
  <2>4. HandsKept
    BY <2>1, <2>2, <2>3 DEF HandsKept
  <2>5. HeldHere' /\ NewsTold' /\ NotedHeld'
    BY <1>2, <1>11, NewsKept
  <2>6. QED
    BY <1>9, <1>11, <2>4, <2>5, ThreadSlots
<1>12. QED
  BY <1>10, <1>11

(* The slot is put down: forgotten at the worker, on its way out. *)
LEMMA FinishStep ==
    ASSUME TicketsInv, CallsInv, NEW k \in Calls, Finish(k)
    PROVE  CallsInv' /\ (SlotsInv => SlotsInv')
<1>1. WorkersTyped /\ Expected /\ TypeOK /\ WorkerOf[k] \in Conns
  BY CallConstants DEF CallsInv, TicketsInv
<1>2. /\ phase[k] = "holding" /\ phase' = [phase EXCEPT ![k] = "releasing"]
      /\ wheld' = [wheld EXCEPT ![WorkerOf[k]] = @ \ {ticketOf[k]}]
      /\ wreclaimed' = [wreclaimed EXCEPT ![WorkerOf[k]] = @ \ {ticketOf[k]}]
      /\ UNCHANGED <<waiting, held, reclaimed, closed, answers>>
      /\ UNCHANGED <<ticketOf, late, withdrawing, alive, toSup, toWorker, pool,
                     asking>>
  BY DEF Finish, queueVars
<1>3. /\ \A j \in Calls \ {k} : phase'[j] = phase[j]
      /\ phase'[k] = "releasing" /\ phase' \in [Calls -> Phases]
  BY <1>1, <1>2 DEF WorkersTyped, Phases
<1>4. /\ wheld' \in [Conns -> SUBSET Nat] /\ wreclaimed' \in [Conns -> SUBSET Nat]
      /\ wheld'[WorkerOf[k]] = wheld[WorkerOf[k]] \ {ticketOf[k]}
      /\ wreclaimed'[WorkerOf[k]] = wreclaimed[WorkerOf[k]] \ {ticketOf[k]}
      /\ \A c \in Conns \ {WorkerOf[k]} :
            wheld'[c] = wheld[c] /\ wreclaimed'[c] = wreclaimed[c]
  BY <1>1, <1>2 DEF WorkersTyped
<1>5. WorkersTyped'
  BY <1>1, <1>2, <1>3, <1>4 DEF WorkersTyped
<1>6. \A j \in Calls : (Awaited(j)' <=> Awaited(j)) /\ (j \in late' => phase'[j] = "done")
  BY <1>1, <1>2, <1>3 DEF Awaited, Expected
<1>7. \A j \in Calls, t \in 1..MaxTickets : InHand(j, t) => InHand(j, t)'
  BY <1>2, <1>3 DEF InHand
<1>8. ThreadStep
  BY <1>2, <1>5, <1>6, <1>7, NothingSent
<1>9. CallsInv'
  BY <1>1, <1>8, ThreadCalls
<1>10. ASSUME SlotsInv PROVE SlotsInv'
  <2>1. HandsKept
    <3>1. \A c \in Conns : Linked(c) => OneRelease(toSup'[c])
      BY <1>2, <1>10 DEF SlotsInv, ReleasesBacked
    <3>2. \A j \in Calls :
              /\ phase'[j] = "asking" => phase[j] = "asking"
              /\ Spent(j) => Spent(j)'
              /\ phase'[j] \in {"answered", "holding", "releasing"} =>
                    /\ phase[j] \in {"answered", "holding", "releasing"}
                    /\ ticketOf'[j] = ticketOf[j]
                    /\ phase'[j] = "answered" => phase[j] = "answered"
                    /\ phase'[j] # "answered" => ticketOf[j] # 0
      BY <1>2, <1>3, <1>10 DEF Spent, SlotsInv, HandsBacked
    <3>3. \A c, t : ReleaseUnderWay(c, t)' => ReleaseUnderWay(c, t)
      BY <1>2 DEF ReleaseUnderWay
    <3>4. QED
      BY <3>1, <3>2, <3>3 DEF HandsKept
  <2>2. \A c : Linked(c)' <=> Linked(c)
    BY <1>2 DEF Linked
  <2>3. \A j \in Calls : WorkerOf[j] \in Conns
    BY CallConstants
  <2>4. \A j \in Calls : phase'[j] = "holding" => phase[j] = "holding" /\ j # k
    BY <1>3
  <2>5. ASSUME NEW j \in Calls, phase'[j] = "holding", Linked(WorkerOf[j])
        PROVE  WorkerOf[j] = WorkerOf[k] => ticketOf[j] # ticketOf[k]
    <3>1. phase[j] = "holding" /\ j # k
      BY <2>4, <2>5
    <3>2. InHand(k, ticketOf[k]) /\ ticketOf[k] # 0
      BY <1>2, <1>10 DEF InHand, SlotsInv, HandsBacked
    <3>3. ticketOf[j] = ticketOf[k] => InHand(j, ticketOf[k])
      BY <3>1 DEF InHand
    <3>4. QED
      BY <1>10, <2>5, <3>1, <3>2, <3>3, InHandAlone
  <2>6. HeldHere'
    <3>1. SUFFICES ASSUME NEW j \in Calls, phase'[j] = "holding", Linked(WorkerOf[j])
                   PROVE  ticketOf[j] \in wheld'[WorkerOf[j]]
      BY <1>2, <2>2 DEF HeldHere
    <3>2. ticketOf[j] \in wheld[WorkerOf[j]]
      BY <1>10, <2>4, <3>1 DEF SlotsInv, HeldHere
    <3>3. QED
      BY <1>4, <2>3, <2>5, <3>1, <3>2
  <2>7. NewsTold'
    <3>1. SUFFICES ASSUME NEW j \in Calls, phase'[j] = "holding", Linked(WorkerOf[j])
                   PROVE  \/ StillHeld(j, ticketOf[j])
                          \/ \E e \in asking : e.request = j /\ e.ticket = ticketOf[j]
                          \/ Reclaimed(ticketOf[j]) \in Range(toWorker[WorkerOf[j]])
                          \/ <<WorkerOf[j], ticketOf[j]>> \in pool
                          \/ ticketOf[j] \in wreclaimed'[WorkerOf[j]]
      BY <1>2, <2>2 DEF NewsTold, StillHeld
    <3>2. ticketOf[j] \in wreclaimed[WorkerOf[j]] =>
              ticketOf[j] \in wreclaimed'[WorkerOf[j]]
      BY <1>4, <2>3, <2>5, <3>1
    <3>3. QED
      BY <1>10, <2>4, <3>1, <3>2 DEF SlotsInv, NewsTold
  <2>8. NotedHeld'
    <3>1. \A c \in Conns : wreclaimed[c] \subseteq wheld[c]
      BY <1>10 DEF SlotsInv, NotedHeld
    <3>2. \A c \in Conns : wreclaimed'[c] \subseteq wheld'[c]
      BY <1>4, <3>1
    <3>3. QED
      BY <3>2 DEF NotedHeld
  <2>9. QED
    BY <1>8, <1>10, <2>1, <2>6, <2>7, <2>8, ThreadSlots
<1>11. QED
  BY <1>9, <1>10

(* The reader and the pool leave the calls and their tickets alone. *)
LEMMA HandsStand ==
    ASSUME SlotsInv, UNCHANGED <<phase, ticketOf, late, toSup>>
    PROVE  HandsKept
<1>1. \A c \in Conns : Linked(c) => OneRelease(toSup'[c])
  BY DEF SlotsInv, ReleasesBacked
<1>2. \A j \in Calls :
          /\ phase'[j] = "asking" => phase[j] = "asking"
          /\ Spent(j) => Spent(j)'
          /\ phase'[j] \in {"answered", "holding", "releasing"} =>
                /\ phase[j] \in {"answered", "holding", "releasing"}
                /\ ticketOf'[j] = ticketOf[j]
                /\ phase'[j] = "answered" => phase[j] = "answered"
                /\ phase'[j] # "answered" => ticketOf[j] # 0
  BY DEF Spent, SlotsInv, HandsBacked
<1>3. \A c, t : ReleaseUnderWay(c, t)' => ReleaseUnderWay(c, t)
  BY DEF ReleaseUnderWay
<1>4. QED
  BY <1>1, <1>2, <1>3 DEF HandsKept

(* A step of the reader or the pool, or news told to a worker. *)
LEMMA NewsMoved ==
    ASSUME CallsInv, WorkersTyped', asking' \subseteq asking,
           UNCHANGED <<phase, ticketOf, late, alive, toSup, waiting, held,
                       reclaimed, closed, answers>>,
           \A c \in Conns : OneReply(toWorker'[c]),
           \A c \in Conns : \A x \in News : x.op = "reply" =>
              (x \in Range(toWorker'[c]) <=> x \in Range(toWorker[c]))
    PROVE  ThreadStep
<1>1. /\ OwnersTold /\ OnePlace /\ Expected
      /\ \A k \in Calls : WorkerOf[k] \in Conns
      /\ Calls \subseteq Nat
  BY CallConstants DEF CallsInv
<1>2. \A c \in Conns : Range(toWorker'[c]) \subseteq News
  BY DEF WorkersTyped, Range
<1>3. \A k \in Calls, t \in 0..MaxTickets : Reply(k, t) \in News /\ Reply(k, t).op = "reply"
  BY <1>1 DEF Reply, News
<1>4. \A k \in Calls, t \in 0..MaxTickets :
          Reply(k, t) \in Range(toWorker'[WorkerOf[k]])
             <=> Reply(k, t) \in Range(toWorker[WorkerOf[k]])
  BY <1>1, <1>3
<1>5. \A c \in Conns : OneAcquire(toSup'[c]) /\ OneReply(toWorker'[c])
  BY <1>1 DEF OnePlace
<1>6. \A c \in Conns : \A x \in Range(toSup'[c]) :
          x.op # "release" => x.arg \in Calls /\ WorkerOf[x.arg] = c
  BY <1>1 DEF OwnersTold
<1>7. \A c \in Conns : \A x \in Range(toWorker'[c]) :
          x.op = "reply" => x.call \in Calls /\ WorkerOf[x.call] = c
  BY <1>1, <1>2 DEF OwnersTold
<1>8. \A k \in Calls : /\ Awaited(k)' <=> Awaited(k)
                       /\ Asked(k)' <=> Asked(k)
                       /\ k \in late' => phase'[k] = "done"
  BY <1>1 DEF Awaited, Asked, Expected
<1>9. /\ \A k \in Calls, t \in 1..MaxTickets : InHand(k, t) => InHand(k, t)'
      /\ \A c \in Conns, t \in 1..MaxTickets :
            ReleaseUnderWay(c, t) => ReleaseUnderWay(c, t)'
  BY DEF InHand, ReleaseUnderWay
<1>10. QED
  BY <1>4, <1>5, <1>6, <1>7, <1>8, <1>9 DEF ThreadStep

(* What a worker reads of its connection, and what is posted to it. *)
LEMMA NewsRead ==
    ASSUME CallsInv, NEW c \in Conns, toWorker[c] # <<>>,
           toWorker' = Drop(toWorker, c), NEW m, m = Head(toWorker[c])
    PROVE  /\ toWorker' \in [Conns -> Seq(News)]
           /\ m \in News
           /\ \A d \in Conns : /\ OneReply(toWorker'[d])
                               /\ Range(toWorker'[d]) \subseteq Range(toWorker[d])
           /\ \A d \in Conns : \A x \in Range(toWorker[d]) \ Range(toWorker'[d]) :
                 d = c /\ x = m
           /\ m.op = "reply" =>
                 /\ m.call \in Calls /\ WorkerOf[m.call] = c
                 /\ m = Reply(m.call, m.ticket)
                 /\ Replied(m.call) /\ ~Replied(m.call)'
<1>1. toWorker \in [Conns -> Seq(News)] /\ OwnersTold /\ OnePlace
  BY DEF CallsInv, WorkersTyped
<1>2. /\ toWorker' \in [Conns -> Seq(News)]
      /\ toWorker'[c] = Tail(toWorker[c])
      /\ m \in News /\ m \in Range(toWorker[c])
      /\ Range(toWorker[c]) \subseteq {m} \cup Range(toWorker'[c])
      /\ \A d \in Conns \ {c} : toWorker'[d] = toWorker[d]
      /\ \A d \in Conns : Range(toWorker'[d]) \subseteq Range(toWorker[d])
  BY <1>1, DropIs
<1>3. toWorker[c] \in Seq(News) /\ OneReply(toWorker[c])
  BY <1>1 DEF OnePlace
<1>4. /\ OneReply(Tail(toWorker[c]))
      /\ m.op = "reply" => \A x \in Range(Tail(toWorker[c])) :
            x.op = "reply" => x.call # m.call
  BY <1>3, OnceAfterTail
<1>5. \A d \in Conns : OneReply(toWorker'[d])
  BY <1>1, <1>2, <1>4 DEF OnePlace
<1>6. \A d \in Conns : \A x \in Range(toWorker[d]) \ Range(toWorker'[d]) : d = c /\ x = m
  BY <1>2
<1>7. m.op = "reply" => m = Reply(m.call, m.ticket) /\ m.ticket \in 0..MaxTickets
  BY <1>2 DEF News, Reply
<1>8. m.op = "reply" => m.call \in Calls /\ WorkerOf[m.call] = c
  BY <1>1, <1>2 DEF OwnersTold
<1>9. \A k, t : Reply(k, t).op = "reply" /\ Reply(k, t).call = k
  BY DEF Reply
<1>10. m.op = "reply" => Replied(m.call) /\ ~Replied(m.call)'
  <2>1. SUFFICES ASSUME m.op = "reply" PROVE Replied(m.call) /\ ~Replied(m.call)'
    OBVIOUS
  <2>2. PICK k, u : k = m.call /\ u = m.ticket
    OBVIOUS
  <2>3. u \in 0..MaxTickets /\ m = Reply(k, u) /\ WorkerOf[k] = c
    BY <1>7, <1>8, <2>1, <2>2
  <2>4. Replied(k)
    BY <1>2, <2>3 DEF Replied
  <2>5. \A t : Reply(k, t) \notin Range(toWorker'[c])
    BY <1>2, <1>4, <1>9, <2>1, <2>2
  <2>6. ~Replied(k)'
    BY <2>3, <2>5 DEF Replied
  <2>7. QED
    BY <2>2, <2>4, <2>6
<1>11. QED
  BY <1>2, <1>5, <1>6, <1>7, <1>8, <1>10

(* What is posted to a worker comes last, if its connection is open. *)
LEMMA NewsPosted ==
    ASSUME CallsInv, NEW c \in Conns, NEW m \in News,
           toWorker' = IF c \in closed THEN toWorker ELSE Post(toWorker, c, m),
           m.op = "reply" => \A x \in Range(toWorker[c]) :
              x.op = "reply" => x.call # m.call
    PROVE  /\ toWorker' \in [Conns -> Seq(News)]
           /\ \A d \in Conns : Range(toWorker[d]) \subseteq Range(toWorker'[d])
           /\ \A d \in Conns : \A x \in Range(toWorker'[d]) :
                 x \in Range(toWorker[d]) \/ (d = c /\ x = m /\ c \notin closed)
           /\ c \notin closed => m \in Range(toWorker'[c])
           /\ \A d \in Conns : OneReply(toWorker'[d])
<1>1. toWorker \in [Conns -> Seq(News)] /\ \A d \in Conns : OneReply(toWorker[d])
  BY DEF CallsInv, WorkersTyped, OnePlace
<1>2. CASE c \in closed
  BY <1>1, <1>2
<1>3. CASE c \notin closed
  <2>1. /\ Post(toWorker, c, m) \in [Conns -> Seq(News)]
        /\ Post(toWorker, c, m)[c] = Append(toWorker[c], m)
        /\ Range(Post(toWorker, c, m)[c]) = Range(toWorker[c]) \cup {m}
        /\ \A d \in Conns \ {c} : Post(toWorker, c, m)[d] = toWorker[d]
        /\ \A d \in Conns : Range(toWorker[d]) \subseteq Range(Post(toWorker, c, m)[d])
    BY <1>1, PostIs
  <2>2. OneReply(Append(toWorker[c], m))
    <3>1. toWorker[c] \in Seq(News) /\ OneReply(toWorker[c])
      BY <1>1
    <3>2. QED
      BY <3>1, OnceAfterAppend
  <2>3. toWorker' = Post(toWorker, c, m)
    BY <1>3
  <2>4. \A d \in Conns : OneReply(toWorker'[d])
    BY <1>1, <2>1, <2>2, <2>3
  <2>5. QED
    BY <1>3, <2>1, <2>3, <2>4
<1>4. QED
  BY <1>2, <1>3

(* A reclaim read goes to the pool: the news are one place further. *)
LEMMA ReadReclaimStep ==
    ASSUME TicketsInv, CallsInv, NEW c \in Conns, ReadReclaim(c)
    PROVE  CallsInv' /\ (SlotsInv => SlotsInv')
<1>1. WorkersTyped /\ TypeOK /\ OnePlace
  BY DEF CallsInv, TicketsInv
<1>2. PICK m : m = Head(toWorker[c])
  OBVIOUS
<1>3. /\ toWorker[c] # <<>> /\ m.op = "reclaimed"
      /\ pool' = pool \cup {<<c, m.ticket>>}
      /\ toWorker' = Drop(toWorker, c)
      /\ UNCHANGED <<waiting, held, reclaimed, closed, answers>>
      /\ UNCHANGED <<phase, ticketOf, late, withdrawing, alive, toSup, asking,
                     wheld, wreclaimed>>
  BY <1>2 DEF ReadReclaim, queueVars
<1>4. /\ toWorker' \in [Conns -> Seq(News)]
      /\ m \in News
      /\ \A d \in Conns : /\ OneReply(toWorker'[d])
                          /\ Range(toWorker'[d]) \subseteq Range(toWorker[d])
      /\ \A d \in Conns : \A x \in Range(toWorker[d]) \ Range(toWorker'[d]) :
            d = c /\ x = m
  BY <1>2, <1>3, NewsRead
<1>5. \A d \in Conns : OneReply(toWorker'[d])
  BY <1>4
<1>6. \A d \in Conns : \A x \in News : x.op = "reply" =>
          (x \in Range(toWorker'[d]) <=> x \in Range(toWorker[d]))
  BY <1>3, <1>4
<1>7. pool' \subseteq Conns \X Nat
  <2>1. m.ticket \in Nat
    BY <1>4, QueueConstants DEF News
  <2>2. QED
    BY <1>1, <1>3, <2>1 DEF WorkersTyped
<1>8. WorkersTyped'
  BY <1>1, <1>3, <1>4, <1>7 DEF WorkersTyped
<1>9. ThreadStep
  <2>1. asking' \subseteq asking
    BY <1>3
  <2>2. QED
    BY <1>3, <1>5, <1>6, <1>8, <2>1, NewsMoved
<1>10. CallsInv'
  BY <1>1, <1>9, ThreadCalls
<1>11. ASSUME SlotsInv PROVE SlotsInv'
  <2>1. HandsKept
    BY <1>3, <1>11, HandsStand
  <2>2. \A d : Linked(d)' <=> Linked(d)
    BY <1>3 DEF Linked
  <2>3. HeldHere' /\ NotedHeld'
    BY <1>3, <1>11, <2>2 DEF SlotsInv, HeldHere, NotedHeld
  <2>4. ASSUME NEW j \in Calls, NEW t, Reclaimed(t) \in Range(toWorker[WorkerOf[j]])
        PROVE  Reclaimed(t) \in Range(toWorker'[WorkerOf[j]])
                  \/ <<WorkerOf[j], t>> \in pool'
    <3>1. WorkerOf[j] \in Conns /\ Reclaimed(t).ticket = t
      BY CallConstants DEF Reclaimed
    <3>2. QED
      BY <1>3, <1>4, <2>4, <3>1
  <2>5. NewsTold'
    <3>1. SUFFICES ASSUME NEW j \in Calls, phase[j] = "holding", Linked(WorkerOf[j])
                   PROVE  \/ StillHeld(j, ticketOf[j])
                          \/ \E e \in asking : e.request = j /\ e.ticket = ticketOf[j]
                          \/ Reclaimed(ticketOf[j]) \in Range(toWorker'[WorkerOf[j]])
                          \/ <<WorkerOf[j], ticketOf[j]>> \in pool'
                          \/ ticketOf[j] \in wreclaimed[WorkerOf[j]]
      BY <1>3, <2>2 DEF NewsTold, StillHeld
    <3>2. QED
      BY <1>3, <1>11, <2>4, <3>1 DEF SlotsInv, NewsTold
  <2>6. QED
    BY <1>9, <1>11, <2>1, <2>3, <2>5, ThreadSlots
<1>12. QED
  BY <1>10, <1>11

(* The pool notes a reclaim of a ticket held here; HeldHere says it is. *)
LEMMA NoteReclaimStep ==
    ASSUME TicketsInv, CallsInv, NEW c \in Conns, NEW t \in Nat, NoteReclaim(c, t)
    PROVE  CallsInv' /\ (SlotsInv => SlotsInv')
<1>1. WorkersTyped /\ TypeOK /\ OnePlace
  BY DEF CallsInv, TicketsInv
<1>2. /\ pool' = pool \ {<<c, t>>}
      /\ wreclaimed' = IF t \in wheld[c]
                       THEN [wreclaimed EXCEPT ![c] = @ \cup {t}]
                       ELSE wreclaimed
      /\ UNCHANGED <<waiting, held, reclaimed, closed, answers>>
      /\ UNCHANGED <<phase, ticketOf, late, withdrawing, alive, toSup, toWorker,
                     asking, wheld>>
  BY DEF NoteReclaim, queueVars
<1>3. /\ wreclaimed' \in [Conns -> SUBSET Nat]
      /\ t \in wheld[c] => t \in wreclaimed'[c]
      /\ \A d \in Conns : wreclaimed[d] \subseteq wreclaimed'[d]
      /\ \A d \in Conns, u \in Nat : u \in wreclaimed'[d] =>
            u \in wreclaimed[d] \/ (d = c /\ u = t /\ t \in wheld[c])
  BY <1>1, <1>2 DEF WorkersTyped
<1>4. WorkersTyped'
  BY <1>1, <1>2, <1>3 DEF WorkersTyped
<1>5. ThreadStep
  <2>1. \A d \in Conns : OneReply(toWorker'[d])
    BY <1>1, <1>2 DEF OnePlace
  <2>2. QED
    BY <1>2, <1>4, <2>1, NewsMoved
<1>6. CallsInv'
  BY <1>1, <1>5, ThreadCalls
<1>7. ASSUME SlotsInv PROVE SlotsInv'
  <2>1. HandsKept
    BY <1>2, <1>7, HandsStand
  <2>2. \A d : Linked(d)' <=> Linked(d)
    BY <1>2 DEF Linked
  <2>3. HeldHere'
    BY <1>2, <1>7, <2>2 DEF SlotsInv, HeldHere
  <2>4. NotedHeld'
    <3>1. \A d \in Conns : wreclaimed[d] \subseteq wheld[d] /\ wreclaimed'[d] \subseteq Nat
      BY <1>3, <1>7 DEF SlotsInv, NotedHeld
    <3>2. QED
      BY <1>2, <1>3, <3>1 DEF NotedHeld
  <2>5. NewsTold'
    <3>1. SUFFICES ASSUME NEW j \in Calls, phase[j] = "holding", Linked(WorkerOf[j])
                   PROVE  \/ StillHeld(j, ticketOf[j])
                          \/ \E e \in asking : e.request = j /\ e.ticket = ticketOf[j]
                          \/ Reclaimed(ticketOf[j]) \in Range(toWorker[WorkerOf[j]])
                          \/ <<WorkerOf[j], ticketOf[j]>> \in pool'
                          \/ ticketOf[j] \in wreclaimed'[WorkerOf[j]]
      BY <1>2, <2>2 DEF NewsTold, StillHeld
    <3>2. ticketOf[j] \in wheld[WorkerOf[j]] /\ WorkerOf[j] \in Conns
      BY <1>7, <3>1, CallConstants DEF SlotsInv, HeldHere
    <3>3. <<WorkerOf[j], ticketOf[j]>> \in pool =>
              \/ <<WorkerOf[j], ticketOf[j]>> \in pool'
              \/ ticketOf[j] \in wreclaimed'[WorkerOf[j]]
      BY <1>2, <1>3, <3>2
    <3>4. ticketOf[j] \in wreclaimed[WorkerOf[j]] =>
              ticketOf[j] \in wreclaimed'[WorkerOf[j]]
      BY <1>3, <3>2
    <3>5. QED
      BY <1>7, <3>1, <3>3, <3>4 DEF SlotsInv, NewsTold
  <2>6. QED
    BY <1>5, <1>7, <2>1, <2>3, <2>4, <2>5, ThreadSlots
<1>8. QED
  BY <1>6, <1>7

(* The news of a reclaim go out to its owner, if it is still there. *)
LEMMA TellReclaimedStep ==
    ASSUME TicketsInv, CallsInv, NEW e, TellReclaimed(e)
    PROVE  CallsInv' /\ (SlotsInv => SlotsInv')
<1>1. WorkersTyped /\ TypeOK /\ OnePlace /\ OwnersTold
  BY DEF CallsInv, TicketsInv
<1>2. PICK c, m : c = e.owner /\ m = Reclaimed(e.ticket)
  OBVIOUS
<1>3. /\ e \in asking /\ asking' = asking \ {e}
      /\ toWorker' = IF c \in closed THEN toWorker ELSE Post(toWorker, c, m)
      /\ UNCHANGED <<waiting, held, reclaimed, closed, answers>>
      /\ UNCHANGED <<phase, ticketOf, late, withdrawing, alive, toSup, pool,
                     wheld, wreclaimed>>
  BY <1>2 DEF TellReclaimed, queueVars
<1>4. /\ e.request \in Calls /\ c = WorkerOf[e.request] /\ c \in Conns
      /\ m \in News /\ m.op = "reclaimed"
  <2>1. e.request \in Calls /\ c = WorkerOf[e.request]
    BY <1>1, <1>2, <1>3 DEF OwnersTold, OwnEntry
  <2>2. e.ticket \in 0..MaxTickets
    <3>1. e.ticket \in 1..MaxTickets
      BY <1>1, <1>3 DEF WorkersTyped, Entry
    <3>2. QED
      BY <3>1, QueueConstants
  <2>3. Reclaimed(e.ticket) \in News /\ Reclaimed(e.ticket).op = "reclaimed"
    <3>1. "reclaimed" \in {"reply", "reclaimed"} /\ 0 \in Nat
      OBVIOUS
    <3>2. QED
      BY <2>2, <3>1 DEF Reclaimed, News
  <2>4. c \in Conns
    BY <2>1, CallConstants
  <2>5. QED
    BY <1>2, <2>1, <2>3, <2>4
<1>5. /\ toWorker' \in [Conns -> Seq(News)]
      /\ \A d \in Conns : Range(toWorker[d]) \subseteq Range(toWorker'[d])
      /\ \A d \in Conns : \A x \in Range(toWorker'[d]) :
            x \in Range(toWorker[d]) \/ (d = c /\ x = m /\ c \notin closed)
      /\ c \notin closed => m \in Range(toWorker'[c])
      /\ \A d \in Conns : OneReply(toWorker'[d])
  BY <1>3, <1>4, NewsPosted
<1>6. WorkersTyped'
  BY <1>1, <1>3, <1>5 DEF WorkersTyped
<1>7. ThreadStep
  <2>1. \A d \in Conns : \A x \in News : x.op = "reply" =>
            (x \in Range(toWorker'[d]) <=> x \in Range(toWorker[d]))
    BY <1>4, <1>5
  <2>2. asking' \subseteq asking
    BY <1>3
  <2>3. QED
    BY <1>3, <1>5, <1>6, <2>1, <2>2, NewsMoved
<1>8. CallsInv'
  BY <1>1, <1>7, ThreadCalls
<1>9. ASSUME SlotsInv PROVE SlotsInv'
  <2>1. HandsKept
    BY <1>3, <1>9, HandsStand
  <2>2. \A d : Linked(d)' <=> Linked(d)
    BY <1>3 DEF Linked
  <2>3. HeldHere' /\ NotedHeld'
    BY <1>3, <1>9, <2>2 DEF SlotsInv, HeldHere, NotedHeld
  <2>4. NewsTold'
    <3>1. SUFFICES ASSUME NEW j \in Calls, phase[j] = "holding", Linked(WorkerOf[j])
                   PROVE  \/ StillHeld(j, ticketOf[j])
                          \/ \E f \in asking' : f.request = j /\ f.ticket = ticketOf[j]
                          \/ Reclaimed(ticketOf[j]) \in Range(toWorker'[WorkerOf[j]])
                          \/ <<WorkerOf[j], ticketOf[j]>> \in pool
                          \/ ticketOf[j] \in wreclaimed[WorkerOf[j]]
      BY <1>3, <2>2 DEF NewsTold, StillHeld
    <3>2. ASSUME NEW f \in asking, f.request = j, f.ticket = ticketOf[j]
          PROVE  \/ f \in asking'
                 \/ Reclaimed(ticketOf[j]) \in Range(toWorker'[WorkerOf[j]])
      <4>1. CASE f = e
        <5>1. c = WorkerOf[j] /\ c \notin closed
          BY <1>4, <3>1, <3>2, <4>1 DEF Linked
        <5>2. QED
          BY <1>2, <1>5, <3>2, <4>1, <5>1
      <4>2. CASE f # e
        BY <1>3, <3>2, <4>2
      <4>3. QED
        BY <4>1, <4>2
    <3>3. Reclaimed(ticketOf[j]) \in Range(toWorker[WorkerOf[j]]) =>
              Reclaimed(ticketOf[j]) \in Range(toWorker'[WorkerOf[j]])
      BY <1>5, CallConstants
    <3>4. QED
      BY <1>9, <3>1, <3>2, <3>3 DEF SlotsInv, NewsTold
  <2>5. QED
    BY <1>7, <1>9, <2>1, <2>3, <2>4, ThreadSlots
<1>10. QED
  BY <1>8, <1>9

(* A call is made: nothing of it was under way. *)
LEMMA AskStep ==
    ASSUME TicketsInv, CallsInv, NEW k \in Calls, Ask(k)
    PROVE  CallsInv' /\ (SlotsInv => SlotsInv')
<1>1. /\ WorkersTyped /\ OwnersTold /\ OnePlace /\ Expected
      /\ NoOrphanTicket /\ NoLostCall /\ TypeOK
      /\ \A j \in Calls : WorkerOf[j] \in Conns
      /\ Calls \subseteq Nat
  BY CallConstants DEF CallsInv, TicketsInv
<1>2. PICK c : c = WorkerOf[k]
  OBVIOUS
<1>3. /\ c \in alive /\ c \in Conns /\ phase[k] = "new"
      /\ phase' = [phase EXCEPT ![k] = "asking"]
      /\ toSup' = Post(toSup, c, Request("acquire", k))
      /\ UNCHANGED <<waiting, held, reclaimed, closed, answers>>
      /\ UNCHANGED <<ticketOf, late, withdrawing, alive, toWorker, pool, asking,
                     wheld, wreclaimed>>
  BY <1>1, <1>2 DEF Ask, queueVars
<1>4. /\ \A j \in Calls \ {k} : phase'[j] = phase[j]
      /\ phase'[k] = "asking" /\ phase' \in [Calls -> Phases]
  BY <1>1, <1>3 DEF WorkersTyped, Phases
<1>5. ~UnderWay(k)
  BY <1>1, <1>2, <1>3 DEF Expected, Awaited
<1>6. \A p, y : Request(p, y).op = p /\ Request(p, y).arg = y
  BY DEF Request
<1>7. /\ toSup' \in [Conns -> Seq(Requests)]
      /\ \A d \in Conns : Range(toSup[d]) \subseteq Range(toSup'[d])
      /\ Request("acquire", k) \in Range(toSup'[c])
      /\ \A d \in Conns : \A y \in Range(toSup'[d]) :
            y \in Range(toSup[d]) \/ (d = c /\ y = Request("acquire", k))
      /\ \A d \in Conns :
            /\ Request("acquire", k) \notin Range(toSup[c]) => OneAcquire(toSup'[d])
            /\ OneRelease(toSup[d]) => OneRelease(toSup'[d])
  <2>1. PICK o, x : o = "acquire" /\ x = k
    OBVIOUS
  <2>2. /\ o \in {"acquire", "release", "cancel"} /\ x \in Nat
        /\ toSup' = Post(toSup, c, Request(o, x))
    BY <1>1, <1>3, <2>1
  <2>3. /\ toSup' \in [Conns -> Seq(Requests)]
        /\ \A d \in Conns : Range(toSup[d]) \subseteq Range(toSup'[d])
        /\ Request(o, x) \in Range(toSup'[c])
        /\ \A d \in Conns : \A y \in Range(toSup'[d]) :
              y \in Range(toSup[d]) \/ (d = c /\ y = Request(o, x))
        /\ \A d \in Conns :
              /\ (o = "acquire" /\ d = c => Request(o, x) \notin Range(toSup[c]))
                    => OneAcquire(toSup'[d])
              /\ OneRelease(toSup[d])
                    /\ (o = "release" /\ d = c => ~ReleaseUnderWay(c, x))
                    => OneRelease(toSup'[d])
    BY <1>3, <2>2, RequestPosted
  <2>4. QED
    BY <2>1, <2>3
<1>8. Request("acquire", k) \notin Range(toSup[c])
  BY <1>2, <1>5 DEF UnderWay, Asked
<1>9. \A d \in Conns : \A t : ReleaseUnderWay(d, t)' <=> ReleaseUnderWay(d, t)
  BY <1>6, <1>7 DEF ReleaseUnderWay
<1>10. \A j \in Calls \ {k} : /\ Asked(j)' <=> Asked(j)
                              /\ Awaited(j)' <=> Awaited(j)
  <2>1. \A j \in Calls \ {k} : Awaited(j)' <=> Awaited(j)
    BY <1>3, <1>4 DEF Awaited
  <2>2. \A j \in Calls \ {k} : Request("acquire", j) # Request("acquire", k)
    BY <1>6
  <2>3. \A j \in Calls \ {k} : Asked(j)' <=> Asked(j)
    BY <1>1, <1>7, <2>2 DEF Asked
  <2>4. QED
    BY <2>1, <2>3
<1>11. \A j \in Calls : /\ Waits(j)' <=> Waits(j)
                        /\ Answered(j)' <=> Answered(j)
                        /\ Replied(j)' <=> Replied(j)
  BY <1>3 DEF Waits, Answered, Replied
<1>12. Asked(k)' /\ Awaited(k)'
  BY <1>2, <1>4, <1>7 DEF Asked, Awaited
<1>13. WorkersTyped'
  BY <1>1, <1>3, <1>4, <1>7 DEF WorkersTyped
<1>14. OwnersTold'
  <2>1. \A d \in Conns : \A x \in Range(toSup'[d]) :
            x.op # "release" => x.arg \in Calls /\ WorkerOf[x.arg] = d
    BY <1>1, <1>2, <1>6, <1>7 DEF OwnersTold
  <2>2. QED
    BY <1>1, <1>3, <2>1 DEF OwnersTold, OwnEntry
<1>15. OnePlace'
  <2>1. \A d \in Conns : OneAcquire(toSup'[d]) /\ OneReply(toWorker'[d])
    BY <1>1, <1>3, <1>7, <1>8 DEF OnePlace
  <2>2. ~Waits(k) /\ ~Answered(k) /\ ~Replied(k)
    BY <1>5 DEF UnderWay
  <2>3. \A j \in Calls :
            /\ Asked(j)' => ~Waits(j)' /\ ~Answered(j)' /\ ~Replied(j)'
            /\ Waits(j)' => ~Answered(j)' /\ ~Replied(j)'
            /\ Answered(j)' => ~Replied(j)'
    BY <1>1, <1>10, <1>11, <2>2 DEF OnePlace
  <2>4. QED
    BY <1>1, <1>3, <2>1, <2>3 DEF OnePlace
<1>16. Expected'
  <2>1. \A j \in late' : phase'[j] = "done"
    BY <1>1, <1>3, <1>4 DEF Expected, WorkersTyped
  <2>2. \A j \in Calls \ {k} : UnderWay(j)' <=> UnderWay(j)
    BY <1>10, <1>11 DEF UnderWay
  <2>3. QED
    BY <1>1, <1>3, <1>10, <1>12, <2>1, <2>2 DEF Expected
<1>17. NoLostCall'
  <2>1. \A j \in Calls : Awaited(j) /\ Linked(WorkerOf[j]) =>
            Asked(j) \/ Waits(j) \/ Answered(j) \/ Replied(j)
    BY <1>1 DEF NoLostCall, Awaited, Asked, Waits, Answered, Replied
  <2>2. \A j \in Calls : Awaited(j)' /\ Linked(WorkerOf[j])' =>
            Asked(j)' \/ Waits(j)' \/ Answered(j)' \/ Replied(j)'
    BY <1>3, <1>10, <1>11, <1>12, <2>1 DEF Linked
  <2>3. QED
    BY <2>2 DEF NoLostCall, Awaited, Asked, Waits, Answered, Replied
<1>18. NoOrphanTicket'
  <2>1. SUFFICES ASSUME NEW e \in held, Linked(e.owner)
                 PROVE  \/ GrantUnderWay(e.request, e.ticket)'
                        \/ InHand(e.request, e.ticket)'
                        \/ ReleaseUnderWay(e.owner, e.ticket)'
    BY <1>3 DEF NoOrphanTicket, Linked
  <2>2. e.request \in Calls /\ e.owner \in Conns
    BY <1>1 DEF OwnersTold, OwnEntry
  <2>3. GrantUnderWay(e.request, e.ticket) => GrantUnderWay(e.request, e.ticket)'
    BY <1>3, <1>4, <2>2 DEF GrantUnderWay
  <2>4. InHand(e.request, e.ticket) => InHand(e.request, e.ticket)'
    BY <1>3, <1>4, <2>2 DEF InHand
  <2>5. QED
    BY <1>1, <1>9, <2>1, <2>2, <2>3, <2>4 DEF NoOrphanTicket
<1>19. ASSUME SlotsInv PROVE SlotsInv'
  <2>1. \A d : Linked(d)' <=> Linked(d)
    BY <1>3 DEF Linked
  <2>2. \A j, t : (Backed(j, t)' <=> Backed(j, t)) /\ (StillHeld(j, t)' <=> StillHeld(j, t))
    BY <1>3 DEF Backed, StillHeld
  <2>3. GrantsBacked'
    <3>1. \A m \in answers : m.entry.request \in Calls \ {k}
      BY <1>1, <1>5 DEF OwnersTold, OwnEntry, UnderWay, Answered
    <3>2. QED
      BY <1>3, <1>4, <1>19, <2>1, <3>1 DEF SlotsInv, GrantsBacked
  <2>4. RepliesBacked'
    <3>1. \A j \in Calls, t \in 1..MaxTickets :
              Reply(j, t) \in Range(toWorker[WorkerOf[j]]) => j # k
      <4>1. 1..MaxTickets \subseteq 0..MaxTickets
        BY QueueConstants
      <4>2. QED
        BY <1>5, <4>1 DEF UnderWay, Replied
    <3>2. QED
      BY <1>3, <1>4, <1>19, <2>1, <2>2, <3>1 DEF SlotsInv, RepliesBacked
  <2>5. HandsBacked'
    <3>1. \A j \in Calls : phase'[j] \in {"answered", "holding", "releasing"} =>
              j # k /\ phase'[j] = phase[j]
      BY <1>4
    <3>2. \A j : (Backed(j, ticketOf[j])' <=> Backed(j, ticketOf[j]))
                 /\ (StillHeld(j, ticketOf[j])' <=> StillHeld(j, ticketOf[j]))
      BY <1>3 DEF Backed, StillHeld
    <3>3. QED
      BY <1>3, <1>19, <2>1, <3>1, <3>2 DEF SlotsInv, HandsBacked, InHand
  <2>6. ReleasesBacked'
    <3>1. \A j \in Calls : Spent(j) => Spent(j)'
      BY <1>3, <1>4 DEF Spent
    <3>2. \A e \in held \cup reclaimed : e.request \in Calls
      BY <1>1 DEF OwnersTold, OwnEntry
    <3>3. \A d \in Conns : Linked(d) => OneRelease(toSup'[d])
      BY <1>7, <1>19 DEF SlotsInv, ReleasesBacked
    <3>4. QED
      BY <1>3, <1>9, <1>19, <2>1, <3>1, <3>2, <3>3 DEF SlotsInv, ReleasesBacked
  <2>7. \A j \in Calls : phase'[j] = "holding" => phase[j] = "holding"
    BY <1>4
  <2>8. HeldHere' /\ NewsTold' /\ NotedHeld'
    BY <1>3, <1>19, <2>7, NewsKept
  <2>9. QED
    BY <2>3, <2>4, <2>5, <2>6, <2>8 DEF SlotsInv
<1>20. QED
  BY <1>13, <1>14, <1>15, <1>16, <1>17, <1>18, <1>19 DEF CallsInv

(* An answer is sent: nobody asks for that call, and no reply to it is out. *)
LEMMA SendStep ==
    ASSUME TicketsInv, CallsInv, NEW m \in answers, Send(m)
    PROVE  CallsInv' /\ (SlotsInv => SlotsInv')
<1>1. /\ WorkersTyped /\ OwnersTold /\ OnePlace /\ Expected
      /\ NoOrphanTicket /\ NoLostCall /\ TypeOK
      /\ \A j \in Calls : WorkerOf[j] \in Conns
      /\ Calls \subseteq Nat /\ MaxTickets \in Nat
  BY CallConstants, QueueConstants DEF CallsInv, TicketsInv
<1>2. PICK k, c, t, x :
          k = m.entry.request /\ c = m.entry.owner /\ t = TicketIn(m) /\ x = Reply(k, t)
  OBVIOUS
<1>3. /\ toWorker' = IF c \in closed THEN toWorker ELSE Post(toWorker, c, x)
      /\ answers' = answers \ {m}
      /\ UNCHANGED <<waiting, held, reclaimed, closed>>
      /\ UNCHANGED <<phase, ticketOf, late, withdrawing, alive, toSup, pool,
                     asking, wheld, wreclaimed>>
  BY <1>2 DEF Send, DeliverAnswer
<1>4. k \in Calls /\ c = WorkerOf[k] /\ c \in Conns
  BY <1>1, <1>2 DEF OwnersTold, OwnEntry
<1>5. t \in 0..MaxTickets
  <2>1. m.entry.ticket \in 1..MaxTickets
    BY <1>1 DEF TypeOK, Answer, Entry
  <2>2. QED
    BY <1>1, <1>2, <2>1 DEF TicketIn
<1>6. \A j, u : Reply(j, u).op = "reply" /\ Reply(j, u).call = j /\ Reply(j, u).ticket = u
  BY DEF Reply
<1>7. x \in News /\ x.op = "reply" /\ x.call = k /\ x.ticket = t
  <2>1. k \in Nat /\ "reply" \in {"reply", "reclaimed"}
    BY <1>1, <1>4
  <2>2. x \in News
    BY <1>2, <1>5, <2>1 DEF Reply, News
  <2>3. QED
    BY <1>2, <1>6, <2>2
<1>8. Answered(k) /\ ~Asked(k) /\ ~Waits(k) /\ ~Replied(k)
  <2>1. Answered(k)
    BY <1>2 DEF Answered
  <2>2. QED
    BY <1>1, <1>4, <2>1 DEF OnePlace
<1>9. \A y \in Range(toWorker[c]) : y.op = "reply" => y.call # k
  <2>1. SUFFICES ASSUME NEW y \in Range(toWorker[c]), y.op = "reply", y.call = k
                 PROVE  FALSE
    OBVIOUS
  <2>2. y \in News
    BY <1>1, <1>4, <2>1 DEF WorkersTyped, Range
  <2>3. y.ticket \in 0..MaxTickets /\ y = Reply(k, y.ticket)
    BY <2>1, <2>2 DEF News, Reply
  <2>4. QED
    BY <1>4, <1>8, <2>1, <2>3 DEF Replied
<1>10. /\ toWorker' \in [Conns -> Seq(News)]
       /\ \A d \in Conns : Range(toWorker[d]) \subseteq Range(toWorker'[d])
       /\ \A d \in Conns : \A y \in Range(toWorker'[d]) :
             y \in Range(toWorker[d]) \/ (d = c /\ y = x /\ c \notin closed)
       /\ c \notin closed => x \in Range(toWorker'[c])
       /\ \A d \in Conns : OneReply(toWorker'[d])
  BY <1>3, <1>4, <1>7, <1>9, NewsPosted
<1>11. \A j \in Calls, u \in 0..MaxTickets :
           Reply(j, u) \in Range(toWorker'[WorkerOf[j]]) =>
              Reply(j, u) \in Range(toWorker[WorkerOf[j]]) \/ (j = k /\ u = t)
  BY <1>1, <1>6, <1>7, <1>10
<1>12. \A j \in Calls : /\ Asked(j)' <=> Asked(j)
                        /\ Waits(j)' <=> Waits(j)
                        /\ Awaited(j)' <=> Awaited(j)
                        /\ Answered(j)' => Answered(j)
                        /\ j # k => (Answered(j) => Answered(j)')
  BY <1>2, <1>3 DEF Asked, Waits, Awaited, Answered
<1>13. ~Answered(k)'
  BY <1>1, <1>2, <1>3 DEF OnePlace, Answered
<1>14. \A j \in Calls : /\ Replied(j) => Replied(j)'
                        /\ Replied(j)' => Replied(j) \/ j = k
  BY <1>1, <1>10, <1>11 DEF Replied
<1>15. c \notin closed => Replied(k)'
  BY <1>2, <1>4, <1>5, <1>10 DEF Replied
<1>16. WorkersTyped'
  BY <1>1, <1>3, <1>10 DEF WorkersTyped
<1>17. OwnersTold'
  <2>1. \A d \in Conns : \A y \in Range(toWorker'[d]) :
            y.op = "reply" => y.call \in Calls /\ WorkerOf[y.call] = d
    BY <1>1, <1>4, <1>7, <1>10 DEF OwnersTold
  <2>2. QED
    BY <1>1, <1>3, <2>1 DEF OwnersTold, OwnEntry
<1>18. OnePlace'
  <2>1. \A j \in Calls :
            /\ Asked(j)' => ~Waits(j)' /\ ~Answered(j)' /\ ~Replied(j)'
            /\ Waits(j)' => ~Answered(j)' /\ ~Replied(j)'
            /\ Answered(j)' => ~Replied(j)'
    BY <1>1, <1>8, <1>12, <1>13, <1>14 DEF OnePlace
  <2>2. /\ \A e, f \in waiting' : e.request = f.request => e = f
        /\ \A n, o \in answers' : n.entry.request = o.entry.request => n = o
    BY <1>1, <1>3 DEF OnePlace
  <2>3. \A d \in Conns : OneAcquire(toSup'[d]) /\ OneReply(toWorker'[d])
    BY <1>1, <1>3, <1>10 DEF OnePlace
  <2>4. QED
    BY <2>1, <2>2, <2>3 DEF OnePlace
<1>19. Expected'
  <2>1. \A j \in Calls : UnderWay(j)' => UnderWay(j)
    BY <1>8, <1>12, <1>14 DEF UnderWay
  <2>2. \A j \in late' : phase'[j] = "done"
    BY <1>1, <1>3 DEF Expected
  <2>3. QED
    BY <1>1, <1>3, <1>12, <2>1, <2>2 DEF Expected
<1>20. NoLostCall'
  <2>1. \A j \in Calls : Awaited(j) /\ Linked(WorkerOf[j]) =>
            Asked(j) \/ Waits(j) \/ Answered(j) \/ Replied(j)
    BY <1>1 DEF NoLostCall, Awaited, Asked, Waits, Answered, Replied
  <2>2. ASSUME NEW j \in Calls, Awaited(j)', Linked(WorkerOf[j])'
        PROVE  Asked(j)' \/ Waits(j)' \/ Answered(j)' \/ Replied(j)'
    <3>1. Linked(WorkerOf[j]) /\ WorkerOf[j] \notin closed
      BY <1>3, <2>2 DEF Linked
    <3>2. CASE j = k
      BY <1>4, <1>15, <3>1, <3>2
    <3>3. CASE j # k
      BY <1>12, <1>14, <2>1, <2>2, <3>1, <3>3
    <3>4. QED
      BY <3>2, <3>3
  <2>3. QED
    BY <2>2 DEF NoLostCall, Awaited, Asked, Waits, Answered, Replied
<1>21. NoOrphanTicket'
  <2>1. SUFFICES ASSUME NEW e \in held, Linked(e.owner)
                 PROVE  \/ GrantUnderWay(e.request, e.ticket)'
                        \/ InHand(e.request, e.ticket)'
                        \/ ReleaseUnderWay(e.owner, e.ticket)'
    BY <1>3 DEF NoOrphanTicket, Linked
  <2>2. e.request \in Calls /\ e.owner = WorkerOf[e.request] /\ e.owner \in Conns
        /\ e.owner \notin closed
    BY <1>1, <2>1 DEF OwnersTold, OwnEntry, Linked
  <2>3. ASSUME NEW n \in answers, n.entry.request = e.request, TicketIn(n) = e.ticket
        PROVE  \/ \E o \in answers' : o.entry.request = e.request /\ TicketIn(o) = e.ticket
               \/ Reply(e.request, e.ticket) \in Range(toWorker'[WorkerOf[e.request]])
    <3>1. CASE n = m
      <4>1. e.request = k /\ e.ticket = t /\ e.owner = c
        BY <1>2, <1>4, <2>2, <2>3, <3>1
      <4>2. QED
        BY <1>2, <1>10, <2>2, <4>1
    <3>2. CASE n # m
      BY <1>3, <2>3, <3>2
    <3>3. QED
      BY <3>1, <3>2
  <2>4. TicketIn(m)' = TicketIn(m)
    BY DEF TicketIn
  <2>5. GrantUnderWay(e.request, e.ticket) => GrantUnderWay(e.request, e.ticket)'
    <3>1. Reply(e.request, e.ticket) \in Range(toWorker[WorkerOf[e.request]]) =>
              Reply(e.request, e.ticket) \in Range(toWorker'[WorkerOf[e.request]])
      BY <1>10, <2>2
    <3>2. QED
      BY <1>3, <2>3, <3>1 DEF GrantUnderWay
  <2>6. /\ InHand(e.request, e.ticket) => InHand(e.request, e.ticket)'
        /\ ReleaseUnderWay(e.owner, e.ticket) => ReleaseUnderWay(e.owner, e.ticket)'
    BY <1>3 DEF InHand, ReleaseUnderWay
  <2>7. QED
    BY <1>1, <2>1, <2>5, <2>6 DEF NoOrphanTicket
<1>22. ASSUME SlotsInv PROVE SlotsInv'
  <2>1. \A d : Linked(d)' <=> Linked(d)
    BY <1>3 DEF Linked
  <2>2. \A j, u : (Backed(j, u)' <=> Backed(j, u)) /\ (StillHeld(j, u)' <=> StillHeld(j, u))
    BY <1>3 DEF Backed, StillHeld
  <2>3. GrantsBacked'
    BY <1>3, <1>22, <2>1 DEF SlotsInv, GrantsBacked
  <2>4. RepliesBacked'
    <3>1. SUFFICES ASSUME NEW j \in Calls, NEW u \in 1..MaxTickets,
                          Reply(j, u) \in Range(toWorker'[WorkerOf[j]]),
                          Linked(WorkerOf[j])
                   PROVE  /\ Backed(j, u)
                          /\ phase[j] = "asking" => StillHeld(j, u)
      BY <1>3, <2>1, <2>2 DEF RepliesBacked
    <3>2. u \in 0..MaxTickets /\ u # 0
      BY <1>1
    <3>3. CASE Reply(j, u) \in Range(toWorker[WorkerOf[j]])
      BY <1>22, <3>1, <3>3 DEF SlotsInv, RepliesBacked
    <3>4. CASE j = k /\ u = t
      <4>1. m.result = "granted" /\ m.entry.ticket = u
        BY <1>2, <3>2, <3>4 DEF TicketIn
      <4>2. /\ m.entry \in held \cup reclaimed
            /\ phase[k] = "asking" => m.entry \in held
        BY <1>2, <1>4, <1>22, <3>1, <3>4, <4>1 DEF SlotsInv, GrantsBacked
      <4>3. QED
        BY <1>2, <3>4, <4>1, <4>2 DEF Backed, StillHeld
    <3>5. QED
      BY <1>11, <3>1, <3>2, <3>3, <3>4
  <2>5. HandsBacked'
    <3>1. \A j : (Backed(j, ticketOf[j])' <=> Backed(j, ticketOf[j]))
                 /\ (StillHeld(j, ticketOf[j])' <=> StillHeld(j, ticketOf[j]))
      BY <1>3 DEF Backed, StillHeld
    <3>2. QED
      BY <1>3, <1>22, <2>1, <3>1 DEF SlotsInv, HandsBacked, InHand
  <2>6. ReleasesBacked'
    BY <1>3, <1>22, <2>1 DEF SlotsInv, ReleasesBacked, ReleaseUnderWay, Spent
  <2>7. HeldHere' /\ NotedHeld'
    BY <1>3, <1>22, <2>1 DEF SlotsInv, HeldHere, NotedHeld
  <2>8. NewsTold'
    <3>1. \A j \in Calls : \A u : Reclaimed(u) \in Range(toWorker[WorkerOf[j]]) =>
              Reclaimed(u) \in Range(toWorker'[WorkerOf[j]])
      BY <1>1, <1>10
    <3>2. \A j : StillHeld(j, ticketOf[j])' <=> StillHeld(j, ticketOf[j])
      BY <1>3 DEF StillHeld
    <3>3. QED
      BY <1>3, <1>22, <2>1, <3>1, <3>2 DEF SlotsInv, NewsTold
  <2>9. QED
    BY <2>3, <2>4, <2>5, <2>6, <2>7, <2>8 DEF SlotsInv
<1>23. QED
  BY <1>16, <1>17, <1>18, <1>19, <1>20, <1>21, <1>22 DEF CallsInv

(* A worker dies: whatever was its own, nobody is linked to it any more. *)
LEMMA CrashStep ==
    ASSUME TicketsInv, CallsInv, NEW c \in Conns, Crash(c)
    PROVE  CallsInv' /\ (SlotsInv => SlotsInv')
<1>1. /\ WorkersTyped /\ OwnersTold /\ OnePlace /\ Expected
      /\ NoOrphanTicket /\ NoLostCall /\ TypeOK
      /\ \A j \in Calls : WorkerOf[j] \in Conns
  BY CallConstants DEF CallsInv, TicketsInv
<1>2. /\ alive' = alive \ {c}
      /\ phase' = [k \in Calls |-> IF WorkerOf[k] = c THEN "done" ELSE phase[k]]
      /\ late' = {k \in late : WorkerOf[k] # c}
      /\ withdrawing' = {k \in withdrawing : WorkerOf[k] # c}
      /\ toWorker' = [toWorker EXCEPT ![c] = <<>>]
      /\ pool' = {p \in pool : p[1] # c}
      /\ wheld' = [wheld EXCEPT ![c] = {}]
      /\ wreclaimed' = [wreclaimed EXCEPT ![c] = {}]
      /\ UNCHANGED <<waiting, held, reclaimed, closed, answers>>
      /\ UNCHANGED <<ticketOf, toSup, asking>>
  BY DEF Crash, queueVars
<1>3. /\ toWorker' \in [Conns -> Seq(News)]
      /\ toWorker'[c] = <<>>
      /\ \A d \in Conns \ {c} : toWorker'[d] = toWorker[d]
  <2>1. <<>> \in Seq(News)
    OBVIOUS
  <2>2. QED
    BY <1>1, <1>2, <2>1 DEF WorkersTyped
<1>4. Range(toWorker'[c]) = {} /\ OneReply(toWorker'[c])
  <2>1. DOMAIN toWorker'[c] = {}
    BY <1>3
  <2>2. QED
    BY <2>1 DEF Range, OneReply
<1>5. /\ wheld' \in [Conns -> SUBSET Nat] /\ wreclaimed' \in [Conns -> SUBSET Nat]
      /\ wheld'[c] = {} /\ wreclaimed'[c] = {}
      /\ \A d \in Conns \ {c} : wheld'[d] = wheld[d] /\ wreclaimed'[d] = wreclaimed[d]
  BY <1>1, <1>2 DEF WorkersTyped
<1>6. phase' \in [Calls -> Phases]
  BY <1>1, <1>2 DEF WorkersTyped, Phases
<1>7. \A j \in Calls : WorkerOf[j] # c =>
          phase'[j] = phase[j] /\ (j \in late' <=> j \in late)
  BY <1>2
<1>8. \A d : Linked(d)' => Linked(d) /\ d # c
  BY <1>2 DEF Linked
<1>9. WorkersTyped'
  <2>1. pool' \subseteq pool /\ late' \subseteq late
        /\ withdrawing' \subseteq withdrawing /\ alive' \subseteq alive
    BY <1>2
  <2>2. QED
    BY <1>1, <1>2, <1>3, <1>5, <1>6, <2>1 DEF WorkersTyped
<1>10. \A d \in Conns : Range(toWorker'[d]) \subseteq Range(toWorker[d])
  BY <1>3, <1>4
<1>11. \A j \in Calls : /\ Asked(j)' <=> Asked(j)
                        /\ Waits(j)' <=> Waits(j)
                        /\ Answered(j)' <=> Answered(j)
  BY <1>2 DEF Asked, Waits, Answered
<1>12. \A j \in Calls : /\ Replied(j)' => Replied(j)
                        /\ WorkerOf[j] # c => (Replied(j) => Replied(j)')
                        /\ WorkerOf[j] # c => (Awaited(j)' <=> Awaited(j))
  BY <1>1, <1>3, <1>7, <1>10 DEF Replied, Awaited
<1>13. OwnersTold'
  <2>1. \A d \in Conns : \A x \in Range(toWorker'[d]) :
            x.op = "reply" => x.call \in Calls /\ WorkerOf[x.call] = d
    BY <1>1, <1>10 DEF OwnersTold
  <2>2. QED
    BY <1>1, <1>2, <2>1 DEF OwnersTold, OwnEntry
<1>14. OnePlace'
  <2>1. \A d \in Conns : OneAcquire(toSup'[d]) /\ OneReply(toWorker'[d])
    BY <1>1, <1>2, <1>3, <1>4 DEF OnePlace
  <2>2. QED
    BY <1>1, <1>2, <1>11, <1>12, <2>1 DEF OnePlace
<1>15. Expected'
  <2>1. \A j \in late' : phase'[j] = "done"
    BY <1>1, <1>2, <1>7 DEF Expected, WorkersTyped
  <2>2. \A j \in Calls : UnderWay(j)' => UnderWay(j)
    BY <1>11, <1>12 DEF UnderWay
  <2>3. QED
    BY <1>1, <1>2, <1>12, <2>1, <2>2 DEF Expected
<1>16. NoLostCall'
  <2>1. \A j \in Calls : Awaited(j) /\ Linked(WorkerOf[j]) =>
            Asked(j) \/ Waits(j) \/ Answered(j) \/ Replied(j)
    BY <1>1 DEF NoLostCall, Awaited, Asked, Waits, Answered, Replied
  <2>2. \A j \in Calls : Awaited(j)' /\ Linked(WorkerOf[j])' =>
            Asked(j)' \/ Waits(j)' \/ Answered(j)' \/ Replied(j)'
    BY <1>8, <1>11, <1>12, <2>1
  <2>3. QED
    BY <2>2 DEF NoLostCall, Awaited, Asked, Waits, Answered, Replied
<1>17. NoOrphanTicket'
  <2>1. SUFFICES ASSUME NEW e \in held, Linked(e.owner)'
                 PROVE  \/ GrantUnderWay(e.request, e.ticket)'
                        \/ InHand(e.request, e.ticket)'
                        \/ ReleaseUnderWay(e.owner, e.ticket)'
    BY <1>2 DEF NoOrphanTicket, Linked
  <2>2. /\ e.request \in Calls /\ e.owner = WorkerOf[e.request]
        /\ e.owner \in Conns \ {c} /\ Linked(e.owner)
    BY <1>1, <1>8, <2>1 DEF OwnersTold, OwnEntry
  <2>3. GrantUnderWay(e.request, e.ticket) => GrantUnderWay(e.request, e.ticket)'
    BY <1>2, <1>3, <1>7, <2>2 DEF GrantUnderWay
  <2>4. /\ InHand(e.request, e.ticket) => InHand(e.request, e.ticket)'
        /\ ReleaseUnderWay(e.owner, e.ticket) => ReleaseUnderWay(e.owner, e.ticket)'
    BY <1>2, <1>7, <2>2 DEF InHand, ReleaseUnderWay
  <2>5. QED
    BY <1>1, <2>1, <2>2, <2>3, <2>4 DEF NoOrphanTicket
<1>18. ASSUME SlotsInv PROVE SlotsInv'
  <2>1. \A j, u : (Backed(j, u)' <=> Backed(j, u)) /\ (StillHeld(j, u)' <=> StillHeld(j, u))
    BY <1>2 DEF Backed, StillHeld
  <2>2. \A j : (Backed(j, ticketOf[j])' <=> Backed(j, ticketOf[j]))
               /\ (StillHeld(j, ticketOf[j])' <=> StillHeld(j, ticketOf[j]))
    BY <1>2 DEF Backed, StillHeld
  <2>3. GrantsBacked'
    <3>1. \A m \in answers : m.entry.request \in Calls
                             /\ m.entry.owner = WorkerOf[m.entry.request]
      BY <1>1 DEF OwnersTold, OwnEntry
    <3>2. QED
      BY <1>2, <1>7, <1>8, <1>18, <3>1 DEF SlotsInv, GrantsBacked
  <2>4. RepliesBacked'
    BY <1>1, <1>3, <1>7, <1>8, <1>18, <2>1 DEF SlotsInv, RepliesBacked
  <2>5. HandsBacked'
    <3>1. \A j \in Calls : phase'[j] \in {"answered", "holding", "releasing"} =>
              WorkerOf[j] # c /\ phase'[j] = phase[j]
      BY <1>2, <1>7
    <3>2. QED
      BY <1>2, <1>8, <1>18, <2>2, <3>1 DEF SlotsInv, HandsBacked, InHand
  <2>6. ReleasesBacked'
    <3>1. \A e \in held \cup reclaimed :
              e.request \in Calls /\ e.owner = WorkerOf[e.request]
      BY <1>1 DEF OwnersTold, OwnEntry
    <3>2. \A j \in Calls : WorkerOf[j] # c => (Spent(j) => Spent(j)')
      BY <1>7 DEF Spent
    <3>3. QED
      BY <1>2, <1>8, <1>18, <3>1, <3>2 DEF SlotsInv, ReleasesBacked, ReleaseUnderWay
  <2>7. HeldHere'
    BY <1>1, <1>2, <1>5, <1>7, <1>8, <1>18 DEF SlotsInv, HeldHere
  <2>8. NotedHeld'
    BY <1>5, <1>18 DEF SlotsInv, NotedHeld
  <2>9. NewsTold'
    <3>1. SUFFICES ASSUME NEW j \in Calls, phase'[j] = "holding", Linked(WorkerOf[j])'
                   PROVE  \/ StillHeld(j, ticketOf[j])
                          \/ \E e \in asking : e.request = j /\ e.ticket = ticketOf[j]
                          \/ Reclaimed(ticketOf[j]) \in Range(toWorker'[WorkerOf[j]])
                          \/ <<WorkerOf[j], ticketOf[j]>> \in pool'
                          \/ ticketOf[j] \in wreclaimed'[WorkerOf[j]]
      BY <1>2, <2>2 DEF NewsTold
    <3>2. WorkerOf[j] \in Conns \ {c} /\ Linked(WorkerOf[j]) /\ phase[j] = "holding"
      BY <1>1, <1>7, <1>8, <3>1
    <3>3. <<WorkerOf[j], ticketOf[j]>> \in pool => <<WorkerOf[j], ticketOf[j]>> \in pool'
      BY <1>2, <3>2
    <3>4. QED
      BY <1>3, <1>5, <1>18, <3>2, <3>3 DEF SlotsInv, NewsTold
  <2>10. QED
    BY <2>3, <2>4, <2>5, <2>6, <2>7, <2>8, <2>9 DEF SlotsInv
<1>19. QED
  BY <1>9, <1>13, <1>14, <1>15, <1>16, <1>17, <1>18 DEF CallsInv

(* What an answer read leaves of its call: nothing is under way any more.   *)
(* The thread, or _late, has it (m's ticket, if it brought one).            *)
ReplyRead(c, k, t) ==
    /\ k \in Calls /\ t \in 0..MaxTickets /\ WorkerOf[k] = c
    /\ Reply(k, t) \in Range(toWorker[c])
    /\ ~UnderWay(k)'
    /\ \A j \in Calls \ {k} : /\ UnderWay(j)' <=> UnderWay(j)
                              /\ Replied(j)' <=> Replied(j)
                              /\ Awaited(j)' <=> Awaited(j)
    /\ \A j \in Calls, u \in 0..MaxTickets :
          Reply(j, u) \in Range(toWorker[WorkerOf[j]]) =>
             \/ Reply(j, u) \in Range(toWorker'[WorkerOf[j]])
             \/ j = k /\ u = t
    /\ \A j \in Calls : \A u : Reclaimed(u) \in Range(toWorker[WorkerOf[j]]) =>
          Reclaimed(u) \in Range(toWorker'[WorkerOf[j]])
    /\ \A j \in Calls : Range(toWorker'[WorkerOf[j]]) \subseteq Range(toWorker[WorkerOf[j]])
    /\ \A j \in Calls : Asked(j)' <=> Asked(j)

(* Read either way, every call keeps its place. *)
LEMMA ReplyReadCalls ==
    ASSUME CallsInv, TypeOK, NEW c \in Conns, NEW k, NEW t, ReplyRead(c, k, t),
           WorkersTyped', OwnersTold',
           UNCHANGED <<waiting, held, reclaimed, closed, answers, alive, asking>>,
           \A d \in Conns : OneAcquire(toSup'[d]) /\ OneReply(toWorker'[d]),
           \A j \in late' : phase'[j] = "done",
           ~Awaited(k)',
           \A j \in Calls, u \in 1..MaxTickets :
              InHand(j, u) => InHand(j, u)',
           \A d \in Conns, u \in 1..MaxTickets :
              ReleaseUnderWay(d, u) => ReleaseUnderWay(d, u)',
           t # 0 => InHand(k, t)' \/ ReleaseUnderWay(c, t)'
    PROVE  CallsInv'
<1>1. /\ OwnersTold /\ OnePlace /\ Expected /\ NoOrphanTicket /\ NoLostCall
      /\ \A j \in Calls : WorkerOf[j] \in Conns
  BY CallConstants DEF CallsInv
<1>2. /\ k \in Calls /\ WorkerOf[k] = c /\ ~UnderWay(k)'
      /\ \A j \in Calls \ {k} : /\ UnderWay(j)' <=> UnderWay(j)
                                /\ Replied(j)' <=> Replied(j)
                                /\ Awaited(j)' <=> Awaited(j)
      /\ \A j \in Calls : Asked(j)' <=> Asked(j)
  BY DEF ReplyRead
<1>3. \A j \in Calls : (Waits(j)' <=> Waits(j)) /\ (Answered(j)' <=> Answered(j))
  BY DEF Waits, Answered
<1>4. OnePlace'
  <2>1. \A j \in Calls :
            /\ Asked(j)' => ~Waits(j)' /\ ~Answered(j)' /\ ~Replied(j)'
            /\ Waits(j)' => ~Answered(j)' /\ ~Replied(j)'
            /\ Answered(j)' => ~Replied(j)'
    <3>1. ~Asked(k)' /\ ~Waits(k)' /\ ~Answered(k)'
      BY <1>2 DEF UnderWay
    <3>2. \A j \in Calls \ {k} :
              /\ Asked(j)' => ~Waits(j)' /\ ~Answered(j)' /\ ~Replied(j)'
              /\ Waits(j)' => ~Answered(j)' /\ ~Replied(j)'
              /\ Answered(j)' => ~Replied(j)'
      BY <1>1, <1>2, <1>3 DEF OnePlace
    <3>3. QED
      BY <3>1, <3>2
  <2>2. /\ \A e, f \in waiting' : e.request = f.request => e = f
        /\ \A n, o \in answers' : n.entry.request = o.entry.request => n = o
    BY <1>1 DEF OnePlace
  <2>3. QED
    BY <2>1, <2>2 DEF OnePlace
<1>5. Expected'
  BY <1>1, <1>2 DEF Expected
<1>6. NoLostCall'
  <2>1. \A j \in Calls : Awaited(j) /\ Linked(WorkerOf[j]) => UnderWay(j)
    BY <1>1 DEF NoLostCall, Awaited, UnderWay, Asked, Waits, Answered, Replied
  <2>2. \A j \in Calls : Awaited(j)' /\ Linked(WorkerOf[j])' => UnderWay(j)'
    BY <1>2, <2>1 DEF Linked
  <2>3. QED
    BY <2>2 DEF NoLostCall, Awaited, UnderWay, Asked, Waits, Answered, Replied
<1>7. NoOrphanTicket'
  <2>1. SUFFICES ASSUME NEW e \in held, Linked(e.owner)
                 PROVE  \/ GrantUnderWay(e.request, e.ticket)'
                        \/ InHand(e.request, e.ticket)'
                        \/ ReleaseUnderWay(e.owner, e.ticket)'
    BY DEF NoOrphanTicket, Linked
  <2>2. /\ e.request \in Calls /\ e.owner = WorkerOf[e.request] /\ e.owner \in Conns
        /\ e.ticket \in 1..MaxTickets /\ e.ticket \in 0..MaxTickets /\ e.ticket # 0
    <3>1. e.ticket \in 1..MaxTickets
      BY DEF TypeOK, Entry
    <3>2. QED
      BY <1>1, <2>1, <3>1, QueueConstants DEF OwnersTold, OwnEntry
  <2>3. /\ InHand(e.request, e.ticket) => InHand(e.request, e.ticket)'
        /\ ReleaseUnderWay(e.owner, e.ticket) => ReleaseUnderWay(e.owner, e.ticket)'
    BY <2>2
  <2>4. ASSUME GrantUnderWay(e.request, e.ticket)
        PROVE  \/ GrantUnderWay(e.request, e.ticket)'
               \/ InHand(e.request, e.ticket)'
               \/ ReleaseUnderWay(e.owner, e.ticket)'
    <3>1. CASE e.request = k
      <4>1. ~Answered(k)
        BY <1>2, <1>3 DEF UnderWay
      <4>2. Reply(k, e.ticket) \in Range(toWorker[WorkerOf[k]])
        BY <2>4, <3>1, <4>1 DEF GrantUnderWay, Answered
      <4>3. Reply(k, e.ticket) \notin Range(toWorker'[WorkerOf[k]])
        BY <1>2, <2>2 DEF UnderWay, Replied
      <4>4. e.ticket = t
        BY <1>2, <2>2, <4>2, <4>3 DEF ReplyRead
      <4>5. QED
        BY <1>2, <2>2, <3>1, <4>4
    <3>2. CASE e.request # k
      <4>1. Awaited(e.request)'
        BY <1>2, <2>2, <2>4, <3>2 DEF GrantUnderWay, Awaited
      <4>2. Reply(e.request, e.ticket) \in Range(toWorker[WorkerOf[e.request]]) =>
                Reply(e.request, e.ticket) \in Range(toWorker'[WorkerOf[e.request]])
        BY <2>2, <3>2 DEF ReplyRead
      <4>3. QED
        BY <2>4, <4>1, <4>2 DEF GrantUnderWay, Awaited
    <3>3. QED
      BY <3>1, <3>2
  <2>5. QED
    BY <1>1, <2>1, <2>3, <2>4 DEF NoOrphanTicket
<1>8. QED
  BY <1>4, <1>5, <1>6, <1>7 DEF CallsInv

(* An answer is read: by its thread, or by _late, which gives it back. *)
LEMMA ReadReplyStep ==
    ASSUME TicketsInv, CallsInv, NEW c \in Conns, ReadReply(c)
    PROVE  CallsInv' /\ (SlotsInv => SlotsInv')
<1>1. /\ WorkersTyped /\ OwnersTold /\ OnePlace /\ Expected /\ TypeOK
      /\ \A j \in Calls : WorkerOf[j] \in Conns
      /\ MaxTickets \in Nat
  BY CallConstants, QueueConstants DEF CallsInv, TicketsInv
<1>2. PICK m, k, t : m = Head(toWorker[c]) /\ k = m.call /\ t = m.ticket
  OBVIOUS
<1>3. /\ c \in alive /\ toWorker[c] # <<>> /\ m.op = "reply"
      /\ toWorker' = Drop(toWorker, c)
      /\ UNCHANGED <<waiting, held, reclaimed, closed, answers>>
      /\ UNCHANGED <<withdrawing, alive, pool, asking, wheld, wreclaimed>>
      /\ \/ /\ k \in late
            /\ late' = late \ {k}
            /\ toSup' = GiveBack(toSup, c, t)
            /\ UNCHANGED <<phase, ticketOf>>
         \/ /\ k \notin late
            /\ phase' = [phase EXCEPT ![k] = IF @ = "asking" THEN "answered" ELSE @]
            /\ ticketOf' = [ticketOf EXCEPT ![k] = t]
            /\ UNCHANGED <<late, toSup>>
  BY <1>2 DEF ReadReply, queueVars
<1>4. /\ toWorker' \in [Conns -> Seq(News)]
      /\ m \in News
      /\ \A d \in Conns : /\ OneReply(toWorker'[d])
                          /\ Range(toWorker'[d]) \subseteq Range(toWorker[d])
      /\ \A d \in Conns : \A x \in Range(toWorker[d]) \ Range(toWorker'[d]) :
            d = c /\ x = m
      /\ k \in Calls /\ WorkerOf[k] = c
      /\ m = Reply(k, t)
      /\ Replied(k) /\ ~Replied(k)'
  <2>1. /\ toWorker' \in [Conns -> Seq(News)]
        /\ m \in News
        /\ \A d \in Conns : /\ OneReply(toWorker'[d])
                            /\ Range(toWorker'[d]) \subseteq Range(toWorker[d])
        /\ \A d \in Conns : \A x \in Range(toWorker[d]) \ Range(toWorker'[d]) :
              d = c /\ x = m
        /\ m.op = "reply" =>
              /\ m.call \in Calls /\ WorkerOf[m.call] = c
              /\ m = Reply(m.call, m.ticket)
              /\ Replied(m.call) /\ ~Replied(m.call)'
    <3>1. m = Head(toWorker[c])
      BY <1>2
    <3>2. QED
      BY <1>3, <3>1, NewsRead
  <2>2. QED
    BY <1>2, <1>3, <2>1
<1>5. t \in 0..MaxTickets
  BY <1>2, <1>4 DEF News
<1>6. ~Asked(k) /\ ~Waits(k) /\ ~Answered(k) /\ Awaited(k)
  <2>1. UnderWay(k)
    BY <1>4 DEF UnderWay
  <2>2. Awaited(k)
    BY <1>1, <1>3, <1>4, <2>1 DEF Expected
  <2>3. QED
    BY <1>1, <1>4, <2>2 DEF OnePlace
<1>7. \A j, u, v : /\ Reply(j, u) = Reply(k, v) => j = k /\ u = v
                   /\ Reclaimed(u) # Reply(k, v)
  BY DEF Reply, Reclaimed
<1>8. Reply(k, t) \in Range(toWorker[c])
  <2>1. toWorker \in [Conns -> Seq(News)] /\ toWorker[c] # <<>>
    BY <1>1, <1>3 DEF WorkersTyped
  <2>2. Head(toWorker[c]) \in Range(toWorker[c])
    BY <2>1, DropIs
  <2>3. QED
    BY <1>2, <1>4, <2>2
<1>9. \A j \in Calls : \A u :
          /\ Reply(j, u) \in Range(toWorker[WorkerOf[j]]) =>
                Reply(j, u) \in Range(toWorker'[WorkerOf[j]]) \/ (j = k /\ u = t)
          /\ Reclaimed(u) \in Range(toWorker[WorkerOf[j]]) =>
                Reclaimed(u) \in Range(toWorker'[WorkerOf[j]])
  BY <1>1, <1>4, <1>7
<1>10. \A j \in Calls \ {k} : Replied(j)' <=> Replied(j)
  <2>1. \A j \in Calls : \A u : Reply(j, u) \in Range(toWorker'[WorkerOf[j]]) =>
            Reply(j, u) \in Range(toWorker[WorkerOf[j]])
    BY <1>1, <1>4
  <2>2. QED
    BY <1>9, <2>1 DEF Replied
<1>11. \A j \in Calls : (Waits(j)' <=> Waits(j)) /\ (Answered(j)' <=> Answered(j))
  BY <1>3 DEF Waits, Answered
<1>12. \A d : Linked(d)' <=> Linked(d)
  BY <1>3 DEF Linked
<1>13. \A j, u : (Backed(j, u)' <=> Backed(j, u)) /\ (StillHeld(j, u)' <=> StillHeld(j, u))
  BY <1>3 DEF Backed, StillHeld
<1>14. ASSUME \A j \in Calls : Asked(j)' <=> Asked(j),
              \A j \in Calls \ {k} : Awaited(j)' <=> Awaited(j)
       PROVE  ReplyRead(c, k, t)
  <2>1. ~UnderWay(k)'
    BY <1>4, <1>6, <1>11, <1>14 DEF UnderWay
  <2>2. \A j \in Calls \ {k} : UnderWay(j)' <=> UnderWay(j)
    BY <1>10, <1>11, <1>14 DEF UnderWay
  <2>3. \A j \in Calls : Range(toWorker'[WorkerOf[j]]) \subseteq Range(toWorker[WorkerOf[j]])
    BY <1>1, <1>4
  <2>4. QED
    BY <1>4, <1>5, <1>8, <1>9, <1>10, <1>14, <2>1, <2>2, <2>3 DEF ReplyRead
<1>15. ASSUME \A d \in Conns : \A x \in Range(toSup'[d]) :
                 x.op # "release" => x.arg \in Calls /\ WorkerOf[x.arg] = d
       PROVE  OwnersTold'
  <2>1. \A d \in Conns : \A x \in Range(toWorker'[d]) :
            x.op = "reply" => x.call \in Calls /\ WorkerOf[x.call] = d
    BY <1>1, <1>4 DEF OwnersTold
  <2>2. QED
    BY <1>1, <1>3, <1>15, <2>1 DEF OwnersTold, OwnEntry
<1>16. ASSUME \A j \in Calls : /\ phase'[j] = "asking" => phase[j] = "asking"
                               /\ phase'[j] = "holding" =>
                                     phase[j] = "holding" /\ ticketOf'[j] = ticketOf[j],
              SlotsInv
       PROVE  /\ GrantsBacked' /\ RepliesBacked'
              /\ HeldHere' /\ NewsTold' /\ NotedHeld'
  <2>1. GrantsBacked'
    <3>1. \A n \in answers : n.entry.request \in Calls
      BY <1>1 DEF OwnersTold, OwnEntry
    <3>2. QED
      BY <1>3, <1>12, <1>16, <3>1 DEF SlotsInv, GrantsBacked
  <2>2. RepliesBacked'
    <3>1. \A j \in Calls : \A u : Reply(j, u) \in Range(toWorker'[WorkerOf[j]]) =>
              Reply(j, u) \in Range(toWorker[WorkerOf[j]])
      BY <1>1, <1>4
    <3>2. QED
      BY <1>12, <1>13, <1>16, <3>1 DEF SlotsInv, RepliesBacked
  <2>3. HeldHere' /\ NotedHeld'
    BY <1>3, <1>12, <1>16 DEF SlotsInv, HeldHere, NotedHeld
  <2>4. NewsTold'
    <3>1. SUFFICES ASSUME NEW j \in Calls, phase'[j] = "holding", Linked(WorkerOf[j])
                   PROVE  \/ StillHeld(j, ticketOf'[j])
                          \/ \E e \in asking : e.request = j /\ e.ticket = ticketOf'[j]
                          \/ Reclaimed(ticketOf'[j]) \in Range(toWorker'[WorkerOf[j]])
                          \/ <<WorkerOf[j], ticketOf'[j]>> \in pool
                          \/ ticketOf'[j] \in wreclaimed[WorkerOf[j]]
      BY <1>3, <1>12 DEF NewsTold, StillHeld
    <3>2. phase[j] = "holding" /\ ticketOf'[j] = ticketOf[j]
      BY <1>16, <3>1
    <3>3. QED
      BY <1>9, <1>16, <3>1, <3>2 DEF SlotsInv, NewsTold
  <2>5. QED
    BY <2>1, <2>2, <2>3, <2>4
<1>17. CASE /\ k \in late /\ late' = late \ {k}
            /\ toSup' = GiveBack(toSup, c, t)
            /\ phase' = phase /\ ticketOf' = ticketOf
  <2>1. phase[k] = "done"
    BY <1>1, <1>17 DEF Expected
  <2>2. \A j \in Calls \ {k} : Awaited(j)' <=> Awaited(j)
    BY <1>17 DEF Awaited
  <2>3. ~Awaited(k)' /\ Spent(k)'
    BY <1>17, <2>1 DEF Awaited, Spent
  <2>4. /\ toSup' \in [Conns -> Seq(Requests)]
        /\ \A d \in Conns : Range(toSup[d]) \subseteq Range(toSup'[d])
        /\ t # 0 => Request("release", t) \in Range(toSup'[c])
        /\ \A d \in Conns : \A y \in Range(toSup'[d]) :
              y \in Range(toSup[d]) \/ (d = c /\ y = Request("release", t) /\ t # 0)
        /\ \A d \in Conns : OneAcquire(toSup'[d])
        /\ \A d \in Conns :
              OneRelease(toSup[d]) /\ (d = c => ~ReleaseUnderWay(c, t))
                 => OneRelease(toSup'[d])
    <3>1. CASE t = 0
      <4>1. toSup' = toSup
        BY <1>17, <3>1 DEF GiveBack
      <4>2. QED
        BY <1>1, <3>1, <4>1 DEF WorkersTyped, OnePlace
    <3>2. CASE t # 0
      <4>1. PICK o : o = "release"
        OBVIOUS
      <4>2. /\ o \in {"acquire", "release", "cancel"} /\ t \in Nat
            /\ toSup' = Post(toSup, c, Request(o, t))
        BY <1>1, <1>5, <1>17, <3>2, <4>1 DEF GiveBack
      <4>3. /\ toSup' \in [Conns -> Seq(Requests)]
            /\ \A d \in Conns : Range(toSup[d]) \subseteq Range(toSup'[d])
            /\ Request(o, t) \in Range(toSup'[c])
            /\ \A d \in Conns : \A y \in Range(toSup'[d]) :
                  y \in Range(toSup[d]) \/ (d = c /\ y = Request(o, t))
            /\ \A d \in Conns :
                  /\ (o = "acquire" /\ d = c => Request(o, t) \notin Range(toSup[c]))
                        => OneAcquire(toSup'[d])
                  /\ OneRelease(toSup[d])
                        /\ (o = "release" /\ d = c => ~ReleaseUnderWay(c, t))
                        => OneRelease(toSup'[d])
        BY <4>2, RequestPosted
      <4>4. QED
        BY <3>2, <4>1, <4>3
    <3>3. QED
      BY <3>1, <3>2
  <2>5. \A p, y : Request(p, y).op = p /\ Request(p, y).arg = y
    BY DEF Request
  <2>6. \A j \in Calls : Asked(j)' <=> Asked(j)
    BY <1>1, <2>4, <2>5 DEF Asked
  <2>7. ReplyRead(c, k, t)
    BY <1>14, <2>2, <2>6
  <2>8. WorkersTyped'
    <3>1. late' \subseteq Calls
      BY <1>1, <1>17 DEF WorkersTyped
    <3>2. QED
      BY <1>1, <1>3, <1>4, <1>17, <2>4, <3>1 DEF WorkersTyped
  <2>9. OwnersTold'
    <3>1. \A d \in Conns : \A x \in Range(toSup'[d]) :
              x.op # "release" => x.arg \in Calls /\ WorkerOf[x.arg] = d
      BY <1>1, <2>4, <2>5 DEF OwnersTold
    <3>2. QED
      BY <1>15, <3>1
  <2>10. \A j \in late' : phase'[j] = "done"
    BY <1>1, <1>17 DEF Expected
  <2>11. \A j \in Calls, u \in 1..MaxTickets : InHand(j, u) => InHand(j, u)'
    BY <1>17 DEF InHand
  <2>12. \A d \in Conns : \A u : ReleaseUnderWay(d, u) => ReleaseUnderWay(d, u)'
    BY <2>4 DEF ReleaseUnderWay
  <2>13. t # 0 => ReleaseUnderWay(c, t)'
    BY <2>4 DEF ReleaseUnderWay
  <2>14. \A d \in Conns : OneAcquire(toSup'[d]) /\ OneReply(toWorker'[d])
    BY <1>4, <2>4
  <2>15. CallsInv'
    BY <1>1, <1>3, <2>3, <2>7, <2>8, <2>9, <2>10, <2>11, <2>12, <2>13, <2>14,
       ReplyReadCalls
  <2>16. ASSUME SlotsInv PROVE SlotsInv'
    <3>1. /\ GrantsBacked' /\ RepliesBacked'
          /\ HeldHere' /\ NewsTold' /\ NotedHeld'
      BY <1>16, <1>17, <2>16
    <3>2. \A j : (Backed(j, ticketOf[j])' <=> Backed(j, ticketOf[j]))
                 /\ (StillHeld(j, ticketOf[j])' <=> StillHeld(j, ticketOf[j]))
      BY <1>3, <1>17 DEF Backed, StillHeld
    <3>3. HandsBacked'
      BY <1>12, <1>17, <2>16, <3>2 DEF SlotsInv, HandsBacked, InHand
    <3>4. t # 0 /\ Linked(c) => \E e \in held \cup reclaimed :
              e.request = k /\ e.ticket = t /\ e.owner = c
      <4>1. t # 0 => t \in 1..MaxTickets
        BY <1>1, <1>5
      <4>2. t # 0 /\ Linked(c) => Backed(k, t)
        BY <1>4, <1>8, <2>16, <4>1 DEF SlotsInv, RepliesBacked
      <4>3. \A e \in held \cup reclaimed : e.request = k => e.owner = c
        BY <1>1, <1>4 DEF OwnersTold, OwnEntry
      <4>4. QED
        BY <4>2, <4>3 DEF Backed
    <3>5. t # 0 /\ Linked(c) => ~ReleaseUnderWay(c, t)
      <4>1. SUFFICES ASSUME t # 0, Linked(c), ReleaseUnderWay(c, t) PROVE FALSE
        OBVIOUS
      <4>2. t \in 1..MaxTickets
        BY <1>1, <1>5, <4>1
      <4>3. PICK e \in held \cup reclaimed : e.ticket = t /\ Spent(e.request)
        BY <2>16, <4>1, <4>2 DEF SlotsInv, ReleasesBacked
      <4>4. PICK f \in held \cup reclaimed : f.request = k /\ f.ticket = t
        BY <3>4, <4>1
      <4>5. e = f
        BY <4>3, <4>4 DEF TicketsInv, AnsweredOnce
      <4>6. QED
        BY <1>17, <4>3, <4>4, <4>5 DEF Spent
    <3>6. \A d \in Conns : \A u : ReleaseUnderWay(d, u)' =>
              ReleaseUnderWay(d, u) \/ (d = c /\ u = t /\ t # 0)
      BY <2>4, <2>5 DEF ReleaseUnderWay
    <3>7. \A j \in Calls : Spent(j) => Spent(j)'
      BY <1>17 DEF Spent
    <3>8. \A e \in held \cup reclaimed : e.request \in Calls
      BY <1>1 DEF OwnersTold, OwnEntry
    <3>9. ReleasesBacked'
      <4>1. ASSUME NEW d \in Conns, Linked(d)', NEW u \in 1..MaxTickets,
                   ReleaseUnderWay(d, u)'
            PROVE  \E e \in held' \cup reclaimed' :
                       e.ticket = u /\ e.owner = d /\ Spent(e.request)'
        <5>1. Linked(d)
          BY <1>12, <4>1
        <5>2. CASE ReleaseUnderWay(d, u)
          <6>1. PICK e \in held \cup reclaimed :
                    e.ticket = u /\ e.owner = d /\ Spent(e.request)
            BY <2>16, <5>1, <5>2 DEF SlotsInv, ReleasesBacked
          <6>2. QED
            BY <1>3, <3>7, <3>8, <6>1
        <5>3. CASE d = c /\ u = t /\ t # 0
          <6>1. PICK e \in held \cup reclaimed :
                    e.request = k /\ e.ticket = t /\ e.owner = c
            BY <3>4, <5>1, <5>3
          <6>2. QED
            BY <1>3, <2>3, <5>3, <6>1
        <5>4. QED
          BY <3>6, <4>1, <5>2, <5>3
      <4>2. ASSUME NEW d \in Conns, Linked(d)' PROVE OneRelease(toSup'[d])
        <5>1. Linked(d) /\ OneRelease(toSup[d])
          BY <1>12, <2>16, <4>2 DEF SlotsInv, ReleasesBacked
        <5>2. CASE t = 0
          <6>1. toSup' = toSup
            BY <1>17, <5>2 DEF GiveBack
          <6>2. QED
            BY <5>1, <6>1
        <5>3. CASE t # 0
          BY <2>4, <3>5, <5>1, <5>3
        <5>4. QED
          BY <5>2, <5>3
      <4>3. QED
        BY <4>1, <4>2 DEF ReleasesBacked
    <3>10. QED
      BY <3>1, <3>3, <3>9 DEF SlotsInv
  <2>17. QED
    BY <2>15, <2>16
<1>18. CASE /\ k \notin late /\ late' = late /\ toSup' = toSup
            /\ phase' = [phase EXCEPT ![k] = IF @ = "asking" THEN "answered" ELSE @]
            /\ ticketOf' = [ticketOf EXCEPT ![k] = t]
  <2>1. phase[k] = "asking"
    BY <1>6, <1>18 DEF Awaited
  <2>2. /\ phase' \in [Calls -> Phases] /\ phase'[k] = "answered"
        /\ ticketOf' \in [Calls -> 0..MaxTickets] /\ ticketOf'[k] = t
        /\ \A j \in Calls \ {k} : phase'[j] = phase[j] /\ ticketOf'[j] = ticketOf[j]
    BY <1>1, <1>4, <1>5, <1>18, <2>1 DEF WorkersTyped, Phases
  <2>3. \A j \in Calls \ {k} : Awaited(j)' <=> Awaited(j)
    BY <1>18, <2>2 DEF Awaited
  <2>4. ~Awaited(k)'
    BY <1>18, <2>2 DEF Awaited
  <2>5. \A j \in Calls : Asked(j)' <=> Asked(j)
    BY <1>18 DEF Asked
  <2>6. ReplyRead(c, k, t)
    BY <1>14, <2>3, <2>5
  <2>7. WorkersTyped'
    BY <1>1, <1>3, <1>4, <1>18, <2>2 DEF WorkersTyped
  <2>8. OwnersTold'
    <3>1. \A d \in Conns : \A x \in Range(toSup'[d]) :
              x.op # "release" => x.arg \in Calls /\ WorkerOf[x.arg] = d
      BY <1>1, <1>18 DEF OwnersTold
    <3>2. QED
      BY <1>15, <3>1
  <2>9. \A j \in late' : phase'[j] = "done"
    BY <1>1, <1>18, <2>2 DEF Expected, WorkersTyped
  <2>10. \A j \in Calls, u \in 1..MaxTickets : InHand(j, u) => InHand(j, u)'
    BY <2>1, <2>2 DEF InHand
  <2>11. \A d \in Conns : \A u : ReleaseUnderWay(d, u)' <=> ReleaseUnderWay(d, u)
    BY <1>18 DEF ReleaseUnderWay
  <2>12. InHand(k, t)'
    BY <2>2 DEF InHand
  <2>13. \A d \in Conns : OneAcquire(toSup'[d]) /\ OneReply(toWorker'[d])
    BY <1>1, <1>4, <1>18 DEF OnePlace
  <2>14. CallsInv'
    BY <1>1, <1>3, <2>4, <2>6, <2>7, <2>8, <2>9, <2>10, <2>11, <2>12, <2>13,
       ReplyReadCalls
  <2>15. ASSUME SlotsInv PROVE SlotsInv'
    <3>1. /\ GrantsBacked' /\ RepliesBacked'
          /\ HeldHere' /\ NewsTold' /\ NotedHeld'
      <4>1. \A j \in Calls : /\ phase'[j] = "asking" => phase[j] = "asking"
                             /\ phase'[j] = "holding" =>
                                   phase[j] = "holding" /\ ticketOf'[j] = ticketOf[j]
        BY <2>1, <2>2
      <4>2. QED
        BY <1>16, <2>15, <4>1
    <3>2. HandsBacked'
      <4>1. SUFFICES ASSUME NEW j \in Calls,
                            phase'[j] \in {"answered", "holding", "releasing"}
                     PROVE  /\ phase'[j] \in {"holding", "releasing"} => ticketOf'[j] # 0
                            /\ ticketOf'[j] # 0 /\ Linked(WorkerOf[j])' =>
                                  /\ Backed(j, ticketOf[j])'
                                  /\ phase'[j] = "answered" => StillHeld(j, ticketOf[j])'
        BY DEF HandsBacked, InHand
      <4>2. CASE j = k
        <5>1. t # 0 => t \in 1..MaxTickets
          BY <1>1, <1>5
        <5>2. t # 0 /\ Linked(c) => Backed(k, t) /\ StillHeld(k, t)
          BY <1>4, <1>8, <2>1, <2>15, <5>1 DEF SlotsInv, RepliesBacked
        <5>3. QED
          BY <1>3, <1>4, <1>12, <2>2, <4>2, <5>2 DEF Backed, StillHeld
      <4>3. CASE j # k
        <5>1. phase'[j] = phase[j] /\ ticketOf'[j] = ticketOf[j]
          BY <2>2, <4>3
        <5>2. /\ phase[j] \in {"holding", "releasing"} => ticketOf[j] # 0
              /\ ticketOf[j] # 0 /\ Linked(WorkerOf[j]) =>
                    /\ Backed(j, ticketOf[j])
                    /\ phase[j] = "answered" => StillHeld(j, ticketOf[j])
          BY <2>15, <4>1, <5>1 DEF SlotsInv, HandsBacked, InHand
        <5>3. QED
          BY <1>3, <1>12, <5>1, <5>2 DEF Backed, StillHeld
      <4>4. QED
        BY <4>2, <4>3
    <3>3. ReleasesBacked'
      <4>1. \A j \in Calls : Spent(j) => Spent(j)'
        BY <1>18, <2>1, <2>2 DEF Spent
      <4>2. \A e \in held \cup reclaimed : e.request \in Calls
        BY <1>1 DEF OwnersTold, OwnEntry
      <4>3. QED
        BY <1>3, <1>12, <1>18, <2>11, <2>15, <4>1, <4>2 DEF SlotsInv, ReleasesBacked
    <3>4. QED
      BY <3>1, <3>2, <3>3 DEF SlotsInv
  <2>16. QED
    BY <2>14, <2>15
<1>19. QED
  BY <1>3, <1>17, <1>18

----------------------------------------------------------------------------
(* What the workers do is, to the queue, what any callers may do. *)
LEMMA QueueTakesPart ==
    ASSUME TicketsInv, CallsInv, [Next]_vars
    PROVE  [AnyNext]_queueVars
<1>1. CASE \E k \in Calls : CallSteps(k)
  <2>1. UNCHANGED queueVars
    BY <1>1 DEF CallSteps, Ask, TakeAnswer, GiveUp, CallOff, Withdraw, Finish,
                SendRelease
  <2>2. QED
    BY <2>1
<1>2. ASSUME NEW c \in Conns, ReadReply(c) \/ ReadReclaim(c) \/ Crash(c)
      PROVE  UNCHANGED queueVars
  BY <1>2 DEF ReadReply, ReadReclaim, Crash
<1>3. ASSUME NEW c \in Conns, Receive(c) PROVE [AnyNext]_queueVars
  <2>1. PICK m : m = Head(toSup[c])
    OBVIOUS
  <2>2. toSup[c] # <<>> /\ toSup' = Drop(toSup, c)
    BY <1>3 DEF Receive
  <2>3. m.arg \in Nat /\ (m.op = "acquire" => m.arg \in Calls)
    BY <2>1, <2>2, ReadingOne
  <2>4. CASE m.op = "acquire" /\ Acquire(c, LaneOf[m.arg], AccountOf[m.arg], m.arg)
    <3>1. /\ LaneOf[m.arg] \in Lanes
          /\ AccountOf[m.arg] \in Accounts \cup {NoAccount}
      BY <2>3, <2>4, CallConstants
    <3>2. QED
      BY <2>3, <2>4, <3>1 DEF AnyNext, AnyWorkerCall
  <2>5. CASE Release(c, m.arg)
    BY <2>3, <2>5 DEF AnyNext, AnyWorkerCall
  <2>6. CASE Cancel(c, m.arg)
    BY <2>3, <2>6 DEF AnyNext, AnyWorkerCall
  <2>7. QED
    BY <1>3, <2>1, <2>4, <2>5, <2>6 DEF Receive
<1>4. ASSUME NEW c \in Conns, SeeClose(c) PROVE [AnyNext]_queueVars
  BY <1>4 DEF SeeClose, AnyNext, AnyWorkerCall
<1>5. CASE \E p \in pool : NoteReclaim(p[1], p[2])
  BY <1>5 DEF NoteReclaim
<1>6. CASE \E m \in answers : Send(m)
  BY <1>6 DEF Send, AnyNext, Sending
<1>7. CASE \E W \in SUBSET waiting, H \in SUBSET LongHeld : Expire(W, H)
  <2>1. PICK W \in SUBSET waiting, H \in SUBSET LongHeld : Expire(W, H)
    BY <1>7
  <2>2. H \in SUBSET held /\ Deadlines(W, H)
    BY <2>1 DEF LongHeld, Expire
  <2>3. DeadlinePass
    BY <2>1, <2>2 DEF DeadlinePass
  <2>4. QED
    BY <2>3 DEF AnyNext
<1>8. CASE \E e \in asking : TellReclaimed(e)
  BY <1>8 DEF TellReclaimed
<1>9. CASE UNCHANGED vars
  BY <1>9 DEF vars
<1>10. QED
  BY <1>1, <1>2, <1>3, <1>4, <1>5, <1>6, <1>7, <1>8, <1>9 DEF Next, ConnSteps

(* A step that changes nothing. *)
LEMMA StandingStill ==
    ASSUME CallsInv, UNCHANGED vars
    PROVE  CallsInv' /\ (SlotsInv => SlotsInv')
<1>1. /\ UNCHANGED <<waiting, held, reclaimed, closed, answers>>
      /\ UNCHANGED workerVars
  BY DEF vars, queueVars
<1>2. CallsInv'
  BY <1>1 DEF CallsInv, WorkersTyped, OwnersTold, OwnEntry, OnePlace, Expected,
     NoOrphanTicket, NoLostCall, UnderWay, Asked, Waits, Answered, Replied,
     Awaited, Linked, GrantUnderWay, InHand, ReleaseUnderWay, workerVars
<1>3. ASSUME SlotsInv PROVE SlotsInv'
  <2>1. GrantsBacked' /\ RepliesBacked' /\ HandsBacked'
    BY <1>1, <1>3 DEF SlotsInv, GrantsBacked, RepliesBacked, HandsBacked,
       Backed, StillHeld, Linked, InHand, workerVars
  <2>2. ReleasesBacked' /\ HeldHere' /\ NewsTold' /\ NotedHeld'
    BY <1>1, <1>3 DEF SlotsInv, ReleasesBacked, HeldHere, NewsTold, NotedHeld,
       StillHeld, Linked, ReleaseUnderWay, Spent, workerVars
  <2>3. QED
    BY <2>1, <2>2 DEF SlotsInv
<1>4. QED
  BY <1>2, <1>3

(* The invariants hold at first, and every step keeps them: the calls' in   *)
(* any case, the slots' while no reclaimed ticket is forgotten.             *)
LEMMA WorkersInit ==
    ASSUME Init
    PROVE  TicketsInv /\ CallsInv /\ SlotsInv
<1>1. /\ QueueInit /\ waiting = {} /\ held = {} /\ reclaimed = {} /\ answers = {}
      /\ closed = {}
      /\ phase = [k \in Calls |-> "new"] /\ ticketOf = [k \in Calls |-> 0]
      /\ late = {} /\ withdrawing = {} /\ alive = Conns
      /\ toSup = [c \in Conns |-> <<>>] /\ toWorker = [c \in Conns |-> <<>>]
      /\ pool = {} /\ asking = {}
      /\ wheld = [c \in Conns |-> {}] /\ wreclaimed = [c \in Conns |-> {}]
      /\ \A k \in Calls : WorkerOf[k] \in Conns
      /\ MaxTickets \in Nat
  BY CallConstants, QueueConstants DEF Init, QueueInit
<1>2. TicketsInv
  BY <1>1, TypeInit DEF QueueInit, TicketsInv, AnsweredOnce, Numbered
<1>3. /\ Range(<<>>) = {} /\ OneAcquire(<<>>) /\ OneRelease(<<>>) /\ OneReply(<<>>)
  BY DEF Range, OneAcquire, OneRelease, OneReply
<1>4. \A c \in Conns : toSup[c] = <<>> /\ toWorker[c] = <<>>
  BY <1>1
<1>5. WorkersTyped
  <2>1. <<>> \in Seq(Requests) /\ <<>> \in Seq(News)
    OBVIOUS
  <2>2. 0 \in 0..MaxTickets
    BY <1>1
  <2>3. QED
    BY <1>1, <2>1, <2>2 DEF WorkersTyped, Phases
<1>6. \A k \in Calls : ~UnderWay(k)
  BY <1>1, <1>3, <1>4 DEF UnderWay, Asked, Waits, Answered, Replied
<1>7. OwnersTold /\ OnePlace /\ Expected
  <2>1. OwnersTold
    BY <1>1, <1>3, <1>4 DEF OwnersTold
  <2>2. OnePlace
    BY <1>1, <1>3, <1>4, <1>6 DEF OnePlace, UnderWay
  <2>3. Expected
    BY <1>1, <1>6 DEF Expected
  <2>4. QED
    BY <2>1, <2>2, <2>3
<1>8. NoOrphanTicket /\ NoLostCall
  BY <1>1 DEF NoOrphanTicket, NoLostCall
<1>9. SlotsInv
  <2>1. GrantsBacked /\ RepliesBacked /\ HandsBacked
    BY <1>1, <1>3, <1>4 DEF GrantsBacked, RepliesBacked, HandsBacked, InHand
  <2>2. ReleasesBacked /\ HeldHere /\ NewsTold /\ NotedHeld
    BY <1>1, <1>3, <1>4 DEF ReleasesBacked, ReleaseUnderWay, HeldHere, NewsTold,
       NotedHeld
  <2>3. QED
    BY <2>1, <2>2 DEF SlotsInv
<1>10. QED
  BY <1>2, <1>5, <1>7, <1>8, <1>9 DEF CallsInv

(* Every step of the specification keeps them. *)
LEMMA WorkersStep ==
    ASSUME TicketsInv, CallsInv, [Next]_vars
    PROVE  /\ TicketsInv' /\ CallsInv'
           /\ Roomy /\ SlotsInv => SlotsInv'
<1>1. TicketsInv'
  BY QueueTakesPart, TicketsStep
<1>2. CASE \E k \in Calls : CallSteps(k)
  <2>1. PICK k \in Calls : CallSteps(k)
    BY <1>2
  <2>2. CallsInv' /\ (SlotsInv => SlotsInv')
    BY <2>1, AskStep, TakeAnswerStep, GiveUpStep, CallOffStep, WithdrawStep,
       FinishStep, SendReleaseStep DEF CallSteps
  <2>3. QED
    BY <1>1, <2>2
<1>3. CASE \E c \in Conns : ConnSteps(c)
  <2>1. PICK c \in Conns : ConnSteps(c)
    BY <1>3
  <2>2. CASE ReadReply(c) \/ ReadReclaim(c) \/ Crash(c)
    BY <1>1, <2>2, ReadReplyStep, ReadReclaimStep, CrashStep
  <2>3. CASE Receive(c) \/ SeeClose(c)
    <3>1. /\ SupervisorStep /\ (SlotsInv => Forgets)
          /\ toSup' \in [Conns -> Seq(Requests)]
          /\ asking' = asking
      BY <2>3, ReceiveStep, SeeCloseStep
    <3>2. asking' \subseteq Entry
      BY <3>1 DEF CallsInv, WorkersTyped
    <3>3. QED
      BY <1>1, <3>1, <3>2, SupervisorKeeps
  <2>4. QED
    BY <2>1, <2>2, <2>3 DEF ConnSteps
<1>4. CASE \E p \in pool : NoteReclaim(p[1], p[2])
  <2>1. PICK p \in pool : NoteReclaim(p[1], p[2])
    BY <1>4
  <2>2. PICK c, t : c = p[1] /\ t = p[2]
    OBVIOUS
  <2>3. c \in Conns /\ t \in Nat
    BY <2>1, <2>2 DEF CallsInv, WorkersTyped
  <2>4. NoteReclaim(c, t)
    BY <2>1, <2>2
  <2>5. QED
    BY <1>1, <2>3, <2>4, NoteReclaimStep
<1>5. CASE \E m \in answers : Send(m)
  BY <1>1, <1>5, SendStep
<1>6. CASE \E W \in SUBSET waiting, H \in SUBSET LongHeld : Expire(W, H)
  <2>1. /\ SupervisorStep /\ (Roomy => Forgets)
        /\ toSup' \in [Conns -> Seq(Requests)]
        /\ asking' \subseteq Entry
    BY <1>6, ExpireStep
  <2>2. QED
    BY <1>1, <2>1, SupervisorKeeps
<1>7. CASE \E e \in asking : TellReclaimed(e)
  BY <1>1, <1>7, TellReclaimedStep
<1>8. CASE UNCHANGED vars
  BY <1>1, <1>8, StandingStill
<1>9. QED
  BY <1>2, <1>3, <1>4, <1>5, <1>6, <1>7, <1>8 DEF Next

----------------------------------------------------------------------------
(* No slot leaks: a ticket counted as held is on its way to a thread, with  *)
(* one that will give it back, or on its way back, whoever times out, is    *)
(* called off or answered too late, and however much the memory of          *)
(* reclaimed tickets forgets (RemoteLanes, _late).                          *)
THEOREM NoOrphanTicketHolds == Spec => []NoOrphanTicket
<1>1. Init => TicketsInv /\ CallsInv
  BY WorkersInit
<1>2. TicketsInv /\ CallsInv /\ [Next]_vars => (TicketsInv /\ CallsInv)'
  BY WorkersStep
<1>3. CallsInv => NoOrphanTicket
  BY DEF CallsInv
<1>4. QED
  BY <1>1, <1>2, <1>3, PTL DEF Spec

(* Each call gets its answer, and one answer only, whatever the callers and *)
(* the connections do: the queue's half from TicketsInv, the bus's from     *)
(* CallsInv.                                                                *)
THEOREM OneAnswerEachHolds == Spec => []OneAnswerEach
<1>1. Init => TicketsInv /\ CallsInv
  BY WorkersInit
<1>2. TicketsInv /\ CallsInv /\ [Next]_vars => (TicketsInv /\ CallsInv)'
  BY WorkersStep
<1>3. TicketsInv /\ CallsInv => OneAnswerEach
  BY DEF TicketsInv, CallsInv, OneAnswerEach
<1>4. QED
  BY <1>1, <1>2, <1>3, PTL DEF Spec

(* Both sides agree on what was taken back, as long as the supervisor's     *)
(* memory (MAX_RECLAIMED) has room for the tickets out at a time: beyond it *)
(* the queue itself forgets one, and refuses its late release.              *)
THEOREM ReclaimsAgreeHolds == Spec /\ []Roomy => []ReclaimsAgree
<1> DEFINE Inv == TicketsInv /\ CallsInv /\ SlotsInv
<1>1. Init => Inv
  BY WorkersInit
<1>2. Inv /\ Roomy /\ [Next]_vars => Inv'
  BY WorkersStep
<1>3. Inv => ReclaimsAgree
  <2>1. SUFFICES ASSUME Inv PROVE NoStrayRelease /\ ReclaimIsHeard
    BY DEF ReclaimsAgree
  <2>2. NoStrayRelease
    BY <2>1 DEF NoStrayRelease, SlotsInv, ReleasesBacked, NotedHeld, Known
  <2>3. ReclaimIsHeard
    BY <2>1 DEF ReclaimIsHeard, SlotsInv, NewsTold, StillHeld
  <2>4. QED
    BY <2>2, <2>3
<1>4. QED
  BY <1>1, <1>2, <1>3, PTL DEF Spec

----------------------------------------------------------------------------
(* The refinement: LaneQueue, checked alone, names a request by its ticket. *)
(* The mapping: an entry is named by its ticket, whatever its request was.  *)
Ren(e) == [e EXCEPT !.request = e.ticket]

RenAnswer(m) == [m EXCEPT !.entry.request = m.entry.ticket]

RenamedAnswers(A) == {RenAnswer(m) : m \in A}

(* No two of D are one ticket's, so renaming keeps them apart. *)
OfOneTicketEach(D) ==
    D \subseteq Entry /\ \A e, f \in D : e.ticket = f.ticket => e = f

(* What renaming leaves as it was, and what it changes.                     *)
LEMMA RenIs ==
    ASSUME NEW e \in Entry
    PROVE  /\ Ren(e) \in Entry
           /\ Ren(e).ticket = e.ticket /\ Ren(e).lane = e.lane
           /\ Ren(e).account = e.account /\ Ren(e).owner = e.owner
           /\ Ren(e).request = e.ticket /\ Story(Ren(e)) = Story(e)
<1>1. MaxTickets \in Nat
  BY QueueConstants
<1>2. e.ticket \in Nat
  BY <1>1 DEF Entry
<1>3. QED
  BY <1>2 DEF Entry, Ren, Story

(* The mapping of WorkerLanes, entry by entry.                              *)
LEMMA RenamedIs ==
    ASSUME NEW S
    PROVE  Renamed(S) = {Ren(e) : e \in S}
  BY DEF Renamed, Ren

(* Renaming the answers to S is answering the renamed S.                    *)
LEMMA RenamedReplies ==
    ASSUME NEW S \in SUBSET Entry, NEW r
    PROVE  RenamedAnswers(Replies(S, r)) = Replies(Renamed(S), r)
<1>1. \A e \in S : RenAnswer([entry |-> e, result |-> r])
                      = [entry |-> Ren(e), result |-> r]
  BY DEF RenAnswer, Ren
<1>2. RenamedAnswers(Replies(S, r)) = {RenAnswer([entry |-> e, result |-> r]) : e \in S}
  BY DEF RenamedAnswers, Replies
<1>3. Replies(Renamed(S), r) = {[entry |-> Ren(e), result |-> r] : e \in S}
  BY RenamedIs DEF Replies
<1> HIDE DEF RenAnswer
<1>4. QED
  BY <1>1, <1>2, <1>3

(* An answer taken out before or after renaming.                            *)
LEMMA RenamedLess ==
    ASSUME NEW A \in SUBSET Answer, NEW m \in A,
           \A n \in A : n.entry.ticket = m.entry.ticket => n = m
    PROVE  RenamedAnswers(A \ {m}) = RenamedAnswers(A) \ {RenAnswer(m)}
<1>1. \A n \in A : RenAnswer(n).entry.ticket = n.entry.ticket
  BY DEF RenAnswer, Answer, Entry
<1>2. \A n \in A : RenAnswer(n) = RenAnswer(m) => n = m
  BY <1>1
<1> HIDE DEF RenAnswer
<1>3. QED
  BY <1>2 DEF RenamedAnswers

(* Renaming joins as sets join ...                                          *)
LEMMA RenamedCup ==
    ASSUME NEW S, NEW T
    PROVE  Renamed(S \cup T) = Renamed(S) \cup Renamed(T)
  BY DEF Renamed

(* ... and takes out as they do, the tickets being apart ...                *)
LEMMA RenamedMinus ==
    ASSUME NEW D, OfOneTicketEach(D), NEW S \in SUBSET D, NEW T \in SUBSET D
    PROVE  Renamed(S \ T) = Renamed(S) \ Renamed(T)
<1>1. \A e, f \in D : Ren(e) = Ren(f) => e = f
  BY RenIs DEF OfOneTicketEach
<1>2. QED
  BY <1>1, RenamedIs

(* ... and one alone.                                                       *)
LEMMA RenamedOne ==
    ASSUME NEW e
    PROVE  Renamed({e}) = {Ren(e)}
  BY RenamedIs

(* ... one entry, in particular ...                                         *)
LEMMA RenamedWithout ==
    ASSUME NEW D, OfOneTicketEach(D), NEW e \in D
    PROVE  Renamed(D \ {e}) = Renamed(D) \ {Ren(e)} /\ Ren(e) \in Renamed(D)
<1>1. {e} \in SUBSET D
  OBVIOUS
<1>2. Renamed(D \ {e}) = Renamed(D) \ Renamed({e})
  BY <1>1, RenamedMinus
<1>3. QED
  BY <1>2, RenamedIs

(* Renaming keeps what is part of what ...                                  *)
LEMMA RenamedSub ==
    ASSUME NEW S, NEW T, S \subseteq T
    PROVE  Renamed(S) \subseteq Renamed(T)
  BY DEF Renamed

(* ... what is in which lane ...                                            *)
LEMMA RenamedInLane ==
    ASSUME NEW S \in SUBSET Entry, NEW l
    PROVE  Renamed(InLane(S, l)) = InLane(Renamed(S), l)
  BY RenIs, RenamedIs DEF InLane

(* ... and how many there are: no more than the tickets.                    *)
LEMMA OneTicketEachFinite ==
    ASSUME NEW D, OfOneTicketEach(D)
    PROVE  /\ IsFiniteSet(D) /\ IsFiniteSet(Renamed(D))
           /\ Cardinality(Renamed(D)) = Cardinality(D)
<1> DEFINE f == [e \in D |-> e.ticket]
           g == [e \in D |-> Ren(e)]
<1>1. IsFiniteSet(1..MaxTickets)
  BY FS_Interval, QueueConstants
<1>2. f \in Injection(D, 1..MaxTickets)
  <2>1. \A e \in D : e.ticket \in 1..MaxTickets
    BY DEF OfOneTicketEach, Entry
  <2>2. f \in [D -> 1..MaxTickets] /\ DOMAIN f = D
    BY <2>1
  <2>3. \A e, h \in D : f[e] = f[h] => e = h
    BY DEF OfOneTicketEach
  <2>4. QED
    BY <2>2, <2>3 DEF Injection, IsInjective
<1>3. IsFiniteSet(D)
  BY <1>1, <1>2, FS_Injection
<1>4. g \in Bijection(D, Renamed(D))
  <2>1. \A e, h \in D : Ren(e) = Ren(h) => e = h
    BY RenIs DEF OfOneTicketEach
  <2>2. Renamed(D) = {Ren(e) : e \in D}
    BY RenamedIs
  <2>3. g \in [D -> Renamed(D)] /\ DOMAIN g = D
    BY <2>2
  <2>4. \A e, h \in D : g[e] = g[h] => e = h
    BY <2>1
  <2>5. \A t \in Renamed(D) : \E e \in D : g[e] = t
    BY <2>2
  <2>6. QED
    BY <2>3, <2>4, <2>5 DEF Bijection, Injection, Surjection, IsInjective
<1> HIDE DEF f, g
<1>5. QED
  BY <1>3, <1>4, FS_Bijection DEF ExistsBijection

(* The pure operators of the instance are the queue's own.                  *)
LEMMA QueueGrants ==
    ASSUME NEW W, NEW H, NEW lim, NEW P
    PROVE  Queue!Grants(W, H, lim, P) = Grants(W, H, lim, P)
<1>1. \A S : Queue!Cardinality(S) = Cardinality(S)
  BY DEF Queue!Cardinality, Cardinality
<1>2. \A S, l : Queue!InLane(S, l) = InLane(S, l)
  BY DEF Queue!InLane, InLane
<1>3. \A e : Queue!Eligible(e, H, P) <=> Eligible(e, H, P)
  BY <1>2 DEF Queue!Eligible, Eligible, Queue!HoldsNarration, HoldsNarration, Queue!Story, Story
<1>4. QED
  BY <1>1, <1>2, <1>3 DEF Queue!Grants, Grants

(* The others likewise, and those that read no renamed variable.            *)
LEMMA QueueOperators ==
    ASSUME NEW S, NEW r, NEW l, NEW all, NEW some
    PROVE  /\ Queue!Replies(S, r) = Replies(S, r)
           /\ Queue!InLane(S, l) = InLane(S, l)
           /\ Queue!PausedStories(all, some) = PausedStories(all, some)
           /\ Queue!Opened(l) = Opened(l)
           /\ Queue!Story(r) = Story(r)
           /\ Queue!Cardinality(S) = Cardinality(S)
BY DEF Queue!Replies, Replies, Queue!InLane, InLane, Queue!PausedStories, PausedStories,
       Queue!Opened, Opened, Queue!Story, Story, Queue!Cardinality, Cardinality

(* Who may be admitted does not depend on the request.                      *)
LEMMA EligibleRenamed ==
    ASSUME NEW H \in SUBSET Entry, NEW P, NEW e \in Entry
    PROVE  Eligible(Ren(e), Renamed(H), P) <=> Eligible(e, H, P)
<1>1. /\ Ren(e).account = e.account /\ Ren(e).lane = e.lane /\ Ren(e).owner = e.owner
      /\ Story(Ren(e)) = Story(e)
  BY RenIs
<1>2. \A h \in H : Ren(h).account = h.account /\ Ren(h).lane = h.lane /\ Ren(h).owner = h.owner
  BY RenIs
<1>3. HoldsNarration(Ren(e), Renamed(H)) <=> HoldsNarration(e, H)
  BY <1>1, <1>2, RenamedIs DEF HoldsNarration, InLane
<1>4. QED
  BY <1>1, <1>3 DEF Eligible

(* The free slots go to the same entries, renamed or not.                   *)
LEMMA GrantsRenamed ==
    ASSUME NEW W, NEW H, NEW lim, NEW P, OfOneTicketEach(W \cup H),
           NEW G \in Grants(W, H, lim, P)
    PROVE  Renamed(G) \in Queue!Grants(Renamed(W), Renamed(H), lim, P)
<1>1. /\ W \in SUBSET Entry /\ H \in SUBSET Entry /\ G \in SUBSET W
      /\ \A e, f \in W \cup H : e.ticket = f.ticket => e = f
  BY DEF OfOneTicketEach, Grants
<1>2. \A e \in Entry : Ren(e).ticket = e.ticket /\ Ren(e).lane = e.lane
  BY RenIs
<1>3. \A e \in Entry : Eligible(Ren(e), Renamed(H), P) <=> Eligible(e, H, P)
  BY <1>1, EligibleRenamed
<1>4. Renamed(G) \subseteq Renamed(W) /\ Renamed(W \ G) = Renamed(W) \ Renamed(G)
  <2>1. OfOneTicketEach(W)
    BY <1>1 DEF OfOneTicketEach
  <2>2. QED
    BY <1>1, <2>1, RenamedSub, RenamedMinus
<1>5. /\ \A g \in G : Eligible(g, H, P)
      /\ \A g \in G, u \in W \ G :
            u.lane = g.lane /\ Eligible(u, H, P) => g.ticket < u.ticket
  BY DEF Grants
<1>6. \A g \in Renamed(G) : Eligible(g, Renamed(H), P)
  BY <1>1, <1>3, <1>5, RenamedIs
<1>7. ASSUME NEW g \in Renamed(G), NEW u \in Renamed(W) \ Renamed(G),
             u.lane = g.lane, Eligible(u, Renamed(H), P)
      PROVE  g.ticket < u.ticket
  <2>1. PICK d \in G : g = Ren(d)
    BY RenamedIs
  <2>2. PICK v \in W \ G : u = Ren(v)
    BY <1>4, RenamedIs
  <2>3. d \in Entry /\ v \in Entry
    BY <1>1
  <2>4. QED
    BY <1>2, <1>3, <1>5, <1>7, <2>1, <2>2, <2>3
<1>8. ASSUME NEW l \in Lanes
      PROVE  LET free    == lim[l] - Cardinality(InLane(Renamed(H), l))
                 granted == Cardinality(InLane(Renamed(G), l))
             IN  /\ granted > 0 => granted <= free
                 /\ granted >= free \/
                      \A u \in InLane(Renamed(W) \ Renamed(G), l) :
                          ~Eligible(u, Renamed(H), P)
  <2>1. /\ OfOneTicketEach(InLane(H, l)) /\ OfOneTicketEach(InLane(G, l))
    BY <1>1 DEF OfOneTicketEach, InLane
  <2>2. /\ Cardinality(InLane(Renamed(H), l)) = Cardinality(InLane(H, l))
        /\ Cardinality(InLane(Renamed(G), l)) = Cardinality(InLane(G, l))
    BY <1>1, <2>1, OneTicketEachFinite, RenamedInLane
  <2>3. LET free    == lim[l] - Cardinality(InLane(H, l))
            granted == Cardinality(InLane(G, l))
        IN  /\ granted > 0 => granted <= free
            /\ granted >= free \/ \A u \in InLane(W \ G, l) : ~Eligible(u, H, P)
    BY DEF Grants
  <2>4. ASSUME \A u \in InLane(W \ G, l) : ~Eligible(u, H, P),
               NEW u \in InLane(Renamed(W) \ Renamed(G), l)
        PROVE  ~Eligible(u, Renamed(H), P)
    <3>1. u \in Renamed(W \ G) /\ u.lane = l
      BY <1>4 DEF InLane
    <3>2. PICK v \in W \ G : u = Ren(v)
      BY <3>1, RenamedIs
    <3>3. v \in Entry /\ v \in InLane(W \ G, l)
      BY <1>1, <1>2, <3>1, <3>2 DEF InLane
    <3>4. QED
      BY <1>3, <2>4, <3>2, <3>3
  <2>5. QED
    BY <2>2, <2>3, <2>4
<1>9. Renamed(G) \in Grants(Renamed(W), Renamed(H), lim, P)
  BY <1>4, <1>6, <1>7, <1>8 DEF Grants
<1>10. QED
  BY <1>9, QueueGrants

(* An operation that ends in grants: its end maps to the same end.          *)
LEMMA GrantThenSendRenamed ==
    ASSUME NEW W, NEW H, NEW lim, NEW P, NEW sent,
           OfOneTicketEach(W \cup H), GrantThenSend(W, H, lim, P, sent)
    PROVE  Queue!GrantThenSend(Renamed(W), Renamed(H), lim, P, RenamedAnswers(sent))
<1>1. PICK G \in Grants(W, H, lim, P) :
          /\ waiting' = W \ G
          /\ held' = H \cup G
          /\ answers' = answers \cup sent \cup Replies(G, "granted")
  BY DEF GrantThenSend
<1>2. Renamed(G) \in Queue!Grants(Renamed(W), Renamed(H), lim, P)
  BY GrantsRenamed
<1>3. G \subseteq W /\ OfOneTicketEach(W) /\ G \in SUBSET Entry
  BY DEF Grants, OfOneTicketEach
<1>4. Renamed(W \ G) = Renamed(W) \ Renamed(G) /\ Renamed(H \cup G) = Renamed(H) \cup Renamed(G)
  BY <1>3, RenamedMinus, RenamedCup
<1>5. RenamedAnswers(answers \cup sent \cup Replies(G, "granted"))
          = RenamedAnswers(answers) \cup RenamedAnswers(sent)
                \cup Queue!Replies(Renamed(G), "granted")
  <2>1. RenamedAnswers(answers \cup sent \cup Replies(G, "granted"))
          = RenamedAnswers(answers) \cup RenamedAnswers(sent)
                \cup RenamedAnswers(Replies(G, "granted"))
    BY DEF RenamedAnswers
  <2>2. QED
    BY <1>3, <2>1, RenamedReplies, QueueOperators
<1>6. /\ Renamed(waiting)' = Renamed(W \ G)
      /\ Renamed(held)' = Renamed(H \cup G)
      /\ RenamedAnswers(answers)' = RenamedAnswers(answers \cup sent \cup Replies(G, "granted"))
  BY <1>1 DEF Renamed, RenamedAnswers, RenAnswer
<1>7. /\ Renamed(waiting)' = Renamed(W) \ Renamed(G)
      /\ Renamed(held)' = Renamed(H) \cup Renamed(G)
      /\ RenamedAnswers(answers)' = RenamedAnswers(answers) \cup RenamedAnswers(sent)
                \cup Queue!Replies(Renamed(G), "granted")
  BY <1>4, <1>5, <1>6
<1>8. QED
  BY <1>2, <1>7 DEF Queue!GrantThenSend, RenamedAnswers, RenAnswer

(* What stays as it is stays so renamed.                                    *)
LEMMA KeptRenamed ==
    /\ waiting' = waiting => Renamed(waiting)' = Renamed(waiting)
    /\ held' = held => Renamed(held)' = Renamed(held)
    /\ reclaimed' = reclaimed => Renamed(reclaimed)' = Renamed(reclaimed)
    /\ answers' = answers => RenamedAnswers(answers)' = RenamedAnswers(answers)
BY DEF Renamed, RenamedAnswers, RenAnswer

(* Tickets are one entry's each, so every part of the queue can be renamed. *)
LEMMA TicketsApart ==
    ASSUME TicketsInv, NEW S \in SUBSET (waiting \cup held \cup reclaimed)
    PROVE  OfOneTicketEach(S)
BY DEF TicketsInv, AnsweredOnce, TypeOK, OfOneTicketEach

(* An acquire of any request is one named by its new ticket.                *)
LEMMA AcquireRenamed ==
    ASSUME TicketsInv, NEW c \in Conns, NEW l \in Lanes,
           NEW a \in Accounts \cup {NoAccount}, NEW r \in Nat, Acquire(c, l, a, r)
    PROVE  Queue!Acquire(c, l, a, issued + 1)
<1> DEFINE e == NewEntry(c, l, a, r)
           P == PausedStories(pausedAll, paused)
<1>1. issued \in Nat /\ MaxTickets \in Nat /\ issued < MaxTickets
  BY QueueConstants DEF TicketsInv, TypeOK, Acquire
<1>2. e \in Entry /\ e.ticket = issued + 1
  BY <1>1 DEF Entry, NewEntry
<1>3. Ren(e) = Queue!NewEntry(c, l, a, issued + 1)
  BY <1>1 DEF Ren, NewEntry, Queue!NewEntry
<1>4. /\ c \notin closed /\ issued' = issued + 1
      /\ UNCHANGED <<pausedAll, paused, closing, stopping, reclaimed, closed>>
  BY DEF Acquire
<1>5. \/ /\ Refused(e)
         /\ answers' = answers \cup Replies({e}, "busy")
         /\ UNCHANGED <<waiting, held, limit>>
      \/ /\ ~Refused(e) /\ InOtherWindow(e)
         /\ answers' = answers \cup Replies({e}, "other_window")
         /\ UNCHANGED <<waiting, held, limit>>
      \/ /\ ~Refused(e) /\ ~InOtherWindow(e)
         /\ limit' = Opened(l)
         /\ GrantThenSend(waiting \cup {e}, held, Opened(l), P, {})
  BY DEF Acquire
<1>6. /\ Ren(e).lane = e.lane /\ Ren(e).account = e.account /\ Story(Ren(e)) = Story(e)
  BY <1>2, RenIs
<1>7. Queue!Refused(Ren(e)) <=> Refused(e)
  BY <1>6, QueueOperators DEF Queue!Refused, Refused
<1>8. Queue!InOtherWindow(Ren(e)) <=> InOtherWindow(e)
  <2>1. waiting \cup held \subseteq Entry
    BY DEF TicketsInv, TypeOK
  <2>2. \A f \in waiting \cup held : Ren(f).lane = f.lane /\ Ren(f).account = f.account
    BY <2>1, RenIs
  <2>3. Queue!AccountInNarration(e.account, Renamed(waiting), Renamed(held))
          <=> AccountInNarration(e.account, waiting, held)
    BY <2>2, RenamedIs DEF Queue!AccountInNarration, AccountInNarration
  <2>4. QED
    BY <1>6, <2>3 DEF Queue!InOtherWindow, InOtherWindow
<1>9. ASSUME NEW res, answers' = answers \cup Replies({e}, res)
      PROVE  RenamedAnswers(answers)' = RenamedAnswers(answers) \cup Queue!Replies({Ren(e)}, res)
  <2>1. RenamedAnswers(answers)' = RenamedAnswers(answers \cup Replies({e}, res))
    BY <1>9 DEF RenamedAnswers, RenAnswer
  <2>2. RenamedAnswers(answers \cup Replies({e}, res))
            = RenamedAnswers(answers) \cup RenamedAnswers(Replies({e}, res))
    BY DEF RenamedAnswers
  <2>3. RenamedAnswers(Replies({e}, res)) = Replies({Ren(e)}, res)
    BY <1>2, RenamedReplies, RenamedOne
  <2>4. QED
    BY <2>1, <2>2, <2>3, QueueOperators
<1>10. ASSUME GrantThenSend(waiting \cup {e}, held, Opened(l), P, {})
       PROVE  Queue!GrantThenSend(Renamed(waiting) \cup {Ren(e)}, Renamed(held),
                    Queue!Opened(l), Queue!PausedStories(pausedAll, paused), {})
  <2>1. OfOneTicketEach((waiting \cup {e}) \cup held)
    <3>1. \A f \in waiting \cup held : f.ticket <= issued /\ f.ticket \in Nat /\ f \in Entry
      BY <1>1 DEF TicketsInv, TypeOK, Numbered, Entry
    <3>2. \A f \in waiting \cup held : f.ticket # e.ticket
      BY <1>1, <1>2, <3>1
    <3>3. QED
      BY <1>2, <3>1, <3>2 DEF OfOneTicketEach, TicketsInv, AnsweredOnce
  <2>2. Queue!GrantThenSend(Renamed(waiting \cup {e}), Renamed(held), Opened(l), P,
                            RenamedAnswers({}))
    BY <1>10, <2>1, GrantThenSendRenamed
  <2>3. Renamed(waiting \cup {e}) = Renamed(waiting) \cup {Ren(e)}
    BY RenamedIs
  <2>4. RenamedAnswers({}) = {}
    BY DEF RenamedAnswers
  <2>5. QED
    BY <2>2, <2>3, <2>4, QueueOperators
<1> HIDE DEF e, P
<1>11. Renamed(reclaimed)' = Renamed(reclaimed)
  BY <1>4, KeptRenamed
<1>12. CASE Refused(e) /\ answers' = answers \cup Replies({e}, "busy")
                       /\ UNCHANGED <<waiting, held, limit>>
  <2>1. /\ Renamed(waiting)' = Renamed(waiting) /\ Renamed(held)' = Renamed(held)
        /\ RenamedAnswers(answers)' = RenamedAnswers(answers) \cup Queue!Replies({Ren(e)}, "busy")
    BY <1>9, <1>12, KeptRenamed
  <2>2. QED
    BY <1>1, <1>3, <1>4, <1>7, <1>11, <1>12, <2>1 DEF Queue!Acquire, RenamedAnswers, RenAnswer
<1>13. CASE /\ ~Refused(e) /\ InOtherWindow(e)
            /\ answers' = answers \cup Replies({e}, "other_window")
            /\ UNCHANGED <<waiting, held, limit>>
  <2>1. /\ Renamed(waiting)' = Renamed(waiting) /\ Renamed(held)' = Renamed(held)
        /\ RenamedAnswers(answers)'
               = RenamedAnswers(answers) \cup Queue!Replies({Ren(e)}, "other_window")
    BY <1>9, <1>13, KeptRenamed
  <2>2. QED
    BY <1>1, <1>3, <1>4, <1>7, <1>8, <1>11, <1>13, <2>1 DEF Queue!Acquire, RenamedAnswers, RenAnswer
<1>14. CASE /\ ~Refused(e) /\ ~InOtherWindow(e)
            /\ limit' = Opened(l)
            /\ GrantThenSend(waiting \cup {e}, held, Opened(l), P, {})
  BY <1>1, <1>3, <1>4, <1>7, <1>8, <1>10, <1>11, <1>14, QueueOperators DEF Queue!Acquire
<1>15. QED
  BY <1>5, <1>12, <1>13, <1>14

(* An operation that ends in grants without an answer of its own. *)
LEMMA GrantsAloneRenamed ==
    ASSUME NEW W, NEW H, NEW lim, NEW P,
           OfOneTicketEach(W \cup H), GrantThenSend(W, H, lim, P, {})
    PROVE  Queue!GrantThenSend(Renamed(W), Renamed(H), lim, P, {})
<1>1. RenamedAnswers({}) = {}
  BY DEF RenamedAnswers
<1>2. QED
  BY <1>1, GrantThenSendRenamed

(* An answer of its own to each of S. *)
LEMMA AnswersRenamed ==
    ASSUME NEW S \in SUBSET Entry, NEW r, answers' = answers \cup Replies(S, r)
    PROVE  RenamedAnswers(answers)' = RenamedAnswers(answers) \cup Queue!Replies(Renamed(S), r)
<1>1. RenamedAnswers(answers)' = RenamedAnswers(answers \cup Replies(S, r))
  BY DEF RenamedAnswers, RenAnswer
<1>2. RenamedAnswers(answers \cup Replies(S, r))
          = RenamedAnswers(answers) \cup RenamedAnswers(Replies(S, r))
  BY DEF RenamedAnswers
<1>3. QED
  BY <1>1, <1>2, RenamedReplies, QueueOperators

(* A release that finds its ticket is one of a ticket issued.               *)
LEMMA ReleaseRenamed ==
    ASSUME TicketsInv, NEW c \in Conns, NEW t \in Nat, Release(c, t)
    PROVE  t \in 1..issued /\ Queue!Release(c, t)
<1>1. \A e \in held \cup reclaimed : e \in Entry /\ e.ticket \in 1..issued
  BY QueueConstants DEF TicketsInv, TypeOK, Numbered, Entry
<1>2. /\ c \notin closed
      /\ UNCHANGED <<issued, limit, pausedAll, paused, closing, stopping, closed>>
  BY DEF Release
<1>3. CASE \E e \in held :
               /\ e.ticket = t /\ e.owner = c
               /\ GrantThenSend(waiting, held \ {e}, limit,
                                PausedStories(pausedAll, paused), {})
               /\ UNCHANGED reclaimed
  <2>1. PICK e \in held :
            /\ e.ticket = t /\ e.owner = c
            /\ GrantThenSend(waiting, held \ {e}, limit,
                             PausedStories(pausedAll, paused), {})
            /\ UNCHANGED reclaimed
    BY <1>3
  <2>2. OfOneTicketEach(waiting \cup (held \ {e})) /\ OfOneTicketEach(held)
    BY TicketsApart
  <2>3. Queue!GrantThenSend(Renamed(waiting), Renamed(held \ {e}), limit,
                            PausedStories(pausedAll, paused), {})
    BY <2>1, <2>2, GrantsAloneRenamed
  <2>4. Renamed(held \ {e}) = Renamed(held) \ {Ren(e)} /\ Ren(e) \in Renamed(held)
    BY <2>1, <2>2, RenamedWithout
  <2>5. Ren(e).ticket = t /\ Ren(e).owner = c
    BY <1>1, <2>1, RenIs
  <2>6. Renamed(reclaimed)' = Renamed(reclaimed)
    BY <2>1, KeptRenamed
  <2>7. QED
    BY <1>1, <1>2, <2>1, <2>3, <2>4, <2>5, <2>6, QueueOperators DEF Queue!Release
<1>4. CASE /\ \A e \in held : ~(e.ticket = t /\ e.owner = c)
           /\ \E e \in reclaimed : e.ticket = t /\ e.owner = c
           /\ reclaimed' = {e \in reclaimed : e.ticket # t}
           /\ UNCHANGED <<waiting, held, answers>>
  <2>1. \A e \in held \cup reclaimed : Ren(e).ticket = e.ticket /\ Ren(e).owner = e.owner
    BY <1>1, RenIs
  <2>2. \A e \in Renamed(held) : ~(e.ticket = t /\ e.owner = c)
    BY <1>4, <2>1, RenamedIs
  <2>3. \E e \in Renamed(reclaimed) : e.ticket = t /\ e.owner = c
    BY <1>4, <2>1, RenamedIs
  <2>4. Renamed({e \in reclaimed : e.ticket # t}) = {e \in Renamed(reclaimed) : e.ticket # t}
    BY <2>1, RenamedIs
  <2>5. Renamed(reclaimed)' = Renamed({e \in reclaimed : e.ticket # t})
    BY <1>4 DEF Renamed
  <2>6. /\ Renamed(waiting)' = Renamed(waiting) /\ Renamed(held)' = Renamed(held)
        /\ RenamedAnswers(answers)' = RenamedAnswers(answers)
    BY <1>4, KeptRenamed
  <2>7. t \in 1..issued
    BY <1>1, <1>4
  <2>8. QED
    BY <1>2, <2>2, <2>3, <2>4, <2>5, <2>6, <2>7
       DEF Queue!Release, RenamedAnswers, RenAnswer
<1>5. QED
  BY <1>3, <1>4 DEF Release

(* A cancel withdraws the waiter, by its ticket as by its request.          *)
LEMMA CancelRenamed ==
    ASSUME TicketsInv, NEW c \in Conns, NEW r \in Nat, Cancel(c, r)
    PROVE  \E t \in 1..issued : Queue!Cancel(c, t)
<1>1. PICK e \in waiting :
          /\ e.owner = c /\ e.request = r
          /\ GrantThenSend(waiting \ {e}, held, limit,
                           PausedStories(pausedAll, paused), Replies({e}, "cancelled"))
  BY DEF Cancel
<1>2. /\ c \notin closed
      /\ UNCHANGED <<issued, limit, pausedAll, paused, closing, stopping, reclaimed, closed>>
  BY DEF Cancel
<1>3. e \in Entry /\ e.ticket \in 1..issued
  BY QueueConstants DEF TicketsInv, TypeOK, Numbered, Entry
<1>4. OfOneTicketEach((waiting \ {e}) \cup held) /\ OfOneTicketEach(waiting)
  BY TicketsApart
<1>5. Queue!GrantThenSend(Renamed(waiting \ {e}), Renamed(held), limit,
                          PausedStories(pausedAll, paused),
                          RenamedAnswers(Replies({e}, "cancelled")))
  BY <1>1, <1>4, GrantThenSendRenamed
<1>6. Renamed(waiting \ {e}) = Renamed(waiting) \ {Ren(e)} /\ Ren(e) \in Renamed(waiting)
  BY <1>4, RenamedWithout
<1>7. RenamedAnswers(Replies({e}, "cancelled")) = Replies({Ren(e)}, "cancelled")
  BY <1>3, RenamedReplies, RenamedOne
<1>8. Ren(e).owner = c /\ Ren(e).request = e.ticket
  BY <1>1, <1>3, RenIs
<1>9. Renamed(reclaimed)' = Renamed(reclaimed)
  BY <1>2, KeptRenamed
<1>10. Queue!Cancel(c, e.ticket)
  BY <1>2, <1>5, <1>6, <1>7, <1>8, <1>9, QueueOperators DEF Queue!Cancel
<1>11. QED
  BY <1>3, <1>10

(* A lost connection takes the same entries with it.                        *)
LEMMA CloseConnectionRenamed ==
    ASSUME TicketsInv, NEW c \in Conns, CloseConnection(c)
    PROVE  Queue!CloseConnection(c)
<1>1. \A S \in SUBSET (waiting \cup held \cup reclaimed) :
          Renamed({e \in S : e.owner # c}) = {e \in Renamed(S) : e.owner # c}
  <2>1. TAKE S \in SUBSET (waiting \cup held \cup reclaimed)
  <2>2. \A e \in S : Ren(e).owner = e.owner
    BY RenIs DEF TicketsInv, TypeOK
  <2>3. QED
    BY <2>2, RenamedIs
<1>2. /\ c \notin closed /\ closed' = closed \cup {c}
      /\ reclaimed' = {e \in reclaimed : e.owner # c}
      /\ GrantThenSend({e \in waiting : e.owner # c}, {e \in held : e.owner # c},
                       limit, PausedStories(pausedAll, paused), {})
      /\ UNCHANGED <<issued, limit, pausedAll, paused, closing, stopping>>
  BY DEF CloseConnection
<1>3. OfOneTicketEach({e \in waiting : e.owner # c} \cup {e \in held : e.owner # c})
  BY TicketsApart
<1>4. Queue!GrantThenSend(Renamed({e \in waiting : e.owner # c}),
                          Renamed({e \in held : e.owner # c}), limit,
                          PausedStories(pausedAll, paused), {})
  BY <1>2, <1>3, GrantsAloneRenamed
<1>5. /\ Renamed({e \in waiting : e.owner # c}) = {e \in Renamed(waiting) : e.owner # c}
      /\ Renamed({e \in held : e.owner # c}) = {e \in Renamed(held) : e.owner # c}
      /\ Renamed({e \in reclaimed : e.owner # c}) = {e \in Renamed(reclaimed) : e.owner # c}
  BY <1>1
<1>6. Renamed(reclaimed)' = Renamed({e \in reclaimed : e.owner # c})
  BY <1>2 DEF Renamed
<1>7. QED
  BY <1>2, <1>4, <1>5, <1>6, QueueOperators DEF Queue!CloseConnection

(* The supervisor's own calls name no request.                              *)
LEMMA OperatorRenamed ==
    ASSUME TicketsInv, OperatorCalls
    PROVE  Queue!OperatorCalls
<1>1. /\ waiting \subseteq Entry /\ held \subseteq Entry
      /\ OfOneTicketEach(waiting \cup held) /\ OfOneTicketEach(waiting)
  BY TicketsApart DEF TicketsInv, TypeOK
<1>2. \A lim, P : GrantThenSend(waiting, held, lim, P, {}) =>
                     Queue!GrantThenSend(Renamed(waiting), Renamed(held), lim, P, {})
  BY <1>1, GrantsAloneRenamed
<1>3. ASSUME NEW s \in Stories, Pause(s)
      PROVE  Queue!Pause(s)
  BY <1>3, KeptRenamed DEF Pause, Queue!Pause, RenamedAnswers, RenAnswer
<1>4. ASSUME NEW s \in Stories, Resume(s)
      PROVE  Queue!Resume(s)
  <2>1. Queue!GrantThenSend(Renamed(waiting), Renamed(held), limit,
                            Queue!PausedStories(pausedAll, paused \ {s}), {})
    BY <1>2, <1>4, QueueOperators DEF Resume
  <2>2. QED
    BY <1>4, <2>1, KeptRenamed DEF Resume, Queue!Resume
<1>5. ASSUME NEW s \in Stories, CloseStory(s)
      PROVE  Queue!CloseStory(s)
  <2>1. \A e \in waiting : Story(Ren(e)) = Story(e)
    BY <1>1, RenIs
  <2>2. \A e : Queue!Story(e) = Story(e)
    BY QueueOperators
  <2>3. Renamed({e \in waiting : Story(e) # s})
            = {e \in Renamed(waiting) : Queue!Story(e) # s}
    BY <2>1, <2>2, RenamedIs
  <2>4. Renamed({e \in waiting : Story(e) = s})
            = {e \in Renamed(waiting) : Queue!Story(e) = s}
    BY <2>1, <2>2, RenamedIs
  <2>5. /\ closing' = closing \cup {s}
        /\ waiting' = {e \in waiting : Story(e) # s}
        /\ answers' = answers \cup Replies({e \in waiting : Story(e) = s}, "busy")
        /\ UNCHANGED <<issued, held, limit, pausedAll, paused, stopping, reclaimed, closed>>
    BY <1>5 DEF CloseStory
  <2>6. Renamed(waiting)' = Renamed({e \in waiting : Story(e) # s})
    BY <2>5 DEF Renamed
  <2>7. {e \in waiting : Story(e) = s} \in SUBSET Entry
    BY <1>1
  <2>8. RenamedAnswers(answers)' = RenamedAnswers(answers) \cup
            Queue!Replies(Renamed({e \in waiting : Story(e) = s}), "busy")
    BY <2>5, <2>7, AnswersRenamed
  <2>9. Renamed(held)' = Renamed(held) /\ Renamed(reclaimed)' = Renamed(reclaimed)
    BY <2>5, KeptRenamed
  <2>10. QED
    BY <2>3, <2>4, <2>5, <2>6, <2>8, <2>9 DEF Queue!CloseStory, RenamedAnswers, RenAnswer
<1>6. ASSUME NEW S \in SUBSET Stories, NarrowPause(S)
      PROVE  Queue!NarrowPause(S)
  <2>1. Queue!GrantThenSend(Renamed(waiting), Renamed(held), limit, paused \cup S, {})
    BY <1>2, <1>6 DEF NarrowPause
  <2>2. QED
    BY <1>6, <2>1, KeptRenamed DEF NarrowPause, Queue!NarrowPause
<1>7. ASSUME PauseAll
      PROVE  Queue!PauseAll
  BY <1>7, KeptRenamed DEF PauseAll, Queue!PauseAll, RenamedAnswers, RenAnswer
<1>8. ASSUME ResumeAll
      PROVE  Queue!ResumeAll
  <2>1. Queue!GrantThenSend(Renamed(waiting), Renamed(held), limit, {}, {})
    BY <1>2, <1>8 DEF ResumeAll
  <2>2. QED
    BY <1>8, <2>1, KeptRenamed DEF ResumeAll, Queue!ResumeAll
<1>9. ASSUME NEW l \in Lanes, NEW n \in Sizes, Resize(l, n)
      PROVE  Queue!Resize(l, n)
  <2>1. held = {} => Renamed(held) = {}
    BY DEF Renamed
  <2>2. QED
    BY <1>9, <2>1, KeptRenamed DEF Resize, Queue!Resize, RenamedAnswers, RenAnswer
<1>10. ASSUME CloseQueue
       PROVE  Queue!CloseQueue
  <2>1. /\ stopping' = TRUE /\ waiting' = {}
        /\ answers' = answers \cup Replies(waiting, "busy")
        /\ UNCHANGED <<issued, held, limit, pausedAll, paused, closing, reclaimed, closed>>
    BY <1>10 DEF CloseQueue
  <2>2. Renamed(waiting)' = {}
    BY <2>1 DEF Renamed
  <2>3. RenamedAnswers(answers)' =
            RenamedAnswers(answers) \cup Queue!Replies(Renamed(waiting), "busy")
    BY <1>1, <2>1, AnswersRenamed
  <2>4. Renamed(held)' = Renamed(held) /\ Renamed(reclaimed)' = Renamed(reclaimed)
    BY <2>1, KeptRenamed
  <2>5. QED
    BY <2>1, <2>2, <2>3, <2>4 DEF Queue!CloseQueue, RenamedAnswers, RenAnswer
<1>11. QED
  BY <1>3, <1>4, <1>5, <1>6, <1>7, <1>8, <1>9, <1>10 DEF OperatorCalls, Queue!OperatorCalls

(* The memory of reclaimed tickets forgets the same ones.                   *)
LEMMA RememberedRenamed ==
    ASSUME TicketsInv, NEW H \in SUBSET held, NEW R \in Remembered(H)
    PROVE  Renamed(R) \in Queue!Remembered(Renamed(H))
<1>1. /\ R \subseteq reclaimed \cup H
      /\ Cardinality(R) <= MAX_RECLAIMED
      /\ R # reclaimed \cup H => Cardinality(R) = MAX_RECLAIMED
      /\ H \subseteq R \/ R \subseteq H
  BY DEF Remembered
<1>2. OfOneTicketEach(R)
  BY <1>1, TicketsApart
<1>3. Queue!Cardinality(Renamed(R)) = Cardinality(R)
  BY <1>2, OneTicketEachFinite, QueueOperators
<1>4. /\ Renamed(R) \subseteq Renamed(reclaimed \cup H)
      /\ Renamed(H) \subseteq Renamed(R) \/ Renamed(R) \subseteq Renamed(H)
  BY <1>1, RenamedSub
<1>5. Renamed(reclaimed \cup H) = Renamed(reclaimed) \cup Renamed(H)
  BY RenamedCup
<1>6. Renamed(R) # Renamed(reclaimed) \cup Renamed(H) => Cardinality(R) = MAX_RECLAIMED
  BY <1>1, <1>5
<1>7. QED
  BY <1>1, <1>3, <1>4, <1>5, <1>6 DEF Queue!Remembered

(* A pass of the deadline thread finds the same waits and holds.            *)
LEMMA DeadlinesRenamed ==
    ASSUME TicketsInv, DeadlinePass
    PROVE  Queue!DeadlinePass
<1>1. PICK W \in SUBSET waiting, H \in SUBSET held : Deadlines(W, H)
  BY DEF DeadlinePass
<1>2. PICK R : R = reclaimed'
  OBVIOUS
<1>3. /\ ~stopping /\ W \cup H # {} /\ R \in Remembered(H)
      /\ UNCHANGED <<issued, limit, pausedAll, paused, closing, stopping, closed>>
  BY <1>1, <1>2 DEF Deadlines
<1>4. /\ Renamed(W) \subseteq Renamed(waiting) /\ Renamed(H) \subseteq Renamed(held)
      /\ Renamed(W) \cup Renamed(H) # {}
      /\ H # {} => Renamed(H) # {}
      /\ H = {} => Renamed(H) = {}
  BY <1>3 DEF Renamed
<1>5. Renamed(reclaimed)' \in Queue!Remembered(Renamed(H))
  <2>1. Renamed(reclaimed)' = Renamed(R)
    BY <1>2 DEF Renamed
  <2>2. QED
    BY <1>3, <2>1, RememberedRenamed
<1>6. /\ OfOneTicketEach(waiting) /\ OfOneTicketEach(held)
      /\ OfOneTicketEach((waiting \ W) \cup (held \ H)) /\ W \in SUBSET Entry
  BY TicketsApart DEF TicketsInv, TypeOK
<1>7. /\ Renamed(waiting \ W) = Renamed(waiting) \ Renamed(W)
      /\ Renamed(held \ H) = Renamed(held) \ Renamed(H)
  <2>1. Renamed(waiting \ W) = Renamed(waiting) \ Renamed(W)
    <3>1. waiting \in SUBSET waiting /\ W \in SUBSET waiting
      OBVIOUS
    <3>2. QED
      BY <1>6, <3>1, RenamedMinus
  <2>2. Renamed(held \ H) = Renamed(held) \ Renamed(H)
    <3>1. held \in SUBSET held /\ H \in SUBSET held
      OBVIOUS
    <3>2. QED
      BY <1>6, <3>1, RenamedMinus
  <2>3. QED
    BY <2>1, <2>2
<1>8. CASE /\ H # {}
           /\ GrantThenSend(waiting \ W, held \ H, limit,
                            PausedStories(pausedAll, paused), Replies(W, "busy"))
  <2>1. Queue!GrantThenSend(Renamed(waiting \ W), Renamed(held \ H), limit,
                            PausedStories(pausedAll, paused),
                            RenamedAnswers(Replies(W, "busy")))
    BY <1>6, <1>8, GrantThenSendRenamed
  <2>2. RenamedAnswers(Replies(W, "busy")) = Queue!Replies(Renamed(W), "busy")
    BY <1>6, RenamedReplies, QueueOperators
  <2>3. PausedStories(pausedAll, paused) = Queue!PausedStories(pausedAll, paused)
    BY QueueOperators
  <2>4. Queue!GrantThenSend(Renamed(waiting) \ Renamed(W), Renamed(held) \ Renamed(H),
                            limit, Queue!PausedStories(pausedAll, paused),
                            Queue!Replies(Renamed(W), "busy"))
    BY <1>7, <2>1, <2>2, <2>3
  <2>5. Queue!Deadlines(Renamed(W), Renamed(H))
    BY <1>3, <1>4, <1>5, <1>8, <2>4 DEF Queue!Deadlines
  <2>6. QED
    BY <1>4, <2>5 DEF Queue!DeadlinePass
<1>9. CASE /\ H = {}
           /\ waiting' = waiting \ W
           /\ answers' = answers \cup Replies(W, "busy")
           /\ UNCHANGED held
  <2>1. Renamed(waiting)' = Renamed(waiting) \ Renamed(W)
    BY <1>7, <1>9 DEF Renamed
  <2>2. RenamedAnswers(answers)' =
            RenamedAnswers(answers) \cup Queue!Replies(Renamed(W), "busy")
    BY <1>6, <1>9, AnswersRenamed
  <2>3. Renamed(held)' = Renamed(held)
    BY <1>9, KeptRenamed
  <2>4. Queue!Deadlines(Renamed(W), Renamed(H))
    BY <1>3, <1>4, <1>5, <1>9, <2>1, <2>2, <2>3
       DEF Queue!Deadlines, RenamedAnswers, RenAnswer
  <2>5. QED
    BY <1>4, <2>4 DEF Queue!DeadlinePass
<1>10. QED
  BY <1>1, <1>8, <1>9 DEF Deadlines

(* One answer is handed over.                                               *)
LEMMA SendingRenamed ==
    ASSUME TicketsInv, Sending
    PROVE  Queue!Sending
<1>1. PICK m \in answers : DeliverAnswer(m)
  BY DEF Sending
<1>2. answers \in SUBSET Answer /\ \A n \in answers : n.entry.ticket = m.entry.ticket => n = m
  BY DEF TicketsInv, TypeOK, AnsweredOnce
<1>3. RenamedAnswers(answers \ {m}) = RenamedAnswers(answers) \ {RenAnswer(m)}
  BY <1>2, RenamedLess
<1>4. RenAnswer(m) \in RenamedAnswers(answers)
  BY DEF RenamedAnswers
<1>5. /\ answers' = answers \ {m}
      /\ UNCHANGED <<issued, waiting, held, limit, pausedAll, paused, closing,
                     stopping, reclaimed, closed>>
  BY <1>1 DEF DeliverAnswer
<1>6. RenamedAnswers(answers)' = RenamedAnswers(answers \ {m})
  BY <1>5 DEF RenamedAnswers, RenAnswer
<1>7. /\ Renamed(waiting)' = Renamed(waiting) /\ Renamed(held)' = Renamed(held)
      /\ Renamed(reclaimed)' = Renamed(reclaimed)
  BY <1>5, KeptRenamed
<1>8. Queue!DeliverAnswer(RenAnswer(m))
  BY <1>3, <1>5, <1>6, <1>7 DEF Queue!DeliverAnswer, RenamedAnswers, RenAnswer
<1>9. QED
  BY <1>4, <1>8 DEF Queue!Sending, RenamedAnswers, RenAnswer

(* Every operation, whatever numbers it is given, is a step of the queue's own. *)
LEMMA QueueStepRenamed ==
    ASSUME TicketsInv, [AnyNext]_queueVars
    PROVE  [Queue!QueueNext]_(Queue!queueVars)
<1>1. CASE AnyWorkerCall
  <2>1. PICK c \in Conns :
            \/ \E l \in Lanes, a \in Accounts \cup {NoAccount}, r \in Nat :
                  Acquire(c, l, a, r)
            \/ \E t \in Nat : Release(c, t)
            \/ \E r \in Nat : Cancel(c, r)
            \/ CloseConnection(c)
    BY <1>1 DEF AnyWorkerCall
  <2>2. \/ \E l \in Lanes, a \in Accounts \cup {NoAccount} :
              Queue!Acquire(c, l, a, issued + 1)
        \/ \E t \in 1..issued : Queue!Release(c, t)
        \/ \E r \in 1..issued : Queue!Cancel(c, r)
        \/ Queue!CloseConnection(c)
    BY <2>1, AcquireRenamed, ReleaseRenamed, CancelRenamed, CloseConnectionRenamed
  <2>3. Queue!WorkerCalls
    BY <2>2 DEF Queue!WorkerCalls
  <2>4. QED
    BY <2>3 DEF Queue!QueueNext
<1>2. CASE OperatorCalls
  BY <1>2, OperatorRenamed DEF Queue!QueueNext
<1>3. CASE DeadlinePass
  BY <1>3, DeadlinesRenamed DEF Queue!QueueNext
<1>4. CASE Sending
  BY <1>4, SendingRenamed DEF Queue!QueueNext
<1>5. CASE UNCHANGED queueVars
  BY <1>5 DEF queueVars, Queue!queueVars, Renamed
<1>6. QED
  BY <1>1, <1>2, <1>3, <1>4, <1>5 DEF AnyNext

(* The queue the workers drive behaves as the queue that was specified and  *)
(* proved about alone (LaneQueue), with the numbers the workers give their  *)
(* requests replaced by the tickets: no order of messages, timeouts,        *)
(* withdrawals and crashes makes it do a step it would not do by itself.    *)
THEOREM QueueIsImplemented == Spec => QueueImplemented
<1>1. Init => TicketsInv /\ CallsInv
  BY WorkersInit
<1>2. Init => Queue!QueueInit
  BY DEF Init, QueueInit, Queue!QueueInit, Renamed
<1>3. TicketsInv /\ CallsInv /\ [Next]_vars => (TicketsInv /\ CallsInv)'
  BY WorkersStep
<1>4. TicketsInv /\ CallsInv /\ [Next]_vars => [Queue!QueueNext]_(Queue!queueVars)
  BY QueueTakesPart, QueueStepRenamed
<1>5. QED
  BY <1>1, <1>2, <1>3, <1>4, PTL DEF Spec, QueueImplemented, Queue!QueueSpec
=============================================================================
