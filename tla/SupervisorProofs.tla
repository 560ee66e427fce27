--------------------------- MODULE SupervisorProofs ---------------------------
(***************************************************************************)
(* Theorems about the supervisor (Supervisor.tla), for any children and any *)
(* number of starts, checks and crashes.                                    *)
(*                                                                          *)
(* OneStart is no invariant of its own accord.  A child is in one pair of   *)
(* hands at a time, the operation's or the reaper's, and is marked while it *)
(* is (Claims); so whoever starts one again knows that its process is gone  *)
(* (Dead), and a token only ever names the start it was minted for          *)
(* (TokensTold).  A ticket is a linked start's, and what is shown was       *)
(* linked (TurnsTold), so a stop without a drain meets no turn (Spared).    *)
(* The claims need the window ClaimedLast closed, and what a health check   *)
(* says (ChecksTold) the window ChecksBegun as well; what needs neither is  *)
(* a theorem without them.                                                  *)
(*                                                                          *)
(* How a step can change a child's record, a token and the operation is     *)
(* said once (ChildIs, TokenIs, OpIs) and used everywhere.                  *)
(***************************************************************************)
EXTENDS Supervisor, TLAPS

(* The types. *)
Records ==
    [state : States, start : 1..MaxStarts, conn : 0..MaxStarts, ready : BOOLEAN,
     failures : Nat, checking : BOOLEAN, stuck : BOOLEAN, stopping : BOOLEAN,
     crashes : Nat]

(* An operation under way. *)
OpPcs ==
    {"queued", "claimed", "stop", "retire", "resume", "finish", "finally", "release"}
        \cup DrainPcs
Operations ==
    [pc : OpPcs, kind : Kinds, on : Workers \cap Children, was : States, drained : BOOLEAN]

(* What every variable holds. *)
SupervisorTypeOK ==
    /\ child \in [Children -> Records]
    /\ token \in [Starts -> Tokens]
    /\ procs \subseteq Starts
    /\ checks \subseteq [id : CheckIds, on : Children, conn : 0..MaxStarts, pc : {"due", "asked"}]
    /\ reaping \subseteq [id : ReapIds, on : Children, pc : {"stop", "policy"}]
    /\ reclaims \subseteq Starts /\ turns \subseteq Starts
    /\ paused \subseteq Children /\ closing \subseteq Children
    /\ op \in {[pc |-> "idle"]} \cup Operations
    /\ main \in {"ticking", "stopping", "workers", "door", "killing", "closed"}
    /\ halt \in [Children -> {"none", "begin", "stop", "retire", "done", "killed"} \cup DrainPcs]

----------------------------------------------------------------------------
(* A record and a token, as the operators make them. *)
LEMMA ConstantsAre ==
    /\ MaxStarts \in Nat /\ 1 \in 1..MaxStarts /\ 0 \in 0..MaxStarts
    /\ HealthFailures \in Nat /\ MaxRestarts \in Nat
BY SupervisorConstants DEF SupervisorConstants

(* A child just started: starting, its own start, nothing heard of it yet. *)
LEMMA FreshIs ==
    ASSUME NEW n \in 1..MaxStarts, NEW crashes \in Nat
    PROVE  /\ FreshChild(n, crashes) \in Records
           /\ FreshChild(n, crashes).state = "starting" /\ FreshChild(n, crashes).start = n
           /\ FreshChild(n, crashes).conn = 0 /\ FreshChild(n, crashes).ready = FALSE
           /\ FreshChild(n, crashes).stopping = FALSE
BY ConstantsAre DEF FreshChild, Records, States

(* A child's record, and the start it is at. *)
LEMMA StartIs ==
    ASSUME SupervisorTypeOK, NEW c \in Children
    PROVE  /\ child[c] \in Records /\ child[c].start \in 1..MaxStarts
           /\ Current(c) \in Starts /\ Current(c)[1] = c /\ Current(c)[2] = child[c].start
           /\ child[c].start \in Nat
BY ConstantsAre DEF SupervisorTypeOK, Records, Starts, Current

(* _retire_token: a token nobody used yet is dead, the others stay. *)
LEMMA RetiredIs ==
    ASSUME SupervisorTypeOK, NEW c \in Children
    PROVE  /\ Retired(c, token) \in [Starts -> Tokens]
           /\ \A s \in Starts : s # Current(c) => Retired(c, token)[s] = token[s]
           /\ Retired(c, token)[Current(c)] =
                 IF token[Current(c)] \in {"unused", "admitted"} THEN "dead"
                                                                 ELSE token[Current(c)]
<1>1. Current(c) \in Starts /\ token \in [Starts -> Tokens]
  BY StartIs DEF SupervisorTypeOK
<1> QED BY <1>1 DEF Retired, Tokens

(* _apply_policy: the start stays, the mark and the connection go, and the   *)
(* child is stopped, held down or due to restart.                            *)
LEMMA PolicyIs ==
    ASSUME NEW r \in Records, NEW kept \in 0..r.crashes
    PROVE  LET n == AfterCrash(r, kept)
           IN  /\ n \in Records /\ n.start = r.start /\ n.ready = r.ready
               /\ n.stopping = FALSE /\ n.conn = 0
               /\ n.state = IF shutting_down THEN "stopped"
                            ELSE IF kept >= MaxRestarts THEN "held_down" ELSE "restarting"
<1>1. r.crashes \in Nat /\ kept \in Nat /\ kept + 1 \in Nat
  BY DEF Records
<1> QED BY <1>1, ConstantsAre DEF AfterCrash, Records, States

(* A check's answer changes the state only, and only of a child that is up. *)
LEMMA HealthIs ==
    ASSUME NEW r \in Records, NEW bus_ok \in BOOLEAN, NEW http_ok \in BOOLEAN
    PROVE  LET n == AfterCheck(r, bus_ok, http_ok)
           IN  /\ n \in Records /\ n.start = r.start /\ n.ready = r.ready
               /\ n.stopping = r.stopping /\ n.conn = r.conn
               /\ \/ n.state = r.state
                  \/ r.state \in {"starting", "ready", "degraded"} /\ n.state \in {"ready", "degraded"}
<1> DEFINE n == AfterCheck(r, bus_ok, http_ok)
           said == IF r.state = "starting" /\ bus_ok
                   THEN IF http_ok THEN "ready" ELSE "degraded"
                   ELSE IF r.state = "ready" /\ ~http_ok THEN "degraded"
                   ELSE IF r.state = "degraded" /\ http_ok THEN "ready" ELSE r.state
           missed == IF bus_ok THEN 0
                     ELSE IF r.failures < HealthFailures THEN r.failures + 1 ELSE r.failures
<1>1. r.failures \in Nat /\ r.state \in States
  BY DEF Records
<1>2. missed \in Nat
  BY <1>1
<1>3. /\ said \in States
      /\ \/ said = r.state
         \/ r.state \in {"starting", "ready", "degraded"} /\ said \in {"ready", "degraded"}
  <2>1. CASE bus_ok
    BY <1>1, <2>1 DEF States
  <2>2. CASE ~bus_ok
    BY <1>1, <2>2 DEF States
  <2> QED BY <2>1, <2>2
<1>4. n = [r EXCEPT !.failures = missed, !.state = said, !.checking = FALSE]
  BY DEF AfterCheck
<1> HIDE DEF n, said, missed
<1>5. /\ n \in Records /\ n.start = r.start /\ n.ready = r.ready
      /\ n.stopping = r.stopping /\ n.conn = r.conn /\ n.state = said
  BY <1>2, <1>3, <1>4 DEF Records
<1> QED BY <1>3, <1>5 DEF n

(* A spawn that fails: before the new start (the record as it was), or after *)
(* it (a new start whose token is dead already).                             *)
LEMMA FailedIs ==
    ASSUME SupervisorTypeOK, NEW c \in Children, NEW crashes \in Nat,
           NEW f \in FailedSpawns(c, crashes)
    PROVE  /\ f.record \in Records /\ f.tokens \in [Starts -> Tokens]
           /\ f.record.stopping = child[c].stopping
           /\ \/ /\ f.record.start = child[c].start /\ f.record.state = child[c].state
                 /\ f.record.conn = child[c].conn /\ f.record.ready = child[c].ready
                 /\ f.tokens = Retired(c, token)
              \/ /\ f.record.start = child[c].start + 1 /\ f.record.state = "starting"
                 /\ f.record.conn = 0 /\ f.record.ready = FALSE
                 /\ \A s \in Starts :
                       f.tokens[s] = IF s = <<c, child[c].start + 1>> THEN "dead" ELSE Retired(c, token)[s]
<1> DEFINE n == child[c].start + 1
           Sames == [record |-> [child[c] EXCEPT !.crashes = crashes], tokens |-> Retired(c, token)]
           Next1 == [record |-> [FreshChild(n, crashes) EXCEPT !.stopping = child[c].stopping],
                     tokens |-> [Retired(c, token) EXCEPT ![<<c, n>>] = "dead"]]
<1>1. f = Sames \/ (n <= MaxStarts /\ f = Next1)
  <2>1. f \in {Sames} \cup (IF n > MaxStarts THEN {} ELSE {Next1})
    BY DEF FailedSpawns
  <2> HIDE DEF Sames, Next1
  <2>2. n \in Nat /\ MaxStarts \in Nat
    BY StartIs, ConstantsAre
  <2> QED BY <2>1, <2>2
<1>2. Retired(c, token) \in [Starts -> Tokens] /\ child[c] \in Records /\ child[c].start \in 1..MaxStarts
  BY RetiredIs, StartIs
<1>3. CASE f = Sames
  <2>1. f.record = [child[c] EXCEPT !.crashes = crashes] /\ f.tokens = Retired(c, token)
    BY <1>3
  <2> QED BY <1>2, <2>1 DEF Records
<1>4. CASE n <= MaxStarts /\ f = Next1
  <2>1. f.record = [FreshChild(n, crashes) EXCEPT !.stopping = child[c].stopping]
        /\ f.tokens = [Retired(c, token) EXCEPT ![<<c, n>>] = "dead"]
    BY <1>4
  <2>2. n \in 1..MaxStarts
    BY <1>2, <1>4, ConstantsAre
  <2>3. FreshChild(n, crashes) \in Records
    BY <2>2, FreshIs
  <2>4. f.record \in Records /\ f.record.stopping = child[c].stopping
        /\ f.record.start = n /\ f.record.state = "starting"
        /\ f.record.conn = 0 /\ f.record.ready = FALSE
    <3> HIDE DEF n, Sames, Next1
    <3>1. FreshChild(n, crashes) = [FreshChild(n, crashes) EXCEPT !.stopping = FALSE]
          /\ child[c].stopping \in BOOLEAN
      BY <1>2, <2>3 DEF FreshChild, Records
    <3>2. /\ FreshChild(n, crashes).start = n /\ FreshChild(n, crashes).state = "starting"
          /\ FreshChild(n, crashes).conn = 0 /\ FreshChild(n, crashes).ready = FALSE
      BY <2>2, FreshIs
    <3> QED BY <2>1, <2>3, <3>1, <3>2 DEF Records
  <2>5. f.tokens \in [Starts -> Tokens]
    BY <1>2, <2>1 DEF Tokens
  <2>6. \A s \in Starts : f.tokens[s] = IF s = <<c, n>> THEN "dead" ELSE Retired(c, token)[s]
    BY <1>2, <2>1, <2>5
  <2> QED BY <2>4, <2>5, <2>6
<1> QED BY <1>1, <1>3, <1>4

(* Every step keeps the types. *)
LEMMA TypesStep == SupervisorTypeOK /\ [Next]_vars => SupervisorTypeOK'
<1> SUFFICES ASSUME SupervisorTypeOK, [Next]_vars PROVE SupervisorTypeOK'
  OBVIOUS
<1> DEFINE Others == <<token, procs, checks, reaping, reclaims, paused, closing, turns, op, main, halt>>
<1>a. ASSUME NEW c \in Children, NEW r \in Records, child' = [child EXCEPT ![c] = r]
      PROVE  child' \in [Children -> Records]
  BY <1>a DEF SupervisorTypeOK
<1>b. ASSUME NEW c \in Children, NEW crashes \in Nat, Spawn(c, crashes)
      PROVE  /\ child' \in [Children -> Records] /\ token' \in [Starts -> Tokens]
             /\ procs' \subseteq Starts
  <2>1. child[c].start + 1 \in 1..MaxStarts /\ <<c, child[c].start + 1>> \in Starts
    BY <1>b, StartIs, ConstantsAre DEF Spawn, Starts
  <2>2. child' \in [Children -> Records]
    BY <1>b, <2>1, FreshIs, <1>a DEF Spawn
  <2>3. token' \in [Starts -> Tokens]
    BY <1>b, <2>1, RetiredIs DEF Spawn, Tokens
  <2> QED BY <1>b, <2>1, <2>2, <2>3 DEF Spawn, SupervisorTypeOK
<1>c. \A c \in Children : child[c].crashes \in Nat
  BY StartIs DEF Records
<1>1. ASSUME NEW c \in Children, TickRespawn(c) PROVE SupervisorTypeOK'
  BY <1>1, <1>b, <1>c DEF TickRespawn, SupervisorTypeOK
<1>2. ASSUME NEW c \in Children, TickRespawnFails(c) PROVE SupervisorTypeOK'
  <2>1. PICK f \in FailedSpawns(c, child[c].crashes) : ApplyPolicy(c, f.record) /\ token' = f.tokens
    BY <1>2 DEF TickRespawnFails
  <2>2. f.record \in Records /\ f.tokens \in [Starts -> Tokens]
    BY <1>c, FailedIs
  <2>3. child' \in [Children -> Records]
    BY <1>a, <2>1, <2>2, PolicyIs DEF ApplyPolicy
  <2> QED BY <1>2, <2>1, <2>2, <2>3 DEF TickRespawnFails, SupervisorTypeOK
<1>3. ASSUME NEW c \in Children, TickCrash(c) PROVE SupervisorTypeOK'
  <2>1. child' \in [Children -> Records]
    <3>1. [child[c] EXCEPT !.stopping = TRUE] \in Records
      BY StartIs DEF Records
    <3>2. child' = [child EXCEPT ![c] = [child[c] EXCEPT !.stopping = TRUE]]
      BY <1>3 DEF TickCrash
    <3> QED BY <1>a, <3>1, <3>2
  <2> QED BY <1>3, <2>1 DEF TickCrash, SupervisorTypeOK
<1>4. ASSUME NEW c \in Children, TickCheck(c) PROVE SupervisorTypeOK'
  <2>1. child' \in [Children -> Records]
    <3>1. [child[c] EXCEPT !.checking = TRUE] \in Records
      BY StartIs DEF Records
    <3>2. child' = [child EXCEPT ![c] = [child[c] EXCEPT !.checking = TRUE]]
      BY <1>4 DEF TickCheck
    <3> QED BY <1>a, <3>1, <3>2
  <2> QED BY <1>4, <2>1, ConstantsAre DEF TickCheck, SupervisorTypeOK
<1>5. ASSUME NEW j \in reaping, ReapStop(j) PROVE SupervisorTypeOK'
  BY <1>5 DEF ReapStop, SupervisorTypeOK
<1>6. ASSUME NEW j \in reaping, ReapPolicy(j) PROVE SupervisorTypeOK'
  <2>1. j.on \in Children
    BY DEF SupervisorTypeOK
  <2>2. child' \in [Children -> Records]
    BY <1>6, <1>a, <2>1, StartIs, PolicyIs DEF ReapPolicy, ApplyPolicy
  <2>3. token' \in [Starts -> Tokens]
    BY <1>6, <2>1, RetiredIs DEF ReapPolicy
  <2> QED BY <1>6, <2>2, <2>3 DEF ReapPolicy, SupervisorTypeOK
<1>7. ASSUME NEW k \in checks, CheckBegins(k) PROVE SupervisorTypeOK'
  <2>1. k.on \in Children /\ child[k.on].conn \in 0..MaxStarts
    BY StartIs DEF SupervisorTypeOK, Records
  <2> QED BY <1>7, <2>1 DEF CheckBegins, SupervisorTypeOK
<1>8. ASSUME NEW k \in checks, NEW bus_ok \in BOOLEAN, NEW http_ok \in BOOLEAN, CheckEnds(k, bus_ok, http_ok)
      PROVE  SupervisorTypeOK'
  <2>1. k.on \in Children /\ child[k.on] \in Records
    BY StartIs DEF SupervisorTypeOK
  <2>2. [child[k.on] EXCEPT !.checking = FALSE] \in Records
    BY <2>1 DEF Records
  <2>3. AfterCheck(child[k.on], bus_ok, http_ok) \in Records
    BY <2>1, HealthIs
  <2>4. child' \in [Children -> Records]
    BY <1>8, <2>1, <2>2, <2>3 DEF CheckEnds, SupervisorTypeOK
  <2> QED BY <1>8, <2>4 DEF CheckEnds, SupervisorTypeOK
<1>9. ASSUME NEW c \in Children, NEW n \in 1..MaxStarts, Reclaim(c, n) PROVE SupervisorTypeOK'
  BY <1>9 DEF Reclaim, SupervisorTypeOK
<1>10. ASSUME NEW c \in Children, NEW n \in 1..MaxStarts, NEW ok \in BOOLEAN, ReclaimAnswered(c, n, ok)
       PROVE  SupervisorTypeOK'
  <2>1. [child[c] EXCEPT !.stuck = TRUE] \in Records
    BY StartIs DEF Records
  <2>2. \/ child' = [child EXCEPT ![c] = [child[c] EXCEPT !.stuck = TRUE]]
        \/ UNCHANGED child
    BY <1>10 DEF ReclaimAnswered
  <2>3. child' \in [Children -> Records]
    BY <1>a, <2>1, <2>2 DEF SupervisorTypeOK
  <2> QED BY <1>10, <2>3 DEF ReclaimAnswered, SupervisorTypeOK
<1>11. ASSUME NEW c \in Children, NEW n \in 1..MaxStarts, HelloAdmitted(c, n) PROVE SupervisorTypeOK'
  BY <1>11 DEF HelloAdmitted, SupervisorTypeOK, Tokens
<1>12. ASSUME NEW c \in Children, NEW n \in 1..MaxStarts, HelloAccepted(c, n) PROVE SupervisorTypeOK'
  BY <1>12 DEF HelloAccepted, SupervisorTypeOK, Tokens
<1>13. ASSUME NEW c \in Children, NEW n \in 1..MaxStarts, OnHello(c, n) PROVE SupervisorTypeOK'
  <2>1. child' \in [Children -> Records]
    BY <1>13, StartIs, ConstantsAre DEF OnHello, SupervisorTypeOK, Records
  <2> QED BY <1>13, <2>1 DEF OnHello, SupervisorTypeOK, Tokens
<1>14. ASSUME NEW c \in Children, Ready(c) PROVE SupervisorTypeOK'
  <2>1. child' \in [Children -> Records]
    <3>1. [child[c] EXCEPT !.ready = TRUE] \in Records
      BY StartIs DEF Records
    <3>2. child' = [child EXCEPT ![c] = [child[c] EXCEPT !.ready = TRUE]]
      BY <1>14 DEF Ready
    <3> QED BY <1>a, <3>1, <3>2
  <2> QED BY <1>14, <2>1 DEF Ready, SupervisorTypeOK
<1>15. ASSUME NEW c \in Children, NEW n \in 1..MaxStarts, OnClose(c, n) PROVE SupervisorTypeOK'
  <2>1. child' \in [Children -> Records]
    BY <1>15, StartIs, ConstantsAre DEF OnClose, SupervisorTypeOK, Records
  <2> QED BY <1>15, <2>1 DEF OnClose, SupervisorTypeOK, Tokens
<1>16. ASSUME NEW c \in Children, NEW n \in 1..MaxStarts, Exits(c, n) PROVE SupervisorTypeOK'
  BY <1>16 DEF Exits, SupervisorTypeOK
<1>17. ASSUME NEW c \in Children, NEW n \in 1..MaxStarts, TurnStarts(c, n) PROVE SupervisorTypeOK'
  BY <1>17 DEF TurnStarts, SupervisorTypeOK
<1>18. ASSUME NEW c \in Children, NEW n \in 1..MaxStarts, TurnEnds(c, n) PROVE SupervisorTypeOK'
  BY <1>18 DEF TurnEnds, SupervisorTypeOK
<1>19. ASSUME NEW kind \in Kinds, NEW c \in Workers \cap Children, Submit(kind, c) PROVE SupervisorTypeOK'
  BY <1>19 DEF Submit, SupervisorTypeOK, Operations, OpPcs, States
<1>d. ASSUME op.pc # "idle"
      PROVE  /\ op \in Operations /\ op.on \in Children /\ op.was \in States
             /\ child[op.on] \in Records
  <2>1. op \in Operations
    BY <1>d DEF SupervisorTypeOK
  <2> QED BY <2>1, StartIs DEF Operations
<1>e. ASSUME NEW c \in Children, NEW from, NEW to, DrainStep(c, from, to)
      PROVE  paused' \subseteq Children /\ closing' \subseteq Children
  BY <1>e DEF DrainStep, SupervisorTypeOK
<1>20. CASE OpClaim
  <2>1. op.pc # "idle"
    BY <1>20 DEF OpClaim
  <2>2. [child[op.on] EXCEPT !.stopping = TRUE] \in Records
    BY <2>1, <1>d DEF Records
  <2>4. \/ child' = [child EXCEPT ![op.on] = [child[op.on] EXCEPT !.stopping = TRUE]]
        \/ UNCHANGED child
    BY <1>20 DEF OpClaim
  <2>5. child' \in [Children -> Records]
    BY <1>a, <1>d, <2>1, <2>2, <2>4 DEF SupervisorTypeOK
  <2>3. op' \in {[pc |-> "idle"]} \cup Operations
    BY <1>20, <2>1, <1>d DEF OpClaim, Operations, OpPcs, Records
  <2> QED BY <1>20, <2>5, <2>3 DEF OpClaim, SupervisorTypeOK
<1>21. CASE OpBegin
  <2>1. op.pc # "idle"
    BY <1>21 DEF OpBegin
  <2>2. child' \in [Children -> Records]
    BY <1>21, <2>1, <1>d DEF OpBegin, SupervisorTypeOK, Records, States
  <2>3. op' \in {[pc |-> "idle"]} \cup Operations
    BY <1>21, <2>1, <1>d DEF OpBegin, Operations, OpPcs, DrainPcs
  <2> QED BY <1>21, <2>2, <2>3 DEF OpBegin, SupervisorTypeOK
<1>22. CASE OpDrain
  <2>1. op.pc # "idle"
    BY <1>22 DEF OpDrain, DrainPcs
  <2>2. PICK to \in DrainPcs : DrainStep(op.on, op.pc, to) /\ op' = [op EXCEPT !.pc = to]
    BY <1>22 DEF OpDrain
  <2>3. op' \in Operations
    BY <2>1, <2>2, <1>d DEF Operations, OpPcs
  <2>4. paused' \subseteq Children /\ closing' \subseteq Children
    BY <2>1, <2>2, <1>d, <1>e
  <2> QED BY <1>22, <2>3, <2>4 DEF OpDrain, SupervisorTypeOK
<1>23. CASE OpRestore
  <2>1. op.pc # "idle"
    BY <1>23 DEF OpRestore
  <2>2. child' \in [Children -> Records]
    BY <1>23, <2>1, <1>d DEF OpRestore, SupervisorTypeOK, Records
  <2>3. op' \in Operations
    BY <1>23, <2>1, <1>d DEF OpRestore, Operations, OpPcs
  <2> QED BY <1>23, <2>2, <2>3 DEF OpRestore, SupervisorTypeOK
<1>24. CASE OpStop \/ OpStopFails \/ OpRetire \/ OpResume \/ OpFinally
  <2>1. op.pc # "idle"
    BY <1>24 DEF OpStop, OpStopFails, OpRetire, OpResume, OpFinally
  <2>2. op' \in Operations
    BY <1>24, <2>1, <1>d DEF OpStop, OpStopFails, OpRetire, OpResume, OpFinally, Operations, OpPcs
  <2>3. token' \in [Starts -> Tokens]
    BY <1>24, <2>1, <1>d, RetiredIs DEF OpStop, OpStopFails, OpRetire, OpResume, OpFinally, SupervisorTypeOK
  <2> QED BY <1>24, <2>2, <2>3 DEF OpStop, OpStopFails, OpRetire, OpResume, OpFinally, SupervisorTypeOK
<1>25. CASE OpFinish
  <2>1. op.pc # "idle"
    BY <1>25 DEF OpFinish
  <2>2. op' \in Operations
    BY <1>25, <2>1, <1>d DEF OpFinish, Operations, OpPcs
  <2> DEFINE c == op.on
             crashes == IF op.was = "held_down" THEN 0 ELSE child[c].crashes
  <2>3. crashes \in Nat /\ c \in Children
    BY <2>1, <1>c, <1>d
  <2>4. child' \in [Children -> Records] /\ token' \in [Starts -> Tokens] /\ procs' \subseteq Starts
    <3>1. CASE ~StartsAgain
      BY <1>25, <2>1, <3>1, <1>d DEF OpFinish, SupervisorTypeOK, Records, States
    <3>2. CASE StartsAgain /\ Spawn(c, crashes)
      BY <2>3, <3>2, <1>b
    <3>3. ASSUME StartsAgain, NEW f \in FailedSpawns(c, crashes),
                 child' = [child EXCEPT ![c] = IF f.record.start = @.start
                                               THEN [f.record EXCEPT !.state = "stopped"]
                                               ELSE f.record],
                 token' = f.tokens, UNCHANGED procs
          PROVE  child' \in [Children -> Records] /\ token' \in [Starts -> Tokens] /\ procs' \subseteq Starts
      <4> HIDE DEF c, crashes
      <4>1. f.record \in Records /\ f.tokens \in [Starts -> Tokens]
        BY <2>3, FailedIs
      <4>2. [f.record EXCEPT !.state = "stopped"] \in Records
        BY <4>1 DEF Records, States
      <4> QED BY <2>3, <3>3, <4>1, <4>2 DEF SupervisorTypeOK
    <3> QED BY <1>25, <3>1, <3>2, <3>3 DEF OpFinish
  <2> QED BY <1>25, <2>2, <2>4 DEF OpFinish, SupervisorTypeOK
<1>26. CASE OpRelease
  <2>1. op.pc # "idle"
    BY <1>26 DEF OpRelease
  <2>2. child' \in [Children -> Records]
    BY <1>26, <2>1, <1>d DEF OpRelease, SupervisorTypeOK, Records
  <2> QED BY <1>26, <2>2 DEF OpRelease, SupervisorTypeOK
<1>27. CASE ShutdownAsked \/ NextPhase
  BY <1>27 DEF ShutdownAsked, NextPhase, SupervisorTypeOK
<1>28. CASE MarkAll
  <2>1. child' \in [Children -> Records]
    BY <1>28 DEF MarkAll, SupervisorTypeOK, Records
  <2> QED BY <1>28, <2>1 DEF MarkAll, SupervisorTypeOK
<1>29. CASE Close
  <2>1. child' \in [Children -> Records]
    BY <1>29, ConstantsAre DEF Close, SupervisorTypeOK, Records
  <2>2. token' \in [Starts -> Tokens]
    BY <1>29 DEF Close, SupervisorTypeOK, Tokens
  <2> QED BY <1>29, <2>1, <2>2 DEF Close, SupervisorTypeOK
<1>30. ASSUME NEW c \in Children, HaltBegin(c) \/ HaltStop(c) \/ HaltStopFails(c) PROVE SupervisorTypeOK'
  BY <1>30 DEF HaltBegin, HaltStop, HaltStopFails, SupervisorTypeOK, DrainPcs
<1>31. ASSUME NEW c \in Children, HaltRetire(c) PROVE SupervisorTypeOK'
  <2>1. token' \in [Starts -> Tokens]
    BY <1>31, RetiredIs DEF HaltRetire
  <2> QED BY <1>31, <2>1 DEF HaltRetire, SupervisorTypeOK
<1>32. ASSUME NEW c \in Children, HaltDrain(c) PROVE SupervisorTypeOK'
  <2>1. PICK to \in DrainPcs : DrainStep(c, halt[c], to) /\ halt' = [halt EXCEPT ![c] = to]
    BY <1>32 DEF HaltDrain
  <2>2. paused' \subseteq Children /\ closing' \subseteq Children
    BY <2>1, <1>e
  <2> QED BY <1>32, <2>1, <2>2 DEF HaltDrain, SupervisorTypeOK
<1>33. ASSUME NEW c \in Children, KillRest(c) PROVE SupervisorTypeOK'
  <2>1. child' \in [Children -> Records]
    BY <1>33, StartIs DEF KillRest, SupervisorTypeOK, Records, States
  <2> QED BY <1>33, <2>1 DEF KillRest, SupervisorTypeOK
<1>34. CASE UNCHANGED vars
  BY <1>34 DEF vars, SupervisorTypeOK
<1> QED
  BY <1>1, <1>2, <1>3, <1>4, <1>5, <1>6, <1>7, <1>8, <1>9, <1>10, <1>11, <1>12, <1>13, <1>14, <1>15,
     <1>16, <1>17, <1>18, <1>19, <1>20, <1>21, <1>22, <1>23, <1>24, <1>25, <1>26, <1>27, <1>28, <1>29,
     <1>30, <1>31, <1>32, <1>33, <1>34
     DEF Next, TickSteps, PoolSteps, StartSteps, TurnSteps, OpSteps, ShutdownSteps, HaltOne

(* Everything a step may do to the fields of a child's record that say      *)
(* where it is.                                                             *)
Becomes(c, state, start, conn, ready, stopping) ==
    /\ child'[c].state = state /\ child'[c].start = start /\ child'[c].conn = conn
    /\ child'[c].ready = ready /\ child'[c].stopping = stopping

Stays(c) ==
    Becomes(c, child[c].state, child[c].start, child[c].conn, child[c].ready, child[c].stopping)

(* The tick: a respawn, one that fails, a crash noticed; and the reaper. *)
TickedOn(c) ==
    \/ /\ TickRespawn(c)
       /\ Becomes(c, "starting", child[c].start + 1, 0, FALSE, FALSE)
    \/ /\ TickRespawnFails(c)
       /\ \E state \in {"held_down", "restarting"} :
             \/ Becomes(c, state, child[c].start, 0, child[c].ready, FALSE)
             \/ Becomes(c, state, child[c].start + 1, 0, FALSE, FALSE)
    \/ /\ TickCrash(c)
       /\ Becomes(c, child[c].state, child[c].start, child[c].conn, child[c].ready, TRUE)
    \/ /\ \E j \in reaping : j.on = c /\ ReapPolicy(j)
       /\ \E state \in {"stopped", "held_down", "restarting"} :
             /\ shutting_down <=> state = "stopped"
             /\ Becomes(c, state, child[c].start, 0, child[c].ready, FALSE)

(* A passing check, of the connection the child still has. *)
CheckedOn(c) ==
    /\ \E k \in checks : k.on = c /\ k.pc = "asked" /\ k.conn = child[c].conn
    /\ child[c].conn # 0 /\ ~child[c].stopping
    /\ child[c].state \in {"starting", "ready", "degraded"}
    /\ \E state \in {"ready", "degraded"} :
          Becomes(c, state, child[c].start, child[c].conn, child[c].ready, FALSE)
    /\ \E k \in checks, bus_ok, http_ok \in BOOLEAN : CheckEnds(k, bus_ok, http_ok)

(* The child's own hello, its readiness, and its connection's end. *)
SaidBy(c) ==
    \/ /\ Ready(c)
       /\ Becomes(c, child[c].state, child[c].start, child[c].conn, TRUE, child[c].stopping)
    \/ /\ OnHello(c, child[c].start)
       /\ Becomes(c, child[c].state, child[c].start, child[c].start, child[c].ready, child[c].stopping)
    \/ /\ \E n \in 1..MaxStarts : n = child[c].conn /\ OnClose(c, n)
       /\ Becomes(c, child[c].state, child[c].start, 0, child[c].ready, child[c].stopping)

(* The operations thread, at each of its places. *)
OperatedOn(c) ==
    /\ op.on = c
    /\ \/ /\ OpClaim /\ op.pc = "queued" /\ ~RefusedNow(op.kind, c) /\ op'.pc = "claimed"
          /\ Becomes(c, child[c].state, child[c].start, child[c].conn, child[c].ready, TRUE)
       \/ /\ OpBegin /\ op.was \in Healthy /\ child[c].conn # 0 /\ op'.pc = "pause"
          /\ Becomes(c, "draining", child[c].start, child[c].conn, child[c].ready, child[c].stopping)
       \/ /\ OpRestore /\ child[c].state = "draining"
          /\ Becomes(c, op.was, child[c].start, child[c].conn, child[c].ready, child[c].stopping)
       \/ /\ OpRelease
          /\ Becomes(c, child[c].state, child[c].start, child[c].conn, child[c].ready, FALSE)
       \/ /\ OpFinish
          /\ \/ Becomes(c, "stopped", child[c].start, child[c].conn, child[c].ready, child[c].stopping)
             \/ /\ StartsAgain
                /\ \E stopping \in {FALSE, child[c].stopping} :
                      Becomes(c, "starting", child[c].start + 1, 0, FALSE, stopping)

(* The shutdown. *)
ShutDown(c) ==
    \/ /\ MarkAll
       /\ Becomes(c, child[c].state, child[c].start, child[c].conn, child[c].ready, TRUE)
    \/ /\ Close
       /\ Becomes(c, child[c].state, child[c].start, 0, child[c].ready, child[c].stopping)
    \/ /\ KillRest(c)
       /\ Becomes(c, "stopped", child[c].start, child[c].conn, child[c].ready, child[c].stopping)

Touched(c) ==
    Stays(c) \/ TickedOn(c) \/ CheckedOn(c) \/ SaidBy(c) \/ OperatedOn(c) \/ ShutDown(c)

(* A step leaves a child's record where it is, or is one of these. *)
LEMMA ChildIs ==
    ASSUME SupervisorTypeOK, [Next]_vars, NEW c \in Children
    PROVE  Touched(c)
<1>a. child \in [Children -> Records] /\ child[c] \in Records
  BY StartIs DEF SupervisorTypeOK
<1>b. ASSUME child'[c] = child[c] PROVE Stays(c)
  BY <1>b DEF Stays, Becomes
<1>c. ASSUME NEW d, NEW x, child' = [child EXCEPT ![d] = x], d # c PROVE Stays(c)
  BY <1>a, <1>b, <1>c
<1>d. ASSUME NEW x, child' = [child EXCEPT ![c] = x] PROVE child'[c] = x
  BY <1>a, <1>d
<1>e. ASSUME NEW d \in Children, d # c, \E x : child' = [child EXCEPT ![d] = x] PROVE Stays(c)
  BY <1>c, <1>e
<1>1. ASSUME NEW d \in Children, TickRespawn(d) PROVE Touched(c)
  <2>1. child' = [child EXCEPT ![d] = FreshChild(child[d].start + 1, child[d].crashes)]
    BY <1>1 DEF TickRespawn, Spawn
  <2>2. CASE d = c
    <3>1. child'[c] = FreshChild(child[c].start + 1, child[c].crashes)
      BY <1>d, <2>1, <2>2
    <3>2. Becomes(c, "starting", child[c].start + 1, 0, FALSE, FALSE)
      BY <3>1 DEF FreshChild, Becomes
    <3> QED BY <1>1, <2>2, <3>2 DEF Touched, TickedOn
  <2> QED BY <1>c, <2>1, <2>2 DEF Touched
<1>2. ASSUME NEW d \in Children, TickRespawnFails(d) PROVE Touched(c)
  <2>1. PICK f \in FailedSpawns(d, child[d].crashes) : ApplyPolicy(d, f.record)
    BY <1>2 DEF TickRespawnFails
  <2>2. PICK kept \in 0..f.record.crashes : child' = [child EXCEPT ![d] = AfterCrash(f.record, kept)]
    BY <2>1 DEF ApplyPolicy
  <2>3. CASE d = c
    <3>1. child[c].crashes \in Nat /\ ~shutting_down
      BY <1>2, <1>a, <2>3 DEF Records, TickRespawnFails, Ticked, shutting_down
    <3>2. f.record \in Records
          /\ \/ f.record.start = child[c].start /\ f.record.ready = child[c].ready
             \/ f.record.start = child[c].start + 1 /\ f.record.ready = FALSE
      <4>1. f \in FailedSpawns(c, child[c].crashes)
        BY <2>3
      <4> QED BY <3>1, <4>1, FailedIs
    <3>3. child'[c] = AfterCrash(f.record, kept)
      BY <1>d, <2>2, <2>3
    <3>4. PICK state \in {"held_down", "restarting"} :
             Becomes(c, state, f.record.start, 0, f.record.ready, FALSE)
      BY <3>1, <3>2, <3>3, PolicyIs DEF Becomes
    <3> QED BY <1>2, <2>3, <3>2, <3>4 DEF Touched, TickedOn
  <2> QED BY <1>c, <2>2, <2>3 DEF Touched
<1>3. ASSUME NEW d \in Children, TickCrash(d) PROVE Touched(c)
  <2>1. child' = [child EXCEPT ![d] = [child[d] EXCEPT !.stopping = TRUE]]
    BY <1>3 DEF TickCrash
  <2>2. CASE d = c
    <3>1. Becomes(c, child[c].state, child[c].start, child[c].conn, child[c].ready, TRUE)
      BY <1>a, <1>d, <2>1, <2>2 DEF Records, Becomes
    <3> QED BY <1>3, <2>2, <3>1 DEF Touched, TickedOn
  <2> QED BY <1>c, <2>1, <2>2 DEF Touched
<1>4. ASSUME NEW d \in Children, TickCheck(d) PROVE Touched(c)
  <2>1. child' = [child EXCEPT ![d] = [child[d] EXCEPT !.checking = TRUE]]
    BY <1>4 DEF TickCheck
  <2>2. CASE d = c
    BY <1>a, <1>d, <2>1, <2>2 DEF Records, Becomes, Stays, Touched
  <2> QED BY <1>c, <2>1, <2>2 DEF Touched
<1>5. ASSUME NEW j \in reaping, ReapPolicy(j) PROVE Touched(c)
  <2>1. PICK kept \in 0..child[j.on].crashes : child' = [child EXCEPT ![j.on] = AfterCrash(child[j.on], kept)]
    BY <1>5 DEF ReapPolicy, ApplyPolicy
  <2>2. CASE j.on = c
    <3>1. child'[c] = AfterCrash(child[c], kept)
      BY <1>d, <2>1, <2>2
    <3>2. PICK state \in {"stopped", "held_down", "restarting"} :
             /\ shutting_down <=> state = "stopped"
             /\ Becomes(c, state, child[c].start, 0, child[c].ready, FALSE)
      BY <1>a, <2>1, <2>2, <3>1, PolicyIs DEF Becomes
    <3> QED BY <1>5, <2>2, <3>2 DEF Touched, TickedOn
  <2> QED BY <1>c, <2>1, <2>2 DEF Touched
<1>6. ASSUME NEW k \in checks, NEW bus_ok \in BOOLEAN, NEW http_ok \in BOOLEAN, CheckEnds(k, bus_ok, http_ok)
      PROVE  Touched(c)
  <2>1. child' = [child EXCEPT ![k.on] =
                    IF child[k.on].stopping \/ child[k.on].conn # k.conn \/ k.conn = 0
                    THEN [child[k.on] EXCEPT !.checking = FALSE]
                    ELSE AfterCheck(child[k.on], bus_ok, http_ok)]
    BY <1>6 DEF CheckEnds
  <2>2. CASE k.on = c /\ (child[c].stopping \/ child[c].conn # k.conn \/ k.conn = 0)
    <3>1. child'[c] = [child[c] EXCEPT !.checking = FALSE]
      BY <1>d, <2>1, <2>2
    <3> QED BY <1>a, <3>1 DEF Records, Becomes, Stays, Touched
  <2>3. CASE k.on = c /\ ~(child[c].stopping \/ child[c].conn # k.conn \/ k.conn = 0)
    <3>1. child'[c] = AfterCheck(child[c], bus_ok, http_ok)
      BY <1>d, <2>1, <2>3
    <3>2. /\ child'[c].start = child[c].start /\ child'[c].ready = child[c].ready
          /\ child'[c].stopping = child[c].stopping /\ child'[c].conn = child[c].conn
          /\ \/ child'[c].state = child[c].state
             \/ child[c].state \in {"starting", "ready", "degraded"} /\ child'[c].state \in {"ready", "degraded"}
      BY <1>a, <3>1, HealthIs
    <3>3. child[c].stopping = FALSE
      BY <1>a, <2>3 DEF Records
    <3>4. k.pc = "asked"
      BY <1>6 DEF CheckEnds
    <3>5. CASE child'[c].state = child[c].state
      BY <3>2, <3>5 DEF Becomes, Stays, Touched
    <3>6. CASE child[c].state \in {"starting", "ready", "degraded"} /\ child'[c].state \in {"ready", "degraded"}
      BY <1>6, <2>3, <3>2, <3>3, <3>4, <3>6 DEF Becomes, CheckedOn, Touched
    <3> QED BY <3>2, <3>5, <3>6
  <2> QED BY <1>c, <2>1, <2>2, <2>3 DEF Touched
<1>7. ASSUME NEW d \in Children, NEW n \in 1..MaxStarts, NEW ok \in BOOLEAN, ReclaimAnswered(d, n, ok)
      PROVE  Touched(c)
  <2>1. child' = [child EXCEPT ![d] = [child[d] EXCEPT !.stuck = TRUE]] \/ child' = child
    BY <1>7 DEF ReclaimAnswered
  <2>2. CASE d = c /\ child' # child
    <3>1. child'[c] = [child[c] EXCEPT !.stuck = TRUE]
      BY <1>d, <2>1, <2>2
    <3> QED BY <1>a, <3>1 DEF Records, Becomes, Stays, Touched
  <2> QED BY <1>b, <1>c, <2>1, <2>2 DEF Touched
<1>8. ASSUME NEW d \in Children, NEW n \in 1..MaxStarts, OnHello(d, n) PROVE Touched(c)
  <2>1. CASE d = c /\ child[c].start = n
    <3>1. child'[c] = [child[c] EXCEPT !.conn = n]
      BY <1>8, <1>d, <2>1 DEF OnHello
    <3>2. Becomes(c, child[c].state, child[c].start, child[c].start, child[c].ready, child[c].stopping)
      BY <1>a, <2>1, <3>1 DEF Records, Becomes
    <3> QED BY <1>8, <2>1, <3>2 DEF SaidBy, Touched
  <2>2. CASE d = c /\ child[c].start # n
    BY <1>8, <1>b, <2>2 DEF OnHello, Touched
  <2>3. CASE d # c
    <3>1. (\E x : child' = [child EXCEPT ![d] = x]) \/ child' = child
      BY <1>8 DEF OnHello
    <3> QED BY <1>b, <1>e, <2>3, <3>1 DEF Touched
  <2> QED BY <2>1, <2>2, <2>3
<1>9. ASSUME Ready(c) PROVE Touched(c)
  <2>1. child'[c] = [child[c] EXCEPT !.ready = TRUE]
    BY <1>9, <1>d DEF Ready
  <2>2. Becomes(c, child[c].state, child[c].start, child[c].conn, TRUE, child[c].stopping)
    BY <1>a, <2>1 DEF Records, Becomes
  <2> QED BY <1>9, <2>2 DEF SaidBy, Touched
<1>10. ASSUME NEW d \in Children, d # c, Ready(d) PROVE Touched(c)
  <2>1. child' = [child EXCEPT ![d] = [child[d] EXCEPT !.ready = TRUE]]
    BY <1>10 DEF Ready
  <2> QED BY <1>c, <1>10, <2>1 DEF Touched
<1>11. ASSUME NEW d \in Children, NEW n \in 1..MaxStarts, OnClose(d, n) PROVE Touched(c)
  <2>1. CASE d = c /\ child[c].conn = n
    <3>1. child'[c] = [child[c] EXCEPT !.conn = 0]
      BY <1>11, <1>d, <2>1 DEF OnClose
    <3>2. Becomes(c, child[c].state, child[c].start, 0, child[c].ready, child[c].stopping)
      BY <1>a, <2>1, <3>1 DEF Records, Becomes
    <3> QED BY <1>11, <2>1, <3>2 DEF SaidBy, Touched
  <2>2. CASE d = c /\ child[c].conn # n
    BY <1>11, <1>b, <2>2 DEF OnClose, Touched
  <2>3. CASE d # c
    <3>1. (\E x : child' = [child EXCEPT ![d] = x]) \/ child' = child
      BY <1>11 DEF OnClose
    <3> QED BY <1>b, <1>e, <2>3, <3>1 DEF Touched
  <2> QED BY <2>1, <2>2, <2>3
<1>f. ASSUME op.pc # "idle" PROVE op.on \in Children
  BY <1>f DEF SupervisorTypeOK, Operations
<1>12. CASE OpClaim
  <2>1. CASE op.on = c /\ child' # child
    <3>1. /\ child'[c] = [child[c] EXCEPT !.stopping = TRUE]
          /\ op.pc = "queued" /\ ~RefusedNow(op.kind, c) /\ op'.pc = "claimed"
      <4>1. op.pc = "queued" /\ ~RefusedNow(op.kind, op.on) /\ op' = [op EXCEPT !.pc = "claimed", !.was = child[op.on].state]
            /\ child' = [child EXCEPT ![op.on] = [child[op.on] EXCEPT !.stopping = TRUE]]
        BY <1>12, <2>1 DEF OpClaim
      <4>2. op \in Operations
        BY <4>1 DEF SupervisorTypeOK
      <4> QED BY <1>d, <2>1, <4>1, <4>2 DEF Operations
    <3>2. Becomes(c, child[c].state, child[c].start, child[c].conn, child[c].ready, TRUE)
      BY <1>a, <3>1 DEF Records, Becomes
    <3> QED BY <1>12, <2>1, <3>1, <3>2 DEF OperatedOn, Touched
  <2>2. CASE op.on # c /\ child' # child
    <3>1. op.pc = "queued" /\ child' = [child EXCEPT ![op.on] = [child[op.on] EXCEPT !.stopping = TRUE]]
      BY <1>12, <2>2 DEF OpClaim
    <3> QED BY <1>c, <2>2, <3>1 DEF Touched
  <2> QED BY <1>b, <2>1, <2>2 DEF Touched
<1>13. CASE OpBegin
  <2>1. CASE op.on = c /\ child' # child
    <3>1. /\ op.was \in Healthy /\ child[c].conn # 0
          /\ op' = [op EXCEPT !.pc = "pause", !.drained = TRUE]
          /\ child' = [child EXCEPT ![c] = [child[c] EXCEPT !.state = "draining"]] /\ op.pc = "claimed"
      BY <1>13, <2>1 DEF OpBegin
    <3>2. op'.pc = "pause"
      BY <3>1 DEF SupervisorTypeOK, Operations
    <3>3. Becomes(c, "draining", child[c].start, child[c].conn, child[c].ready, child[c].stopping)
      BY <1>a, <1>d, <3>1 DEF Records, Becomes
    <3> QED BY <1>13, <2>1, <3>1, <3>2, <3>3 DEF OperatedOn, Touched
  <2>2. CASE op.on # c /\ child' # child
    <3>1. op.pc = "claimed" /\ child' = [child EXCEPT ![op.on] = [child[op.on] EXCEPT !.state = "draining"]]
      BY <1>13, <2>2 DEF OpBegin
    <3> QED BY <1>c, <2>2, <3>1 DEF Touched
  <2> QED BY <1>b, <2>1, <2>2 DEF Touched
<1>14. CASE OpRestore
  <2>1. child' = [child EXCEPT ![op.on] = [child[op.on] EXCEPT !.state =
                     IF child[op.on].state = "draining" THEN op.was ELSE child[op.on].state]]
    BY <1>14 DEF OpRestore
  <2>2. CASE op.on = c
    <3>1. Becomes(c, IF child[c].state = "draining" THEN op.was ELSE child[c].state,
                  child[c].start, child[c].conn, child[c].ready, child[c].stopping)
      BY <1>a, <1>d, <2>1, <2>2 DEF Records, Becomes
    <3>2. CASE child[c].state = "draining"
      BY <1>14, <2>2, <3>1, <3>2 DEF OperatedOn, Touched
    <3>3. CASE child[c].state # "draining"
      BY <3>1, <3>3 DEF Stays, Touched
    <3> QED BY <3>2, <3>3
  <2> QED BY <1>c, <2>1, <2>2 DEF Touched
<1>15. CASE OpRelease
  <2>1. child' = [child EXCEPT ![op.on] = [child[op.on] EXCEPT !.stopping = FALSE]]
    BY <1>15 DEF OpRelease
  <2>2. CASE op.on = c
    <3>1. Becomes(c, child[c].state, child[c].start, child[c].conn, child[c].ready, FALSE)
      BY <1>a, <1>d, <2>1, <2>2 DEF Records, Becomes
    <3> QED BY <1>15, <2>2, <3>1 DEF OperatedOn, Touched
  <2> QED BY <1>c, <2>1, <2>2 DEF Touched
<1>16. CASE OpFinish
  <2> DEFINE crashes == IF op.was = "held_down" THEN 0 ELSE child[op.on].crashes
  <2>1. op.on \in Children /\ crashes \in Nat
    <3>1. op.on \in Children
      BY <1>16, <1>f DEF OpFinish
    <3>2. child[op.on].crashes \in Nat
      BY <3>1, StartIs DEF Records
    <3> QED BY <3>1, <3>2
  <2>2. CASE ~StartsAgain
    <3>1. child' = [child EXCEPT ![op.on] = [child[op.on] EXCEPT !.state = "stopped"]]
      BY <1>16, <2>2 DEF OpFinish
    <3>2. CASE op.on = c
      <4>1. Becomes(c, "stopped", child[c].start, child[c].conn, child[c].ready, child[c].stopping)
        BY <1>a, <1>d, <3>1, <3>2 DEF Records, Becomes
      <4> QED BY <1>16, <3>2, <4>1 DEF OperatedOn, Touched
    <3> QED BY <1>c, <3>1, <3>2 DEF Touched
  <2>3. CASE StartsAgain /\ Spawn(op.on, crashes)
    <3>1. child' = [child EXCEPT ![op.on] = FreshChild(child[op.on].start + 1, crashes)]
      BY <2>3 DEF Spawn
    <3>2. CASE op.on = c
      <4>1. child'[c] = FreshChild(child[c].start + 1, crashes)
        BY <1>d, <3>1, <3>2
      <4>2. Becomes(c, "starting", child[c].start + 1, 0, FALSE, FALSE)
        BY <4>1 DEF FreshChild, Becomes
      <4> QED BY <1>16, <2>3, <3>2, <4>2 DEF OperatedOn, Touched
    <3> QED BY <1>c, <3>1, <3>2 DEF Touched
  <2>4. ASSUME StartsAgain, NEW f \in FailedSpawns(op.on, crashes),
               child' = [child EXCEPT ![op.on] = IF f.record.start = child[op.on].start
                                                 THEN [f.record EXCEPT !.state = "stopped"]
                                                 ELSE f.record]
        PROVE  Touched(c)
    <3> HIDE DEF crashes
    <3>1. CASE op.on = c
      <4>1. /\ f.record \in Records /\ f.record.stopping = child[c].stopping
            /\ \/ /\ f.record.start = child[c].start
                  /\ f.record.conn = child[c].conn /\ f.record.ready = child[c].ready
               \/ /\ f.record.start = child[c].start + 1 /\ f.record.state = "starting"
                  /\ f.record.conn = 0 /\ f.record.ready = FALSE
        <5>1. f \in FailedSpawns(c, crashes) /\ crashes \in Nat
          BY <2>1, <3>1
        <5> QED BY <5>1, FailedIs
      <4>2. child'[c] = IF f.record.start = child[c].start THEN [f.record EXCEPT !.state = "stopped"] ELSE f.record
        BY <1>d, <2>4, <3>1
      <4>3. child[c].start \in Nat
        BY StartIs
      <4>4. CASE f.record.start = child[c].start /\ f.record.conn = child[c].conn /\ f.record.ready = child[c].ready
        <5>2. child'[c] = [f.record EXCEPT !.state = "stopped"]
          BY <4>2, <4>4
        <5>3. Becomes(c, "stopped", child[c].start, child[c].conn, child[c].ready, child[c].stopping)
          BY <4>1, <4>4, <5>2 DEF Becomes, Records
        <5> QED BY <1>16, <3>1, <5>3 DEF OperatedOn, Touched
      <4>5. CASE f.record.start = child[c].start + 1 /\ f.record.state = "starting"
                 /\ f.record.conn = 0 /\ f.record.ready = FALSE
        <5>1. child'[c] = f.record
          BY <4>2, <4>3, <4>5
        <5>2. Becomes(c, "starting", child[c].start + 1, 0, FALSE, child[c].stopping)
          BY <4>1, <4>5, <5>1 DEF Becomes
        <5> QED BY <1>16, <2>4, <3>1, <5>2 DEF OperatedOn, Touched
      <4> QED BY <4>1, <4>4, <4>5
    <3> QED BY <1>c, <2>4, <3>1 DEF Touched
  <2> QED BY <1>16, <2>2, <2>3, <2>4 DEF OpFinish
<1>17. CASE MarkAll
  <2>1. child'[c] = [child[c] EXCEPT !.stopping = TRUE]
    BY <1>17 DEF MarkAll
  <2>2. Becomes(c, child[c].state, child[c].start, child[c].conn, child[c].ready, TRUE)
    BY <1>a, <2>1 DEF Records, Becomes
  <2> QED BY <1>17, <2>2 DEF ShutDown, Touched
<1>18. CASE Close
  <2>1. child'[c] = [child[c] EXCEPT !.conn = 0]
    BY <1>18 DEF Close
  <2>2. Becomes(c, child[c].state, child[c].start, 0, child[c].ready, child[c].stopping)
    BY <1>a, <2>1 DEF Records, Becomes
  <2> QED BY <1>18, <2>2 DEF ShutDown, Touched
<1>19. ASSUME NEW d \in Children, KillRest(d) PROVE Touched(c)
  <2>1. child' = [child EXCEPT ![d] = [child[d] EXCEPT !.state = "stopped"]]
    BY <1>19 DEF KillRest
  <2>2. CASE d = c
    <3>1. Becomes(c, "stopped", child[c].start, child[c].conn, child[c].ready, child[c].stopping)
      BY <1>a, <1>d, <2>1, <2>2 DEF Records, Becomes
    <3> QED BY <1>19, <2>2, <3>1 DEF ShutDown, Touched
  <2> QED BY <1>c, <2>1, <2>2 DEF Touched
<1>20. CASE UNCHANGED child
  BY <1>b, <1>20 DEF Touched
<1>21. \/ UNCHANGED child \/ OpClaim \/ OpBegin \/ OpRestore \/ OpFinish \/ OpRelease \/ MarkAll \/ Close
       \/ \E d \in Children : \/ TickRespawn(d) \/ TickRespawnFails(d) \/ TickCrash(d) \/ TickCheck(d)
                              \/ Ready(d) \/ KillRest(d)
       \/ \E j \in reaping : ReapPolicy(j)
       \/ \E k \in checks, bus_ok, http_ok \in BOOLEAN : CheckEnds(k, bus_ok, http_ok)
       \/ \E d \in Children, n \in 1..MaxStarts :
             OnHello(d, n) \/ OnClose(d, n) \/ \E ok \in BOOLEAN : ReclaimAnswered(d, n, ok)
  BY DEF Next, vars, TickSteps, PoolSteps, StartSteps, TurnSteps, OpSteps, ShutdownSteps, HaltOne,
         ReapStop, CheckBegins, Reclaim, HelloAdmitted, HelloAccepted, Exits, TurnStarts, TurnEnds, Submit,
         OpDrain, OpStop, OpStopFails, OpRetire, OpResume, OpFinally, ShutdownAsked, NextPhase,
         HaltBegin, HaltDrain, HaltStop, HaltStopFails, HaltRetire
<1> QED BY <1>1, <1>2, <1>3, <1>4, <1>5, <1>6, <1>7, <1>8, <1>9, <1>10, <1>11, <1>12, <1>13, <1>14, <1>15,
           <1>16, <1>17, <1>18, <1>19, <1>20, <1>21

(* The operations thread goes from a place to another, for the same child.  *)
OpGoes(from, to, was, drained) ==
    /\ op.pc = from /\ op'.pc = to /\ op'.was = was /\ op'.drained = drained
    /\ op'.on = op.on /\ op'.kind = op.kind

(* What an operation drains first: a healthy child that is connected. *)
Drained == op.kind # "start" /\ op.was \in Healthy /\ child[op.on].conn # 0

(* Every step of the operations thread: where from and where to. *)
OpMoves ==
    \/ op.pc \in {"queued", "release"} /\ op' = [pc |-> "idle"]
    \/ OpClaim /\ OpGoes("queued", "claimed", child[op.on].state, op.drained)
         /\ ~RefusedNow(op.kind, op.on)
    \/ OpBegin /\ OpGoes("claimed", "pause", op.was, TRUE) /\ Drained
    \/ OpBegin /\ OpGoes("claimed", "stop", op.was, op.drained) /\ ~Drained
    \/ /\ OpDrain
       /\ \E to \in DrainPcs : DrainStep(op.on, op.pc, to) /\ OpGoes(op.pc, to, op.was, op.drained)
    \/ OpRestore /\ OpGoes("undrained", "finally", op.was, op.drained)
    \/ OpStop /\ op.pc \in {"stop", "drained"} /\ OpGoes(op.pc, "retire", op.was, op.drained)
    \/ OpStopFails /\ op.pc \in {"stop", "drained"} /\ OpGoes(op.pc, "finally", op.was, op.drained)
    \/ OpRetire /\ OpGoes("retire", "resume", op.was, op.drained)
    \/ OpResume /\ OpGoes("resume", "finish", op.was, FALSE)
    \/ OpFinish /\ OpGoes("finish", "finally", op.was, op.drained)
    \/ OpFinally /\ OpGoes("finally", "release", op.was, op.drained)

(* An operation under way moves so, and is on a worker. *)
LEMMA OpIs ==
    ASSUME SupervisorTypeOK, OpSteps
    PROVE  /\ op.pc # "idle" /\ op \in Operations /\ op.on \in Children /\ op.on \in Workers
           /\ OpMoves
<1>1. op.pc # "idle"
  BY DEF OpSteps, OpClaim, OpBegin, OpDrain, OpRestore, OpStop, OpStopFails, OpRetire, OpResume,
         OpFinish, OpFinally, OpRelease, DrainPcs
<1>2. op \in Operations /\ op.on \in Children /\ op.on \in Workers
  BY <1>1 DEF SupervisorTypeOK, Operations
<1> SUFFICES OpMoves
  BY <1>1, <1>2
<1>4. CASE OpClaim
  BY <1>2, <1>4 DEF OpClaim, OpMoves, OpGoes, Operations
<1>5. CASE OpBegin
  <2>1. CASE Drained
    <3>1. op' = [op EXCEPT !.pc = "pause", !.drained = TRUE]
      BY <1>5, <2>1 DEF OpBegin, Drained
    <3>2. OpGoes("claimed", "pause", op.was, TRUE)
      BY <1>2, <1>5, <3>1 DEF OpBegin, OpGoes, Operations
    <3> QED BY <1>5, <2>1, <3>2 DEF OpMoves
  <2>2. CASE ~Drained
    <3>1. op' = [op EXCEPT !.pc = "stop"]
      BY <1>5, <2>2 DEF OpBegin, Drained
    <3>2. OpGoes("claimed", "stop", op.was, op.drained)
      BY <1>2, <1>5, <3>1 DEF OpBegin, OpGoes, Operations
    <3> QED BY <1>5, <2>2, <3>2 DEF OpMoves
  <2> QED BY <2>1, <2>2
<1>6. CASE OpDrain
  <2>1. PICK to \in DrainPcs : DrainStep(op.on, op.pc, to) /\ op' = [op EXCEPT !.pc = to]
    BY <1>6 DEF OpDrain
  <2>2. OpGoes(op.pc, to, op.was, op.drained)
    BY <1>2, <2>1 DEF Operations, OpGoes, OpPcs
  <2> QED BY <1>6, <2>1, <2>2 DEF OpMoves
<1>7. CASE OpRestore \/ OpStop \/ OpStopFails
  BY <1>2, <1>7 DEF OpRestore, OpStop, OpStopFails, OpMoves, OpGoes, Operations
<1>8. CASE OpRetire \/ OpResume \/ OpFinish \/ OpFinally
  <2>1. OpRetire \/ OpResume \/ (op.pc = "finish" /\ op' = [op EXCEPT !.pc = "finally"] /\ OpFinish) \/ OpFinally
    BY <1>8 DEF OpFinish
  <2> QED BY <1>2, <2>1 DEF OpRetire, OpResume, OpFinally, OpMoves, OpGoes, Operations
<1>9. CASE OpRelease
  BY <1>9 DEF OpRelease, OpMoves
<1> QED BY <1>4, <1>5, <1>6, <1>7, <1>8, <1>9 DEF OpSteps

(* Only the operations thread moves an operation, once it is submitted. *)
LEMMA OpBy ==
    ASSUME [Next]_vars
    PROVE  \/ OpSteps
           \/ UNCHANGED op
           \/ \E kind \in Kinds, c \in Workers \cap Children : Submit(kind, c)
BY DEF Next, vars, TickSteps, PoolSteps, StartSteps, TurnSteps, ShutdownSteps, HaltOne,
       TickRespawn, TickRespawnFails, TickCrash, TickCheck, Ready, ReapStop, ReapPolicy, CheckBegins,
       CheckEnds, Reclaim, ReclaimAnswered, HelloAdmitted, HelloAccepted, OnHello, OnClose, Exits,
       TurnStarts, TurnEnds, ShutdownAsked, MarkAll, NextPhase, Close,
       HaltBegin, HaltDrain, HaltStop, HaltStopFails, HaltRetire, KillRest

(* Only a crash puts a child in the reaper's hands, and only the reaper      *)
(* takes it out.                                                             *)
LEMMA ReapingBy ==
    ASSUME [Next]_vars
    PROVE  \/ UNCHANGED reaping
           \/ \E c \in Children : TickCrash(c)
           \/ \E j \in reaping : ReapStop(j) \/ ReapPolicy(j)
BY DEF Next, vars, TickSteps, PoolSteps, StartSteps, TurnSteps, OpSteps, ShutdownSteps, HaltOne,
       TickRespawn, TickRespawnFails, TickCheck, Ready, CheckBegins,
       CheckEnds, Reclaim, ReclaimAnswered, HelloAdmitted, HelloAccepted, OnHello, OnClose, Exits,
       TurnStarts, TurnEnds, Submit, OpClaim, OpBegin, OpDrain, OpRestore, OpStop, OpStopFails,
       OpRetire, OpResume, OpFinish, OpFinally, OpRelease, ShutdownAsked, MarkAll, NextPhase, Close,
       HaltBegin, HaltDrain, HaltStop, HaltStopFails, HaltRetire, KillRest

(* What each kind of step leaves alone. *)
LEMMA OpLeaves == ASSUME OpSteps PROVE UNCHANGED <<checks, reaping, reclaims, turns, main, halt>>
BY DEF OpSteps, OpClaim, OpBegin, OpDrain, OpRestore, OpStop, OpStopFails,
       OpRetire, OpResume, OpFinish, OpFinally, OpRelease

(* The main thread moves itself; a signal asks it to stop. *)
LEMMA MainBy ==
    ASSUME [Next]_vars
    PROVE  UNCHANGED main \/ ShutdownAsked \/ MarkAll \/ NextPhase \/ Close
BY DEF Next, vars, TickSteps, PoolSteps, StartSteps, TurnSteps, OpSteps, ShutdownSteps, HaltOne,
       TickRespawn, TickRespawnFails, TickCrash, TickCheck, Ready, ReapStop, ReapPolicy, CheckBegins,
       CheckEnds, Reclaim, ReclaimAnswered, HelloAdmitted, HelloAccepted, OnHello, OnClose, Exits,
       TurnStarts, TurnEnds, Submit, OpClaim, OpBegin, OpDrain, OpRestore, OpStop, OpStopFails,
       OpRetire, OpResume, OpFinish, OpFinally, OpRelease,
       HaltBegin, HaltDrain, HaltStop, HaltStopFails, HaltRetire, KillRest

(* A shutdown is never taken back, and goes one way. *)
LEMMA MainIs ==
    ASSUME [Next]_vars
    PROVE  /\ shutting_down => shutting_down'
           /\ main' = "ticking" => main = "ticking"
           /\ main \notin {"ticking", "stopping"} => main' \notin {"ticking", "stopping"}
           /\ main = "closed" => main' = "closed"
BY MainBy DEF ShutdownAsked, MarkAll, NextPhase, Close, shutting_down

(* What changes a child's start: a respawn of the tick's, or the end of an  *)
(* operation.                                                               *)
Respawns(c) ==
    \/ TickRespawn(c) \/ TickRespawnFails(c)
    \/ OpFinish /\ StartsAgain /\ op.on = c

(* A start changes by a respawn, before the shutdown, and to the next one. *)
LEMMA StartBy ==
    ASSUME SupervisorTypeOK, [Next]_vars, NEW c \in Children, child'[c].start # child[c].start
    PROVE  /\ Respawns(c) /\ main = "ticking" /\ main' = "ticking"
           /\ child'[c].start = child[c].start + 1 /\ child'[c].conn = 0 /\ child'[c].ready = FALSE
<1>1. Touched(c)
  BY ChildIs
<1>2. ASSUME NEW state, NEW conn, NEW ready, NEW stopping, Becomes(c, state, child[c].start, conn, ready, stopping)
      PROVE FALSE
  BY <1>2 DEF Becomes
<1>3. CASE TickedOn(c)
  <2>1. TickRespawn(c) \/ TickRespawnFails(c)
    BY <1>2, <1>3 DEF TickedOn
  <2>2. \E state, stopping : Becomes(c, state, child[c].start + 1, 0, FALSE, stopping)
    BY <1>2, <1>3 DEF TickedOn
  <2> QED BY <2>1, <2>2 DEF Respawns, TickRespawn, TickRespawnFails, Ticked, Becomes
<1>4. CASE OperatedOn(c)
  <2>1. OpFinish /\ StartsAgain /\ op.on = c
        /\ \E stopping : Becomes(c, "starting", child[c].start + 1, 0, FALSE, stopping)
    BY <1>2, <1>4 DEF OperatedOn
  <2> QED BY <2>1 DEF Respawns, OpFinish, StartsAgain, shutting_down, Becomes
<1>5. CASE Stays(c) \/ CheckedOn(c) \/ SaidBy(c) \/ ShutDown(c)
  BY <1>2, <1>5 DEF Stays, CheckedOn, SaidBy, ShutDown
<1> QED BY <1>1, <1>3, <1>4, <1>5 DEF Touched

(* A spawn, or one that failed: the old start's token is retired, the new   *)
(* one's is unused or dead, and no other is touched.                        *)
Renewed(c, tokens) ==
    \E x \in {"unused", "dead"} : \A s \in Starts :
        tokens[s] = IF s = <<c, child[c].start + 1>> THEN x ELSE Retired(c, token)[s]

(* _spawn: the new start has a process and its token. *)
LEMMA SpawnTokens ==
    ASSUME SupervisorTypeOK, NEW c \in Children, NEW crashes, Spawn(c, crashes)
    PROVE  /\ Renewed(c, token')
           /\ procs' = procs \cup {<<c, child[c].start + 1>>}
           /\ child'[c].start = child[c].start + 1
<1>1. token' = [Retired(c, token) EXCEPT ![<<c, child[c].start + 1>>] = "unused"]
  BY DEF Spawn
<1>2. Retired(c, token) \in [Starts -> Tokens] /\ <<c, child[c].start + 1>> \in Starts
  <2>1. <<c, child[c].start + 1>> \in Starts
    BY StartIs, ConstantsAre DEF Spawn, Starts
  <2> QED BY <2>1, RetiredIs
<1>3. \A s \in Starts : token'[s] = IF s = <<c, child[c].start + 1>> THEN "unused" ELSE Retired(c, token)[s]
  BY <1>1, <1>2
<1>4. child'[c] = FreshChild(child[c].start + 1, crashes)
  BY DEF Spawn, SupervisorTypeOK
<1>5. Renewed(c, token')
  BY <1>3 DEF Renewed
<1>6. child'[c].start = child[c].start + 1
  BY <1>4 DEF FreshChild
<1> QED BY <1>5, <1>6 DEF Spawn

(* A spawn that failed, on the tokens. *)
LEMMA FailedTokens ==
    ASSUME SupervisorTypeOK, NEW c \in Children, NEW crashes \in Nat,
           NEW f \in FailedSpawns(c, crashes)
    PROVE  \/ f.record.start = child[c].start /\ f.tokens = Retired(c, token)
           \/ f.record.start = child[c].start + 1 /\ Renewed(c, f.tokens)
BY FailedIs DEF Renewed

(* What a step does to the tokens when it starts c, or fails to.            *)
LEMMA RespawnTokens ==
    ASSUME SupervisorTypeOK, NEW c \in Children, Respawns(c)
    PROVE  \/ /\ child'[c].start = child[c].start + 1 /\ Renewed(c, token')
              /\ procs' \subseteq procs \cup {<<c, child[c].start + 1>>}
           \/ /\ child'[c].start = child[c].start /\ token' = Retired(c, token)
              /\ procs' = procs
<1>a. child \in [Children -> Records] /\ child[c] \in Records /\ child[c].crashes \in Nat
  BY StartIs DEF SupervisorTypeOK, Records
<1>1. CASE TickRespawn(c)
  BY <1>1, SpawnTokens DEF TickRespawn
<1>2. CASE TickRespawnFails(c)
  <2>1. PICK f \in FailedSpawns(c, child[c].crashes) :
           ApplyPolicy(c, f.record) /\ token' = f.tokens
    BY <1>2 DEF TickRespawnFails
  <2>2. PICK kept \in 0..f.record.crashes : child' = [child EXCEPT ![c] = AfterCrash(f.record, kept)]
    BY <2>1 DEF ApplyPolicy
  <2>3. child'[c].start = f.record.start
    BY <1>a, <2>2, FailedIs, PolicyIs
  <2> QED BY <1>2, <1>a, <2>1, <2>3, FailedTokens DEF TickRespawnFails
<1>3. CASE OpFinish /\ StartsAgain /\ op.on = c
  <2> DEFINE crashes == IF op.was = "held_down" THEN 0 ELSE child[c].crashes
  <2>1. crashes \in Nat
    BY <1>a
  <2>2. \/ Spawn(c, crashes)
        \/ \E f \in FailedSpawns(c, crashes) :
              /\ child' = [child EXCEPT ![c] =
                              IF f.record.start = child[c].start
                              THEN [f.record EXCEPT !.state = "stopped"] ELSE f.record]
              /\ token' = f.tokens /\ UNCHANGED procs
    BY <1>3 DEF OpFinish
  <2> HIDE DEF crashes
  <2>3. CASE Spawn(c, crashes)
    BY <2>3, SpawnTokens
  <2>4. ASSUME NEW f \in FailedSpawns(c, crashes), token' = f.tokens, UNCHANGED procs,
               child' = [child EXCEPT ![c] = IF f.record.start = child[c].start
                                             THEN [f.record EXCEPT !.state = "stopped"] ELSE f.record]
        PROVE  \/ /\ child'[c].start = child[c].start + 1 /\ Renewed(c, token')
                  /\ procs' \subseteq procs \cup {<<c, child[c].start + 1>>}
               \/ /\ child'[c].start = child[c].start /\ token' = Retired(c, token)
                  /\ procs' = procs
    <3>1. f.record \in Records
      BY <2>1, FailedIs
    <3>2. child'[c] = IF f.record.start = child[c].start
                      THEN [f.record EXCEPT !.state = "stopped"] ELSE f.record
      BY <1>a, <2>4
    <3>3. child'[c].start = f.record.start
      BY <3>1, <3>2 DEF Records
    <3> QED BY <2>1, <2>4, <3>3, FailedTokens
  <2> QED BY <2>2, <2>3, <2>4
<1> QED BY <1>1, <1>2, <1>3 DEF Respawns

(* Whatever else changes a token.                                           *)
Retires(c) ==
    \/ \E j \in reaping : j.on = c /\ ReapPolicy(j)
    \/ OpRetire /\ op.on = c
    \/ HaltRetire(c)

(* Every step that can change a token. *)
LEMMA TokenBy ==
    ASSUME [Next]_vars, SupervisorTypeOK
    PROVE  \/ UNCHANGED token
           \/ \E c \in Children : Respawns(c) \/ (Retires(c) /\ token' = Retired(c, token))
           \/ OpFinish /\ ~StartsAgain
           \/ \E c \in Children, n \in 1..MaxStarts :
                 HelloAdmitted(c, n) \/ HelloAccepted(c, n) \/ OnHello(c, n) \/ OnClose(c, n)
           \/ Close
<1>1. ASSUME OpFinish PROVE op.on \in Children
  BY <1>1, OpIs DEF OpSteps
<1>2. ASSUME OpRetire PROVE op.on \in Children /\ token' = Retired(op.on, token)
  BY <1>2, OpIs DEF OpSteps, OpRetire
<1>3. ASSUME NEW j \in reaping, ReapPolicy(j) PROVE j.on \in Children /\ token' = Retired(j.on, token)
  BY <1>3 DEF ReapPolicy, SupervisorTypeOK
<1>4. ASSUME NEW c \in Children, HaltRetire(c) PROVE token' = Retired(c, token)
  BY <1>4 DEF HaltRetire
<1>5. \/ UNCHANGED token
      \/ \E c \in Children : TickRespawn(c) \/ TickRespawnFails(c) \/ HaltRetire(c)
      \/ \E j \in reaping : ReapPolicy(j)
      \/ OpRetire \/ OpFinish
      \/ \E c \in Children, n \in 1..MaxStarts :
            HelloAdmitted(c, n) \/ HelloAccepted(c, n) \/ OnHello(c, n) \/ OnClose(c, n)
      \/ Close
  BY DEF Next, vars, TickSteps, PoolSteps, StartSteps, TurnSteps, OpSteps, ShutdownSteps, HaltOne,
         TickCrash, TickCheck, Ready, ReapStop, CheckBegins, CheckEnds, Reclaim, ReclaimAnswered,
         Exits, TurnStarts, TurnEnds, Submit, OpClaim, OpBegin, OpDrain, OpRestore, OpStop, OpStopFails,
         OpResume, OpFinally, OpRelease, ShutdownAsked, MarkAll, NextPhase,
         HaltBegin, HaltDrain, HaltStop, HaltStopFails, KillRest
<1> QED BY <1>1, <1>2, <1>3, <1>4, <1>5 DEF Respawns, Retires

(* All a step can do to a token of a child it does not start.               *)
TokenGoes(s) ==
    \/ token'[s] = token[s]
    \/ s = Current(s[1]) /\ token[s] \in {"unused", "admitted"} /\ token'[s] = "dead"
    \/ HelloAdmitted(s[1], s[2]) /\ token[s] = "unused" /\ token'[s] = "admitted"
    \/ HelloAccepted(s[1], s[2]) /\ token[s] = "admitted" /\ token'[s] = "live"
    \/ OnHello(s[1], s[2]) /\ token[s] = "live" /\ token'[s] = "linked"
    \/ OnClose(s[1], s[2]) /\ token[s] = "linked" /\ token'[s] = "dead"
    \/ Close /\ token[s] \in {"live", "linked"} /\ token'[s] = "dead"

(* And no more than that, of a start whose child keeps its start. *)
LEMMA TokenIs ==
    ASSUME SupervisorTypeOK, [Next]_vars, NEW s \in Starts,
           child'[s[1]].start = child[s[1]].start
    PROVE  TokenGoes(s)
<1>a. token \in [Starts -> Tokens] /\ s[1] \in Children /\ s = <<s[1], s[2]>>
  BY DEF SupervisorTypeOK, Starts
<1>b. ASSUME NEW c \in Children, token'[s] = Retired(c, token)[s] PROVE TokenGoes(s)
  <2>1. CASE s = Current(c)
    BY <1>a, <1>b, <2>1, RetiredIs DEF TokenGoes, Current
  <2>2. CASE s # Current(c)
    BY <1>b, <2>2, RetiredIs DEF TokenGoes
  <2> QED BY <2>1, <2>2
<1>1. ASSUME NEW c \in Children, Respawns(c) PROVE TokenGoes(s)
  <2>1. CASE token' = Retired(c, token)
    BY <1>b, <2>1
  <2>2. CASE Renewed(c, token') /\ child'[c].start = child[c].start + 1
    <3>1. child[c].start + 1 # child[c].start
      BY StartIs
    <3>2. s[1] # c
      BY <2>2, <3>1
    <3>3. s # <<c, child[c].start + 1>>
      BY <1>a, <3>2
    <3> QED BY <1>b, <2>2, <3>3 DEF Renewed
  <2> QED BY <1>1, <2>1, <2>2, RespawnTokens
<1>2. CASE OpFinish /\ ~StartsAgain
  BY <1>2 DEF OpFinish, TokenGoes
<1>3. ASSUME NEW c \in Children, NEW n \in 1..MaxStarts,
             HelloAdmitted(c, n) \/ HelloAccepted(c, n) \/ OnHello(c, n) \/ OnClose(c, n)
      PROVE  TokenGoes(s)
  <2>1. CASE s = <<c, n>>
    <3>1. s[1] = c /\ s[2] = n
      BY <2>1
    <3> HIDE DEF TokenGoes
    <3>2. ASSUME HelloAdmitted(c, n) PROVE TokenGoes(s)
      BY <1>a, <2>1, <3>1, <3>2 DEF HelloAdmitted, TokenGoes
    <3>3. ASSUME HelloAccepted(c, n) PROVE TokenGoes(s)
      BY <1>a, <2>1, <3>1, <3>3 DEF HelloAccepted, TokenGoes
    <3>4. ASSUME OnHello(c, n) PROVE TokenGoes(s)
      BY <1>a, <2>1, <3>1, <3>4 DEF OnHello, TokenGoes
    <3>5. ASSUME OnClose(c, n) PROVE TokenGoes(s)
      BY <1>a, <2>1, <3>1, <3>5 DEF OnClose, TokenGoes
    <3> QED BY <1>3, <3>2, <3>3, <3>4, <3>5
  <2>2. CASE s # <<c, n>>
    BY <1>a, <1>3, <2>2 DEF HelloAdmitted, HelloAccepted, OnHello, OnClose, TokenGoes
  <2> QED BY <2>1, <2>2
<1>4. CASE Close
  BY <1>4 DEF Close, TokenGoes
<1>5. CASE UNCHANGED token
  BY <1>5 DEF TokenGoes
<1> QED BY <1>1, <1>2, <1>3, <1>4, <1>5, <1>b, TokenBy

(* A step of the operations thread moves it: it is no other step. *)
LEMMA OpDiffers == ASSUME SupervisorTypeOK, OpSteps PROVE op' # op
<1>1. OpMoves
  BY OpIs
<1>2. ASSUME NEW to, DrainStep(op.on, op.pc, to) PROVE op.pc # to
  BY <1>2 DEF DrainStep
<1>3. op'.pc # op.pc
  BY <1>1, <1>2 DEF OpMoves, OpGoes
<1> QED BY <1>3

(* A step of the operations thread touches its own child only, and no other *)
(* step is the operations thread's.                                         *)
LEMMA OpTouches ==
    ASSUME SupervisorTypeOK, [Next]_vars, NEW c \in Children
    PROVE  /\ OpSteps => Stays(c) \/ OperatedOn(c)
           /\ UNCHANGED op => Stays(c) \/ TickedOn(c) \/ CheckedOn(c) \/ SaidBy(c) \/ ShutDown(c)
           /\ OperatedOn(c) => OpSteps
<1>1. Touched(c)
  BY ChildIs
<1>2. OperatedOn(c) => OpSteps
  BY DEF OperatedOn, OpSteps
<1>3. TickedOn(c) \/ CheckedOn(c) \/ SaidBy(c) \/ ShutDown(c) => UNCHANGED op
  BY DEF TickedOn, CheckedOn, SaidBy, ShutDown, TickRespawn, TickRespawnFails, TickCrash, ReapPolicy,
         CheckEnds, Ready, OnHello, OnClose, MarkAll, Close, KillRest
<1> QED BY <1>1, <1>2, <1>3, OpDiffers DEF Touched

(* Submitting an operation changes nothing but the queue. *)
LEMMA SubmitTouches ==
    ASSUME SupervisorTypeOK, NEW kind, NEW c, Submit(kind, c)
    PROVE  /\ op.pc = "idle" /\ op'.pc = "queued" /\ op'.on = c /\ ~shutting_down
           /\ UNCHANGED <<child, token, procs, checks, reaping, reclaims, paused, closing, turns, main, halt>>
BY DEF Submit

(* What takes a child's mark away.                                          *)
LEMMA MarkKept ==
    ASSUME SupervisorTypeOK, [Next]_vars, NEW c \in Children, child[c].stopping, ~child'[c].stopping
    PROVE  \/ \E j \in reaping : j.on = c /\ ReapPolicy(j)
           \/ op.on = c /\ (OpRelease \/ OpFinish)
<1>1. Touched(c)
  BY ChildIs
<1>2. child[c].stopping = TRUE
  BY StartIs DEF Records
<1> QED BY <1>1, <1>2
       DEF Touched, Stays, TickedOn, CheckedOn, SaidBy, OperatedOn, ShutDown, Becomes,
           TickRespawn, TickRespawnFails, TickCrash, Ticked

(* Between its claim and its finally clause an operation works on its child. *)
Working == op.pc \notin {"idle", "queued", "finally", "release"}

(* Whoever works on a child has it marked, and alone.                       *)
Held(j) ==
    /\ child[j.on].stopping
    /\ op.pc \notin {"idle", "queued"} => op.on # j.on
    /\ main = "ticking" => child[j.on].state # "held_down"

Claims ==
    /\ Working => child[op.on].stopping
    /\ \A j \in reaping : Held(j) /\ \A i \in reaping : i.on = j.on => i = j

(* The hypothesis of the theorems: the tick notices no crash of the child of *)
(* an operation that is in its finally clause. server.py gives no such word: *)
(* the start an operation made is unmarked, and a process that dies at once  *)
(* may be noticed, which leaves the reaper and the operation's release with  *)
(* one mark (README, finding 1).                                             *)
ClaimedLast ==
    \A c \in Children : TickCrash(c) => ~(op.pc \in {"finally", "release"} /\ op.on = c)

(* At the start nobody works on anything. *)
LEMMA ClaimsInit == Init => Claims
BY DEF Init, Claims, Working

(* The child an operation works on stays marked: whatever unmarks it would   *)
(* be the reaper, who has another.                                           *)
LEMMA WorkingStays ==
    ASSUME SupervisorTypeOK, Claims, [Next]_vars, Working'
    PROVE  child'[op'.on].stopping
<1>1. CASE OpSteps
  <2>1. OpMoves /\ op.on \in Children /\ op.pc # "idle" /\ op' # op
    BY <1>1, OpIs, OpDiffers
  <2>2. CASE OpClaim /\ op'.on = op.on /\ ~RefusedNow(op.kind, op.on)
    <3>1. child' = [child EXCEPT ![op.on] = [child[op.on] EXCEPT !.stopping = TRUE]]
      BY <2>2 DEF OpClaim
    <3>2. child[op.on] \in Records /\ child \in [Children -> Records]
      BY <2>1 DEF SupervisorTypeOK
    <3> QED BY <2>1, <2>2, <3>1, <3>2 DEF Records
  <2>3. CASE Working /\ op'.on = op.on /\ ~OpRelease /\ ~OpFinish
    <3>1. child[op.on].stopping
      BY <2>3 DEF Claims
    <3>2. \A j \in reaping : ~ReapPolicy(j)
      BY <2>1 DEF ReapPolicy
    <3> QED BY <2>1, <2>3, <3>1, <3>2, MarkKept
  <2>4. OpRelease => op'.pc = "idle"
    BY DEF OpRelease
  <2>5. OpFinish => op'.pc = "finally"
    BY <2>1, OpIs DEF OpFinish, SupervisorTypeOK, Operations
  <2>6. \/ OpClaim /\ op'.on = op.on /\ ~RefusedNow(op.kind, op.on)
        \/ Working /\ op'.on = op.on
    BY <2>1 DEF OpMoves, OpGoes, OpDrain, Working, DrainPcs
  <2> QED BY <2>2, <2>3, <2>4, <2>5, <2>6 DEF Working
<1>2. CASE UNCHANGED op
  <2>1. Working /\ op.on \in Children /\ op'.on = op.on
    <3>1. Working /\ op.pc # "idle"
      BY <1>2 DEF Working
    <3> QED BY <1>2, <3>1 DEF SupervisorTypeOK, Operations
  <2>2. child[op.on].stopping /\ \A j \in reaping : j.on # op.on
    BY <2>1 DEF Claims, Held, Working
  <2>3. ~OpRelease /\ ~OpFinish
    BY <1>2, OpDiffers DEF OpSteps
  <2> QED BY <2>1, <2>2, <2>3, MarkKept
<1>3. ASSUME NEW kind \in Kinds, NEW c \in Workers \cap Children, Submit(kind, c)
      PROVE  FALSE
  BY <1>3, SubmitTouches DEF Working
<1> QED BY <1>1, <1>2, <1>3, OpBy

(* One in the reaper's hands stays in them.                                 *)
LEMMA HeldStays ==
    ASSUME SupervisorTypeOK, Claims, [Next]_vars, NEW j \in reaping,
           \A i \in reaping : i.on = j.on => ~ReapPolicy(i)
    PROVE  /\ child'[j.on].stopping
           /\ op'.pc \notin {"idle", "queued"} => op'.on # j.on
           /\ main' = "ticking" => child'[j.on].state # "held_down"
<1>1. j.on \in Children /\ Held(j) /\ child[j.on].stopping
  BY DEF SupervisorTypeOK, Claims, Held
<1>2. OpSteps => op.pc # "idle" /\ op.on \in Children
  BY OpIs
<1>3. ~(op.on = j.on /\ (OpRelease \/ OpFinish))
  BY <1>1 DEF Held, OpRelease, OpFinish
<1>4. child'[j.on].stopping
  BY <1>1, <1>3, MarkKept
<1>5. op'.pc \notin {"idle", "queued"} => op'.on # j.on
  <2>1. CASE OpSteps
    <3>1. OpMoves
      BY <2>1, OpIs
    <3>2. OpClaim => op.on # j.on \/ RefusedNow(op.kind, op.on)
      BY <1>1 DEF RefusedNow
    <3>3. CASE op.pc = "queued"
      BY <3>1, <3>2, <3>3 DEF OpMoves, OpGoes, DrainPcs, OpDrain
    <3>4. CASE op.pc # "queued"
      BY <1>1, <1>2, <2>1, <3>1, <3>4 DEF OpMoves, OpGoes, Held
    <3> QED BY <3>3, <3>4
  <2>2. CASE UNCHANGED op
    BY <1>1, <2>2 DEF Held
  <2> QED BY <2>1, <2>2, OpBy, SubmitTouches
<1>6. main' = "ticking" => child'[j.on].state # "held_down"
  <2>1. SUFFICES ASSUME main' = "ticking", child'[j.on].state = "held_down" PROVE FALSE
    OBVIOUS
  <2>2. main = "ticking" /\ child[j.on].state # "held_down"
    BY <1>1, <2>1, MainIs DEF Held
  <2>3. Touched(j.on)
    BY <1>1, ChildIs
  <2>4. ~OperatedOn(j.on)
    <3>1. OperatedOn(j.on) => op.pc \in {"idle", "queued"}
      BY <1>1 DEF OperatedOn, Held
    <3>2. OperatedOn(j.on) => op.pc = "queued"
      BY <3>1, OpIs DEF OperatedOn, OpSteps
    <3>3. OperatedOn(j.on) => op.on = j.on /\ ~RefusedNow(op.kind, j.on)
      BY <3>2 DEF OperatedOn, OpBegin, OpRestore, OpRelease, OpFinish
    <3> QED BY <1>1, <3>3 DEF RefusedNow
  <2> QED BY <1>1, <2>1, <2>2, <2>3, <2>4
          DEF Touched, Stays, TickedOn, CheckedOn, SaidBy, ShutDown, Becomes,
              TickRespawn, TickRespawnFails, TickCrash, Ticked
<1> QED BY <1>4, <1>5, <1>6

(* Given ClaimedLast, every step keeps the claims. *)
LEMMA ClaimsStep ==
    ASSUME SupervisorTypeOK, Claims, [Next]_vars, ClaimedLast
    PROVE  Claims'
<1>1. Working' => child'[op'.on].stopping
  BY WorkingStays
<1>2. CASE UNCHANGED reaping
  <2>1. ASSUME NEW j \in reaping, ReapPolicy(j) PROVE FALSE
    BY <1>2, <2>1 DEF ReapPolicy
  <2> QED BY <1>1, <1>2, <2>1, HeldStays DEF Claims, Held
<1>3. ASSUME NEW c \in Children, TickCrash(c) PROVE Claims'
  <2>1. PICK i \in ReapIds : reaping' = reaping \cup {[id |-> i, on |-> c, pc |-> "stop"]}
    BY <1>3 DEF TickCrash
  <2> DEFINE new == [id |-> i, on |-> c, pc |-> "stop"]
  <2>2. \A j \in reaping : j.on # c
    BY <1>3 DEF TickCrash, Ticked, Claims, Held
  <2>3. child[c] \in Records /\ child' = [child EXCEPT ![c] = [child[c] EXCEPT !.stopping = TRUE]]
    BY <1>3, StartIs DEF TickCrash
  <2>4. child'[c].stopping /\ child'[c].state = child[c].state
    BY <2>3 DEF Records, SupervisorTypeOK
  <2>5. op.pc \notin {"idle", "queued"} => op.on # c
    BY <1>3 DEF ClaimedLast, Claims, Working, TickCrash, Ticked
  <2>6. Held(new)'
    BY <1>3, <2>4, <2>5 DEF Held, TickCrash, Ticked
  <2>7. \A j \in reaping : Held(j)'
    <3>1. \A j \in reaping : ~ReapPolicy(j)
      BY <1>3 DEF TickCrash, ReapPolicy
    <3> QED BY <3>1, HeldStays DEF Held
  <2> QED BY <1>1, <2>1, <2>2, <2>6, <2>7 DEF Claims
<1>4. ASSUME NEW j \in reaping, ReapStop(j) PROVE Claims'
  <2> DEFINE after == [j EXCEPT !.pc = "policy"]
  <2>1. reaping' = (reaping \ {j}) \cup {after} /\ after.on = j.on
        /\ UNCHANGED <<child, op, main>>
    BY <1>4 DEF ReapStop, SupervisorTypeOK
  <2> HIDE DEF after
  <2> QED BY <1>1, <2>1 DEF Claims, Held, Working
<1>5. ASSUME NEW j \in reaping, ReapPolicy(j) PROVE Claims'
  <2>1. reaping' = reaping \ {j}
    BY <1>5 DEF ReapPolicy
  <2>2. ASSUME NEW i \in reaping', NEW h \in reaping, h.on = i.on PROVE ~ReapPolicy(h)
    <3>1. h = i /\ h # j
      BY <2>1, <2>2 DEF Claims
    <3>2. h \in reaping'
      BY <2>1, <3>1
    <3> QED BY <3>2 DEF ReapPolicy
  <2> QED BY <1>1, <2>1, <2>2, HeldStays DEF Claims, Held
<1> QED BY <1>2, <1>3, <1>4, <1>5, ReapingBy

(* Where the shutdown is with a child changes in the shutdown only ... *)
LEMMA HaltBy ==
    ASSUME [Next]_vars
    PROVE  UNCHANGED halt \/ MarkAll \/ \E c \in Children : HaltOne(c) \/ KillRest(c)
BY DEF Next, vars, TickSteps, PoolSteps, StartSteps, TurnSteps, OpSteps, ShutdownSteps,
       TickRespawn, TickRespawnFails, TickCrash, TickCheck, Ready, ReapStop, ReapPolicy, CheckBegins,
       CheckEnds, Reclaim, ReclaimAnswered, HelloAdmitted, HelloAccepted, OnHello, OnClose, Exits,
       TurnStarts, TurnEnds, Submit, OpClaim, OpBegin, OpDrain, OpRestore, OpStop, OpStopFails,
       OpRetire, OpResume, OpFinish, OpFinally, OpRelease, ShutdownAsked, NextPhase, Close

(* ... for all at its mark, and then for one at a time. *)
LEMMA HaltIs ==
    ASSUME SupervisorTypeOK, [Next]_vars, NEW c \in Children
    PROVE  \/ halt'[c] = halt[c]
           \/ MarkAll
           \/ HaltOne(c) /\ halt[c] \notin {"none", "killed"} /\ halt'[c] # "killed"
           \/ KillRest(c) /\ halt'[c] = "killed"
<1>a. halt \in [Children -> {"none", "begin", "stop", "retire", "done", "killed"} \cup DrainPcs]
  BY DEF SupervisorTypeOK
<1>1. ASSUME NEW d \in Children, HaltOne(d), d # c PROVE halt'[c] = halt[c]
  BY <1>a, <1>1 DEF HaltOne, HaltBegin, HaltDrain, HaltStop, HaltStopFails, HaltRetire
<1>2. ASSUME NEW d \in Children, KillRest(d), d # c PROVE halt'[c] = halt[c]
  BY <1>a, <1>2 DEF KillRest
<1>3. ASSUME HaltOne(c) PROVE halt[c] \notin {"none", "killed"} /\ halt'[c] # "killed"
  <2>1. CASE HaltDrain(c)
    BY <1>a, <2>1 DEF HaltDrain, DrainPcs
  <2>2. CASE HaltBegin(c) \/ HaltStop(c) \/ HaltStopFails(c) \/ HaltRetire(c)
    BY <1>a, <2>2 DEF HaltBegin, HaltStop, HaltStopFails, HaltRetire
  <2> QED BY <1>3, <2>1, <2>2 DEF HaltOne
<1>4. ASSUME KillRest(c) PROVE halt'[c] = "killed"
  BY <1>a, <1>4 DEF KillRest
<1> QED BY <1>1, <1>2, <1>3, <1>4, HaltBy

(* Where the shutdown is with each child.                                   *)
Halted ==
    /\ main \in {"ticking", "stopping"} => \A c \in Children : halt[c] = "none"
    /\ main = "closed" => \A c \in Children : halt[c] = "killed"

(* Every step keeps it. *)
LEMMA HaltedStep ==
    ASSUME SupervisorTypeOK, Halted, [Next]_vars
    PROVE  Halted'
<1>1. ASSUME main' \in {"ticking", "stopping"}, NEW c \in Children PROVE halt'[c] = "none"
  <2>1. main \in {"ticking", "stopping"} /\ ~MarkAll
    BY <1>1, MainIs DEF MarkAll, SupervisorTypeOK
  <2>2. halt[c] = "none" /\ ~KillRest(c)
    BY <2>1 DEF Halted, KillRest
  <2> QED BY <2>1, <2>2, HaltIs
<1>2. ASSUME main' = "closed", NEW c \in Children PROVE halt'[c] = "killed"
  <2>1. CASE main = "closed"
    <3>1. halt[c] = "killed" /\ ~MarkAll
      BY <2>1 DEF Halted, MarkAll
    <3> QED BY <3>1, HaltIs
  <2>2. CASE main # "closed"
    <3>1. Close
      BY <1>2, <2>2, MainBy DEF ShutdownAsked, MarkAll, NextPhase
    <3> QED BY <3>1 DEF Close
  <2> QED BY <2>1, <2>2
<1> QED BY <1>1, <1>2 DEF Halted

(* A process comes of a respawn only. *)
LEMMA ProcsBy ==
    ASSUME SupervisorTypeOK, [Next]_vars
    PROVE  \/ procs' \subseteq procs
           \/ \E c \in Children : /\ Respawns(c) /\ child'[c].start = child[c].start + 1
                                  /\ procs' \subseteq procs \cup {<<c, child[c].start + 1>>}
<1>1. ASSUME NEW c \in Children, Respawns(c) PROVE
           \/ procs' \subseteq procs
           \/ /\ child'[c].start = child[c].start + 1
              /\ procs' \subseteq procs \cup {<<c, child[c].start + 1>>}
  BY <1>1, RespawnTokens
<1>2. OpFinish /\ StartsAgain => op.on \in Children /\ Respawns(op.on)
  BY OpIs DEF OpSteps, Respawns
<1>3. \/ procs' \subseteq procs
      \/ \E c \in Children : TickRespawn(c)
      \/ OpFinish /\ StartsAgain
  BY DEF Next, vars, TickSteps, PoolSteps, StartSteps, TurnSteps, OpSteps, ShutdownSteps, HaltOne,
         TickRespawnFails, TickCrash, TickCheck, Ready, ReapStop, ReapPolicy, CheckBegins,
         CheckEnds, Reclaim, ReclaimAnswered, HelloAdmitted, HelloAccepted, OnHello, OnClose, Exits,
         TurnStarts, TurnEnds, Submit, OpClaim, OpBegin, OpDrain, OpRestore, OpStop, OpStopFails,
         OpRetire, OpResume, OpFinish, OpFinally, OpRelease, ShutdownAsked, MarkAll, NextPhase, Close,
         HaltBegin, HaltDrain, HaltStop, HaltStopFails, HaltRetire, KillRest
<1> QED BY <1>1, <1>2, <1>3 DEF Respawns

(* A child that is down stays down while its start is the same. *)
LEMMA DownStays ==
    ASSUME SupervisorTypeOK, [Next]_vars, NEW c \in Children, ~Alive(c),
           child'[c].start = child[c].start
    PROVE  ~Alive(c)'
<1>1. <<c, child[c].start>> \notin procs
  BY DEF Alive, Current
<1>2. ASSUME NEW d \in Children, child'[d].start = child[d].start + 1,
             procs' \subseteq procs \cup {<<d, child[d].start + 1>>}
      PROVE  <<c, child[c].start>> \notin procs'
  <2>1. child[d].start + 1 # child[d].start
    BY StartIs
  <2>2. d # c
    BY <1>2, <2>1
  <2> QED BY <1>1, <1>2, <2>2
<1>3. <<c, child[c].start>> \notin procs'
  BY <1>1, <1>2, ProcsBy
<1> QED BY <1>3 DEF Alive, Current

(* What no process runs of.                                                 *)
Dead ==
    /\ \A s \in procs : s = Current(s[1])
    /\ \A c \in Children : child[c].state = "restarting" \/ halt[c] = "killed" => ~Alive(c)
    /\ \A j \in reaping : j.pc = "policy" => ~Alive(j.on)
    /\ op.pc \in {"retire", "resume", "finish"} => ~Alive(op.on)

(* A drain is of a running child, and will be undone.                       *)
DrainTold == op.pc \in DrainPcs => op.was \in Healthy /\ op.drained

(* What an operation remembers of its child.                                *)
OpTold ==
    /\ Working /\ op.kind = "start" => op.was \notin Healthy
    /\ op.pc \in {"claimed", "stop"} /\ ~shutting_down => child[op.on].state = op.was

(* A child that is started again has no process. *)
LEMMA DownRespawns ==
    ASSUME SupervisorTypeOK, Dead, NEW c \in Children, Respawns(c)
    PROVE  ~Alive(c)
BY DEF Dead, Respawns, TickRespawn, TickRespawnFails, OpFinish

(* Nobody starts a child another works on.                                  *)
LEMMA ClaimedStart ==
    ASSUME SupervisorTypeOK, Claims, [Next]_vars
    PROVE  /\ \A j \in reaping : child'[j.on].start = child[j.on].start
           /\ Working /\ op.pc # "finish" => child'[op.on].start = child[op.on].start
<1>1. ASSUME NEW j \in reaping PROVE child'[j.on].start = child[j.on].start
  <2>1. j.on \in Children /\ child[j.on].stopping /\ ~(OpFinish /\ op.on = j.on)
    BY DEF SupervisorTypeOK, Claims, Held, OpFinish
  <2> QED BY <2>1, StartBy DEF Respawns, TickRespawn, TickRespawnFails, Ticked
<1>2. ASSUME Working, op.pc # "finish" PROVE child'[op.on].start = child[op.on].start
  <2>1. op.on \in Children /\ child[op.on].stopping
    BY <1>2 DEF SupervisorTypeOK, Operations, Claims, Working
  <2> QED BY <1>2, <2>1, StartBy DEF Respawns, TickRespawn, TickRespawnFails, Ticked, OpFinish
<1> QED BY <1>1, <1>2

(* Every step keeps the processes so. *)
LEMMA DeadStep ==
    ASSUME SupervisorTypeOK, Claims, Halted, Dead, DrainTold, [Next]_vars
    PROVE  Dead'
<1>0. \A s \in procs : s[1] \in Children /\ s = <<s[1], child[s[1]].start>>
  BY DEF SupervisorTypeOK, Starts, Dead, Current
<1>1. ASSUME NEW s \in procs' PROVE (s = Current(s[1]))'
  <2>1. CASE s \in procs
    <3>1. s = <<s[1], child[s[1]].start>> /\ s[1] \in Children /\ Alive(s[1])
      BY <1>0, <2>1 DEF Alive, Current
    <3>2. child'[s[1]].start = child[s[1]].start
      BY <3>1, StartBy, DownRespawns
    <3> QED BY <3>1, <3>2 DEF Current
  <2>2. CASE s \notin procs
    <3>1. PICK c \in Children : child'[c].start = child[c].start + 1 /\ s = <<c, child[c].start + 1>>
      BY <2>2, ProcsBy
    <3> QED BY <3>1 DEF Current
  <2> QED BY <2>1, <2>2
<1>2. ASSUME NEW c \in Children, child'[c].state = "restarting" PROVE ~Alive(c)'
  <2>1. Touched(c)
    BY ChildIs
  <2>2. CASE child'[c].start # child[c].start
    <3>1. TickRespawnFails(c) /\ child'[c].start = child[c].start + 1
      <4>1. TickedOn(c) \/ OperatedOn(c)
        BY <2>1, <2>2 DEF Touched, Stays, CheckedOn, SaidBy, ShutDown, Becomes
      <4>2. ~OperatedOn(c)
        BY <1>2, <2>2 DEF OperatedOn, Becomes
      <4>3. TickRespawnFails(c)
        BY <1>2, <2>2, <4>1, <4>2 DEF TickedOn, Becomes
      <4> QED BY <2>2, <4>3, StartBy
    <3>2. UNCHANGED procs /\ child[c].start + 1 # child[c].start
      BY <3>1, StartIs DEF TickRespawnFails
    <3>3. <<c, child[c].start + 1>> \notin procs
      <4>1. ASSUME <<c, child[c].start + 1>> \in procs PROVE FALSE
        <5>1. <<c, child[c].start + 1>> = <<c, child[c].start>>
          BY <1>0, <4>1
        <5> QED BY <3>2, <5>1
      <4> QED BY <4>1
    <3> QED BY <3>1, <3>2, <3>3 DEF Alive, Current
  <2>3. CASE child'[c].start = child[c].start
    <3>1. ~Alive(c)
      <4>1. CASE child[c].state = "restarting"
        BY <4>1 DEF Dead
      <4>2. CASE child[c].state # "restarting"
        <5>1. ~OperatedOn(c)
          <6>1. OpRestore => op.was # "restarting"
            BY DEF DrainTold, OpRestore, DrainPcs, Healthy
          <6> QED BY <1>2, <2>3, <4>2, <6>1, StartIs DEF OperatedOn, Becomes
        <5>2. \E j \in reaping : j.on = c /\ ReapPolicy(j)
          BY <1>2, <2>1, <4>2, <5>1
             DEF Touched, Stays, TickedOn, CheckedOn, SaidBy, ShutDown, Becomes,
                 TickRespawn, TickRespawnFails
        <5> QED BY <5>2 DEF ReapPolicy, Dead
      <4> QED BY <4>1, <4>2
    <3> QED BY <2>3, <3>1, DownStays
  <2> QED BY <2>2, <2>3
<1>3. ASSUME NEW c \in Children, halt'[c] = "killed" PROVE ~Alive(c)'
  <2>1. CASE halt[c] = "killed"
    <3>1. main # "ticking" /\ ~Alive(c)
      BY <2>1 DEF Halted, Dead
    <3> QED BY <3>1, StartBy, DownStays
  <2>2. CASE halt[c] # "killed"
    <3>1. KillRest(c)
      <4>1. ~MarkAll
        BY <1>3 DEF MarkAll
      <4> QED BY <1>3, <2>2, <4>1, HaltIs
    <3>2. procs' = procs \ {<<c, child[c].start>>} /\ main # "ticking"
      BY <3>1 DEF KillRest, Current
    <3>3. child'[c].start = child[c].start
      BY <3>2, StartBy
    <3> QED BY <3>2, <3>3 DEF Alive, Current
  <2> QED BY <2>1, <2>2
<1>4. ASSUME NEW j \in reaping', j.pc = "policy" PROVE ~Alive(j.on)'
  <2>1. CASE j \in reaping
    <3>1. ~Alive(j.on) /\ j.on \in Children
      BY <1>4, <2>1 DEF Dead, SupervisorTypeOK
    <3>2. child'[j.on].start = child[j.on].start
      BY <2>1, ClaimedStart
    <3> QED BY <3>1, <3>2, DownStays
  <2>2. CASE j \notin reaping
    <3>1. PICK i \in reaping : ReapStop(i)
      <4>1. ASSUME NEW c \in Children, TickCrash(c) PROVE FALSE
        BY <1>4, <2>2, <4>1 DEF TickCrash
      <4>2. ASSUME NEW i \in reaping, ReapPolicy(i) PROVE FALSE
        BY <1>4, <2>2, <4>2 DEF ReapPolicy
      <4> QED BY <1>4, <2>2, <4>1, <4>2, ReapingBy
    <3>2. procs' = procs \ {<<i.on, child[i.on].start>>} /\ UNCHANGED child
      BY <3>1 DEF ReapStop, Current
    <3>3. j.on = i.on
      BY <1>4, <2>2, <3>1 DEF ReapStop, SupervisorTypeOK
    <3> QED BY <3>2, <3>3 DEF Alive, Current
  <2> QED BY <2>1, <2>2
<1>5. ASSUME op'.pc \in {"retire", "resume", "finish"} PROVE ~Alive(op.on)'
  <2>1. CASE OpSteps
    <3>1. OpMoves /\ op.on \in Children
      BY <2>1, OpIs
    <3>2. CASE OpStop /\ op'.on = op.on
      <4>1. procs' = procs \ {<<op.on, child[op.on].start>>} /\ UNCHANGED child
        BY <3>2 DEF OpStop, Current
      <4> QED BY <3>2, <4>1 DEF Alive, Current
    <3>3. CASE op.pc \in {"retire", "resume"} /\ op'.on = op.on
      <4>1. ~Alive(op.on) /\ child'[op.on].start = child[op.on].start
        BY <3>3, ClaimedStart DEF Dead, Working
      <4>2. ~Alive(op.on) => \A c \in Children : c = op.on => ~Alive(c)'
        BY <4>1, DownStays
      <4>3. <<op.on, child'[op.on].start>> \notin procs'
        BY <3>1, <4>1, <4>2 DEF Alive, Current
      <4> QED BY <3>3, <4>3 DEF Alive, Current
    <3> QED BY <1>5, <3>1, <3>2, <3>3 DEF OpMoves, OpGoes, DrainPcs
  <2>2. CASE UNCHANGED op
    <3>1. op'.on = op.on /\ op.on \in Children /\ ~Alive(op.on)
      BY <1>5, <2>2 DEF Dead, SupervisorTypeOK, Operations
    <3>2. child'[op.on].start = child[op.on].start
      BY <1>5, <2>2, <3>1, StartBy, ClaimedStart, OpDiffers DEF Respawns, OpSteps, Working,
         TickRespawn, TickRespawnFails, Ticked, Claims
    <3>3. \A c \in Children : c = op.on => ~Alive(c)'
      BY <3>1, <3>2, DownStays
    <3>4. <<op.on, child'[op.on].start>> \notin procs'
      BY <3>1, <3>3 DEF Alive, Current
    <3> QED BY <3>1, <3>4 DEF Alive, Current
  <2> QED BY <1>5, <2>1, <2>2, OpBy, SubmitTouches
<1> QED BY <1>1, <1>2, <1>3, <1>4, <1>5 DEF Dead

(* Every step of a drain keeps what it was begun for. *)
LEMMA DrainToldStep ==
    ASSUME SupervisorTypeOK, DrainTold, [Next]_vars
    PROVE  DrainTold'
<1>1. CASE OpSteps
  <2>1. OpMoves
    BY <1>1, OpIs
  <2> QED BY <2>1 DEF OpMoves, OpGoes, DrainTold, OpDrain, Drained, DrainPcs
<1>2. CASE UNCHANGED op
  BY <1>2 DEF DrainTold
<1> QED BY <1>1, <1>2, OpBy, SubmitTouches DEF DrainTold, DrainPcs

(* Every step keeps what the operation remembers. *)
LEMMA OpToldStep ==
    ASSUME SupervisorTypeOK, Claims, DrainTold, OpTold, [Next]_vars
    PROVE  OpTold'
<1>1. CASE OpSteps
  <2>1. OpMoves /\ op.on \in Children
    BY <1>1, OpIs
  <2>3. Working' /\ op'.kind = "start" => op'.was \notin Healthy
    BY <2>1 DEF OpMoves, OpGoes, OpTold, DrainTold, OpDrain, Working, RefusedNow, Healthy, DrainPcs
  <2>4. ASSUME op'.pc \in {"claimed", "stop"}, ~shutting_down' PROVE child'[op'.on].state = op'.was
    <3>1. Stays(op.on) \/ OperatedOn(op.on)
      BY <1>1, <2>1, OpTouches
    <3>2. \/ OpClaim /\ op'.on = op.on /\ op'.was = child[op.on].state
          \/ OpBegin /\ op'.on = op.on /\ op'.was = op.was /\ op'.pc = "stop" /\ op.pc = "claimed"
      BY <2>1, <2>4 DEF OpMoves, OpGoes, OpDrain, DrainPcs
    <3>3. child'[op.on].state = child[op.on].state
      BY <3>1, <3>2 DEF Stays, OperatedOn, Becomes, OpClaim, OpBegin, OpRestore, OpRelease, OpFinish
    <3>4. ~shutting_down
      BY <2>4, MainIs
    <3> QED BY <3>2, <3>3, <3>4 DEF OpTold
  <2> QED BY <2>3, <2>4 DEF OpTold
<1>2. CASE UNCHANGED op
  <2>1. ASSUME op.pc \in {"claimed", "stop"}, ~shutting_down' PROVE child'[op.on].state = op.was
    <3>1. op.on \in Children /\ child[op.on].stopping /\ ~shutting_down /\ \A j \in reaping : j.on # op.on
      BY <2>1, MainIs DEF SupervisorTypeOK, Operations, Claims, Working, Held
    <3>2. Stays(op.on) \/ TickedOn(op.on) \/ CheckedOn(op.on) \/ SaidBy(op.on) \/ ShutDown(op.on)
      BY <1>2, <3>1, OpTouches
    <3>3. child'[op.on].state = child[op.on].state
      BY <2>1, <3>1, <3>2
         DEF Stays, TickedOn, CheckedOn, SaidBy, ShutDown, Becomes, KillRest, shutting_down,
             TickRespawn, TickRespawnFails, TickCrash, Ticked
    <3> QED BY <2>1, <3>1, <3>3 DEF OpTold
  <2> QED BY <1>2, <2>1 DEF OpTold, Working
<1> QED BY <1>1, <1>2, OpBy, SubmitTouches DEF OpTold, Working, DrainPcs

(* A token somebody may still use. *)
Unused == {"unused", "admitted"}

(* What a token says of its start.                                          *)
TokensTold ==
    /\ \A s \in Starts :
          /\ s[2] > child[s[1]].start => token[s] = "none"
          /\ s[2] < child[s[1]].start => token[s] \notin Unused
    /\ \A c \in Children :
          /\ child[c].conn # 0 => child[c].conn = child[c].start /\ token[Current(c)] = "linked"
          /\ token[Current(c)] \in Unused /\ ~shutting_down => child[c].state = "starting"
    /\ op.pc \in {"resume", "finish"} => token[Current(op.on)] \notin Unused

(* A start that changes has its tokens renewed. *)
LEMMA RenewedBy ==
    ASSUME SupervisorTypeOK, [Next]_vars, NEW c \in Children, child'[c].start # child[c].start
    PROVE  Renewed(c, token') /\ child'[c].start = child[c].start + 1
BY StartBy, RespawnTokens

(* A retired token is not a token somebody may still use.                   *)
LEMMA RetiredUsed ==
    ASSUME SupervisorTypeOK, NEW c \in Children, token' = Retired(c, token),
           child'[c].start = child[c].start
    PROVE  (token[Current(c)] \notin Unused)'
<1>1. token'[<<c, child[c].start>>] \notin {"unused", "admitted"}
  BY RetiredIs DEF Current
<1> QED BY <1>1 DEF Unused, Current

(* A token somebody may use is one of a start the child still has, unused   *)
(* before.                                                                  *)
LEMMA UnusedStays ==
    ASSUME SupervisorTypeOK, [Next]_vars, NEW s \in Starts,
           child'[s[1]].start = child[s[1]].start, token'[s] \in Unused
    PROVE  token[s] \in Unused
BY TokenIs DEF TokenGoes, Unused

(* Tokens of later starts are not minted, those of earlier ones are used up. *)
LEMMA TokensToldStarts ==
    ASSUME SupervisorTypeOK, TokensTold, [Next]_vars, NEW s \in Starts
    PROVE  /\ s[2] > child'[s[1]].start => token'[s] = "none"
           /\ s[2] < child'[s[1]].start => token'[s] \notin Unused
<1>a. s[1] \in Children /\ s[2] \in Nat /\ child[s[1]].start \in Nat /\ s = <<s[1], s[2]>>
  BY StartIs, ConstantsAre DEF Starts
<1>1. CASE child'[s[1]].start = child[s[1]].start
  <2>1. ASSUME s[2] > child[s[1]].start PROVE token'[s] = "none"
    <3>1. token[s] = "none" /\ s # Current(s[1])
      BY <1>a, <2>1 DEF TokensTold, Current
    <3> QED BY <1>1, <3>1, TokenIs DEF TokenGoes
  <2>2. ASSUME s[2] < child[s[1]].start PROVE token'[s] \notin Unused
    BY <1>1, <2>2, UnusedStays DEF TokensTold
  <2> QED BY <1>1, <2>1, <2>2
<1>2. CASE child'[s[1]].start # child[s[1]].start
  <2> DEFINE n == child[s[1]].start + 1
  <2>1. child'[s[1]].start = n /\ Renewed(s[1], token')
    BY <1>a, <1>2, RenewedBy
  <2>2. s[2] # n => token'[s] = Retired(s[1], token)[s]
    <3>1. s[2] # n => s # <<s[1], n>>
      BY <1>a
    <3> QED BY <2>1, <3>1 DEF Renewed
  <2>3. ASSUME s[2] > n PROVE token'[s] = "none"
    <3>1. s # Current(s[1]) /\ token[s] = "none" /\ s[2] # n
      BY <1>a, <2>3 DEF Current, TokensTold
    <3> QED BY <1>a, <2>2, <3>1, RetiredIs
  <2>4. ASSUME s[2] < n PROVE token'[s] \notin Unused
    <3>1. CASE s = Current(s[1])
      BY <1>a, <2>2, <2>4, <3>1, RetiredIs DEF Unused
    <3>2. CASE s # Current(s[1])
      <4>1. s[2] < child[s[1]].start /\ s[2] # n
        BY <1>a, <2>4, <3>2 DEF Current
      <4> QED BY <1>a, <2>2, <3>2, <4>1, RetiredIs DEF TokensTold
    <3> QED BY <3>1, <3>2
  <2> QED BY <2>1, <2>3, <2>4
<1> QED BY <1>1, <1>2

(* A child's connection is its start's, and that start's token is linked. *)
LEMMA TokensToldConn ==
    ASSUME SupervisorTypeOK, TokensTold, [Next]_vars, NEW c \in Children, child'[c].conn # 0
    PROVE  child'[c].conn = child'[c].start /\ token'[<<c, child'[c].start>>] = "linked"
<1>a. PICK s \in Starts : s = <<c, child[c].start>> /\ s[1] = c /\ s[2] = child[c].start
  BY StartIs DEF Current
<1>1. child'[c].start = child[c].start
  BY StartBy
<1>2. Touched(c)
  BY ChildIs
<1>3. ASSUME OnHello(c, child[c].start) PROVE token'[s] = "linked"
  BY <1>a, <1>3 DEF OnHello, SupervisorTypeOK
<1>4. ASSUME child'[c].conn = child[c].conn PROVE child'[c].conn = child[c].start /\ token'[s] = "linked"
  <2>1. child[c].conn = child[c].start /\ token[s] = "linked"
    BY <1>4, <1>a DEF TokensTold, Current
  <2>2. TokenGoes(s)
    BY <1>a, <1>1, TokenIs
  <2>3. ~Close
    BY StartIs DEF Close, Records
  <2>4. ~OnClose(s[1], s[2])
    <3>1. ~OnClose(c, child[c].start)
      BY <2>1, StartIs DEF OnClose, SupervisorTypeOK, Records
    <3> QED BY <1>a, <3>1
  <2>5. token'[s] = "linked"
    BY <2>1, <2>2, <2>3, <2>4 DEF TokenGoes, Unused
  <2> QED BY <1>4, <2>1, <2>5
<1>5. \/ child'[c].conn = child[c].conn
      \/ OnHello(c, child[c].start) /\ child'[c].conn = child[c].start
  <2>1. TickedOn(c) => child'[c].conn \in {0, child[c].conn}
    BY DEF TickedOn, Becomes
  <2>2. OperatedOn(c) => child'[c].conn \in {0, child[c].conn}
    BY DEF OperatedOn, Becomes
  <2>3. Stays(c) \/ CheckedOn(c) \/ ShutDown(c) => child'[c].conn \in {0, child[c].conn}
    BY DEF Stays, CheckedOn, ShutDown, Becomes
  <2>4. SaidBy(c) => \/ child'[c].conn \in {0, child[c].conn}
                     \/ OnHello(c, child[c].start) /\ child'[c].conn = child[c].start
    BY DEF SaidBy, Becomes
  <2> QED BY <1>2, <2>1, <2>2, <2>3, <2>4 DEF Touched
<1>6. child'[c].conn = child[c].start /\ token'[s] = "linked"
  BY <1>3, <1>4, <1>5
<1> QED BY <1>a, <1>1, <1>6

(* A start whose token may still be used is starting. *)
LEMMA TokensToldStarting ==
    ASSUME SupervisorTypeOK, Dead, TokensTold, [Next]_vars, NEW c \in Children,
           token'[<<c, child'[c].start>>] \in Unused, ~shutting_down'
    PROVE  child'[c].state = "starting"
<1>a. ~shutting_down /\ Current(c) \in Starts /\ Current(c)[1] = c
  BY MainIs, StartIs
<1>2. Touched(c)
  BY ChildIs
<1>3. CASE child'[c].start = child[c].start
  <2>1. token[Current(c)] \in Unused
    BY <1>a, <1>3, UnusedStays DEF Current
  <2>2. child[c].state = "starting" /\ child[c].conn = 0
    BY <1>a, <2>1 DEF TokensTold, Unused
  <2>3. ~Respawns(c)
    <3>1. ASSUME Respawns(c) PROVE FALSE
      <4>1. token' = Retired(c, token)
        BY <1>3, <3>1, RespawnTokens, StartIs
      <4> QED BY <1>3, <4>1, RetiredUsed DEF Current
    <3> QED BY <3>1
  <2>4. \A j \in reaping : j.on = c => ~ReapPolicy(j)
    <3>1. ASSUME NEW j \in reaping, j.on = c, ReapPolicy(j) PROVE FALSE
      <4>1. token' = Retired(c, token)
        BY <3>1 DEF ReapPolicy
      <4> QED BY <1>3, <4>1, RetiredUsed DEF Current
    <3> QED BY <3>1
  <2>5. ~OpFinish \/ op.on # c
    <3>1. OpFinish /\ op.on = c => token[Current(c)] \notin Unused
      BY DEF TokensTold, OpFinish
    <3> QED BY <2>1, <3>1
  <2>6. ~KillRest(c) /\ ~MarkAll /\ ~Close
    BY <1>a DEF shutting_down, KillRest, MarkAll, Close
  <2> QED BY <1>2, <2>2, <2>3, <2>4, <2>5, <2>6
          DEF Touched, Stays, TickedOn, CheckedOn, SaidBy, OperatedOn, ShutDown, Becomes, Respawns
<1>4. CASE child'[c].start # child[c].start
  <2>1. Respawns(c) /\ Renewed(c, token') /\ child'[c].start = child[c].start + 1
    BY <1>4, StartBy, RenewedBy
  <2>2. ~TickRespawnFails(c) \/ child'[c].state = "starting"
    <3>1. ASSUME TickRespawnFails(c) PROVE token'[<<c, child'[c].start>>] = "dead"
      <4>0. child[c] \in Records /\ child[c].crashes \in Nat /\ child \in [Children -> Records]
        BY StartIs DEF Records, SupervisorTypeOK
      <4>1. PICK f \in FailedSpawns(c, child[c].crashes) : ApplyPolicy(c, f.record) /\ token' = f.tokens
        BY <3>1 DEF TickRespawnFails
      <4>2. PICK kept \in 0..f.record.crashes : child' = [child EXCEPT ![c] = AfterCrash(f.record, kept)]
        BY <4>1 DEF ApplyPolicy
      <4>3. child'[c].start = f.record.start
        BY <4>0, <4>2, FailedIs, PolicyIs
      <4>4. <<c, child'[c].start>> \in Starts
        BY TypesStep DEF SupervisorTypeOK, Records, Starts
      <4> QED BY <4>0, <4>1, <4>3, <4>4, <1>4, FailedIs
    <3> QED BY <3>1 DEF Unused
  <2>3. TickRespawn(c) \/ OpFinish => child'[c].state = "starting"
    <3>1. ASSUME TickRespawn(c) \/ OpFinish PROVE ~TickRespawnFails(c) \/ child'[c].state = "starting"
      BY <2>2
    <3>2. TickedOn(c) \/ OperatedOn(c)
      BY <1>2, <1>4 DEF Touched, Stays, CheckedOn, SaidBy, ShutDown, Becomes
    <3> QED BY <1>4, <3>1, <3>2 DEF TickedOn, OperatedOn, Becomes
  <2> QED BY <2>1, <2>2, <2>3 DEF Respawns
<1> QED BY <1>3, <1>4

(* Once an operation retired its child's token it stays so. *)
LEMMA TokensToldOp ==
    ASSUME SupervisorTypeOK, Claims, TokensTold, [Next]_vars, op'.pc \in {"resume", "finish"}
    PROVE  (token[Current(op.on)] \notin Unused)'
<1>1. CASE op.pc = "resume" /\ op'.on = op.on /\ op.on \in Children
  <2>1. child'[op.on].start = child[op.on].start /\ Current(op.on) \in Starts /\ Current(op.on)[1] = op.on
    BY <1>1, ClaimedStart, StartIs DEF Working
  <2>2. token[Current(op.on)] \notin Unused
    BY <1>1 DEF TokensTold
  <2>3. token'[Current(op.on)] \notin Unused
    BY <2>1, <2>2, UnusedStays
  <2> QED BY <1>1, <2>1, <2>3 DEF Current
<1>2. CASE OpSteps
  <2>1. OpMoves /\ op.on \in Children
    BY <1>2, OpIs
  <2>2. CASE OpRetire /\ op'.on = op.on /\ op.pc = "retire"
    <3>1. token' = Retired(op.on, token) /\ UNCHANGED child
      BY <2>2 DEF OpRetire
    <3>2. \A c \in Children : c = op.on => token'[<<c, child'[c].start>>] \notin Unused
      BY <3>1, RetiredUsed DEF Current
    <3> QED BY <2>1, <2>2, <3>2 DEF Current
  <2> QED BY <1>1, <2>1, <2>2 DEF OpMoves, OpGoes, DrainPcs
<1>3. CASE UNCHANGED op
  <2>1. op.on \in Children /\ op.pc \in {"resume", "finish"} /\ op'.on = op.on
    BY <1>3 DEF SupervisorTypeOK, Operations
  <2>2. child'[op.on].start = child[op.on].start
    <3>1. child[op.on].stopping /\ ~OpFinish
      BY <1>3, <2>1, OpDiffers DEF Claims, Working, OpSteps
    <3> QED BY <2>1, <3>1, StartBy DEF Respawns, TickRespawn, TickRespawnFails, Ticked
  <2>3. Current(op.on) \in Starts /\ Current(op.on)[1] = op.on /\ token[Current(op.on)] \notin Unused
    BY <2>1, StartIs DEF TokensTold
  <2>4. token'[Current(op.on)] \notin Unused
    BY <2>2, <2>3, UnusedStays
  <2> QED BY <2>1, <2>2, <2>4 DEF Current
<1> QED BY <1>2, <1>3, OpBy, SubmitTouches

(* Every step keeps what the tokens say. *)
LEMMA TokensToldStep ==
    ASSUME SupervisorTypeOK, Claims, Dead, TokensTold, [Next]_vars
    PROVE  TokensTold'
<1>1. \A c \in Children : child'[c].conn # 0 =>
          child'[c].conn = child'[c].start /\ token'[<<c, child'[c].start>>] = "linked"
  BY TokensToldConn
<1>2. \A c \in Children : token'[<<c, child'[c].start>>] \in Unused /\ ~shutting_down' =>
          child'[c].state = "starting"
  BY TokensToldStarting
<1>3. \A s \in Starts :
          /\ s[2] > child'[s[1]].start => token'[s] = "none"
          /\ s[2] < child'[s[1]].start => token'[s] \notin Unused
  BY TokensToldStarts
<1>4. op'.pc \in {"resume", "finish"} => (token[Current(op.on)] \notin Unused)'
  BY TokensToldOp
<1> QED BY <1>1, <1>2, <1>3, <1>4 DEF TokensTold, Current

(* The states in which a child is shown to players. *)
Serves == {"ready", "degraded", "draining"}

(* What a ticket, and a child that is shown, say of the child's start.      *)
TurnsTold ==
    /\ \A s \in turns : token[s] = "linked"
    /\ \A c \in Children : child[c].state \in Serves =>
          /\ token[Current(c)] \in {"linked", "dead"}
          /\ child[c].conn = 0 => token[Current(c)] = "dead"

(* A turn begins by its ticket only. *)
LEMMA TurnsBy ==
    ASSUME [Next]_vars
    PROVE  \/ turns' \subseteq turns
           \/ \E c \in Children, n \in 1..MaxStarts : TurnStarts(c, n)
BY DEF Next, vars, TickSteps, PoolSteps, StartSteps, TurnSteps, OpSteps, ShutdownSteps, HaltOne,
       TickRespawn, TickRespawnFails, TickCrash, TickCheck, Ready, ReapStop, ReapPolicy, CheckBegins,
       CheckEnds, Reclaim, ReclaimAnswered, HelloAdmitted, HelloAccepted, OnHello, OnClose, Exits,
       TurnEnds, Submit, OpClaim, OpBegin, OpDrain, OpRestore, OpStop, OpStopFails,
       OpRetire, OpResume, OpFinish, OpFinally, OpRelease, ShutdownAsked, MarkAll, NextPhase, Close,
       HaltBegin, HaltDrain, HaltStop, HaltStopFails, HaltRetire, KillRest

(* A linked token dies with its connection, or with the bus. *)
LEMMA LinkedGoes ==
    ASSUME SupervisorTypeOK, TokensTold, [Next]_vars, NEW s \in Starts, token[s] = "linked"
    PROVE  token'[s] = "linked" \/ OnClose(s[1], s[2]) \/ Close
<1>a. s[1] \in Children /\ s = <<s[1], s[2]>> /\ s[2] \in Nat /\ child[s[1]].start \in Nat
  BY StartIs, ConstantsAre DEF Starts
<1>1. CASE child'[s[1]].start = child[s[1]].start
  BY <1>1, TokenIs DEF TokenGoes
<1>2. CASE child'[s[1]].start # child[s[1]].start
  <2>1. s # <<s[1], child[s[1]].start + 1>>
    <3>1. ~(s[2] > child[s[1]].start)
      BY DEF TokensTold
    <3> QED BY <1>a, <3>1
  <2>2. token'[s] = Retired(s[1], token)[s]
    BY <1>a, <1>2, <2>1, RenewedBy DEF Renewed
  <2>3. token'[s] = "linked"
    BY <1>a, <2>2, RetiredIs
  <2> QED BY <2>3
<1> QED BY <1>1, <1>2

(* A ticket held is a linked worker's. *)
LEMMA TicketLinked ==
    ASSUME SupervisorTypeOK, TokensTold, TurnsTold, [Next]_vars, NEW s \in turns'
    PROVE  token'[s] = "linked"
<1>1. CASE s \in turns
  <2>1. s \in Starts /\ token[s] = "linked" /\ s = <<s[1], s[2]>>
    BY <1>1 DEF TurnsTold, SupervisorTypeOK, Starts
  <2>2. ~OnClose(s[1], s[2]) /\ ~Close
    BY <2>1 DEF OnClose, Close
  <2> QED BY <2>1, <2>2, LinkedGoes
<1>2. CASE s \notin turns
  BY <1>2, TurnsBy DEF TurnStarts
<1> QED BY <1>1, <1>2

(* A start that changes is not one that is shown.                           *)
LEMMA ShownStart ==
    ASSUME SupervisorTypeOK, [Next]_vars, NEW c \in Children, child'[c].state \in Serves
    PROVE  child'[c].start = child[c].start
<1>1. SUFFICES ASSUME child'[c].start # child[c].start PROVE FALSE
  OBVIOUS
<1>2. TickedOn(c) \/ OperatedOn(c)
  BY <1>1, ChildIs DEF Touched, Stays, CheckedOn, SaidBy, ShutDown, Becomes
<1>3. ~TickedOn(c)
  BY <1>1 DEF TickedOn, Becomes, Serves
<1>4. ~OperatedOn(c)
  BY <1>1 DEF OperatedOn, Becomes, Serves
<1> QED BY <1>2, <1>3, <1>4

(* How a child comes to be shown.                                           *)
LEMMA ShownBy ==
    ASSUME SupervisorTypeOK, [Next]_vars, NEW c \in Children,
           child'[c].state \in Serves, child[c].state \notin Serves
    PROVE  /\ child[c].conn # 0 /\ child'[c].conn = child[c].conn /\ UNCHANGED token
           /\ child'[c].ready = child[c].ready
           /\ CheckedOn(c) \/ (OpBegin /\ op.on = c /\ op.was \in Healthy /\ op.pc = "claimed")
<1>1. Touched(c)
  BY ChildIs
<1>2. ~Stays(c) /\ ~SaidBy(c) /\ ~ShutDown(c) /\ ~TickedOn(c)
  BY DEF Stays, SaidBy, ShutDown, TickedOn, Becomes, TickRespawn, TickRespawnFails, Serves
<1>3. CheckedOn(c) =>
         child[c].conn # 0 /\ child'[c].conn = child[c].conn /\ child'[c].ready = child[c].ready
         /\ UNCHANGED token
  BY DEF CheckedOn, Becomes, CheckEnds
<1>4. OperatedOn(c) =>
         child[c].conn # 0 /\ child'[c].conn = child[c].conn /\ child'[c].ready = child[c].ready
         /\ UNCHANGED token /\ OpBegin /\ op.on = c /\ op.was \in Healthy /\ op.pc = "claimed"
  BY DEF OperatedOn, Becomes, OpBegin, Serves
<1> QED BY <1>1, <1>2, <1>3, <1>4 DEF Touched

(* A child that is shown was linked, and is while it is connected. *)
LEMMA ShownTold ==
    ASSUME SupervisorTypeOK, TokensTold, TurnsTold, [Next]_vars, NEW c \in Children,
           child'[c].state \in Serves
    PROVE  /\ token'[<<c, child'[c].start>>] \in {"linked", "dead"}
           /\ child'[c].conn = 0 => token'[<<c, child'[c].start>>] = "dead"
<1>a. PICK s \in Starts : s = <<c, child[c].start>> /\ s[1] = c /\ s[2] = child[c].start
  BY StartIs DEF Current
<1>1. child'[c].start = child[c].start
  BY ShownStart
<1>2. CASE child[c].state \in Serves
  <2>1. token[s] \in {"linked", "dead"} /\ (child[c].conn = 0 => token[s] = "dead")
    BY <1>a, <1>2 DEF TurnsTold, Current
  <2>2. token'[s] \in {"linked", "dead"} /\ (token[s] = "dead" => token'[s] = "dead")
    BY <1>a, <1>1, <2>1, TokenIs DEF TokenGoes
  <2>3. ASSUME child'[c].conn = 0, child[c].conn # 0 PROVE token'[s] = "dead"
    <3>1. child[c].conn = child[c].start /\ token[s] = "linked"
      BY <1>a, <2>3 DEF TokensTold, Current
    <3>2. Touched(c)
      BY ChildIs
    <3>3. ~TickedOn(c)
      BY <1>2, <2>3 DEF TickedOn, Becomes, Serves
    <3>4. ~OperatedOn(c)
      BY <2>3 DEF OperatedOn, Becomes, Serves
    <3>5. OnClose(c, child[c].start) \/ Close
      <4>1. child[c].start # 0
        BY StartIs
      <4> QED BY <2>3, <3>1, <3>2, <3>3, <3>4, <4>1 DEF Touched, Stays, CheckedOn, SaidBy, ShutDown, Becomes
    <3> QED BY <1>a, <3>1, <3>5 DEF OnClose, Close, SupervisorTypeOK
  <2> QED BY <1>a, <1>1, <2>1, <2>2, <2>3
<1>3. CASE child[c].state \notin Serves
  BY <1>a, <1>1, <1>3, ShownBy DEF TokensTold, Current
<1> QED BY <1>2, <1>3

(* Every step keeps what tickets and states say. *)
LEMMA TurnsToldStep ==
    ASSUME SupervisorTypeOK, TokensTold, TurnsTold, [Next]_vars
    PROVE  TurnsTold'
<1>1. \A s \in turns' : token'[s] = "linked"
  BY TicketLinked
<1>2. \A c \in Children : child'[c].state \in Serves =>
          /\ token'[<<c, child'[c].start>>] \in {"linked", "dead"}
          /\ child'[c].conn = 0 => token'[<<c, child'[c].start>>] = "dead"
  BY ShownTold
<1> QED BY <1>1, <1>2 DEF TurnsTold, Current

----------------------------------------------------------------------------
(* What an operation spares.                                                *)
Spared ==
    ~shutting_down =>
        /\ op.pc = "stop" /\ op.was \in Healthy => child[op.on].conn = 0
        /\ op.pc \in {"await", "close", "ask", "drained"} => op.on \in paused
        /\ op.pc \in {"close", "ask", "drained"} => ~HoldsTicket(op.on)

(* Until the shutdown, a story is paused by the operation on its worker,    *)
(* which will resume it.                                                    *)
PausedTold ==
    ~shutting_down =>
        \A c \in paused \cup closing :
            /\ op.pc \in {"await", "close", "ask", "undo", "drained", "retire", "resume", "finally"}
            /\ op.on = c /\ op.drained

(* Who pauses a story. *)
LEMMA PausedBy ==
    ASSUME [Next]_vars
    PROVE  \/ UNCHANGED paused /\ UNCHANGED closing
           \/ OpDrain \/ OpResume \/ OpFinally
           \/ \E c \in Children : HaltDrain(c)
<1> DEFINE Same == UNCHANGED paused /\ UNCHANGED closing
<1>1. ASSUME NEW c \in Children, TickSteps(c) \/ Ready(c) PROVE Same
  BY <1>1 DEF TickSteps, TickRespawn, TickRespawnFails, TickCrash, TickCheck, Ready
<1>2. ASSUME PoolSteps PROVE Same
  BY <1>2 DEF PoolSteps, ReapStop, ReapPolicy, CheckBegins, CheckEnds
<1>3. ASSUME NEW c, NEW n, StartSteps(c, n) \/ TurnSteps(c, n) PROVE Same
  BY <1>3 DEF StartSteps, TurnSteps, Reclaim, ReclaimAnswered, HelloAdmitted, HelloAccepted, OnHello,
              OnClose, Exits, TurnStarts, TurnEnds
<1>4. ASSUME NEW kind, NEW c, Submit(kind, c) PROVE Same
  BY <1>4 DEF Submit
<1>5. ASSUME OpSteps PROVE Same \/ OpDrain \/ OpResume \/ OpFinally
  BY <1>5 DEF OpSteps, OpClaim, OpBegin, OpRestore, OpStop, OpStopFails, OpRetire, OpFinish, OpRelease
<1>6. ASSUME ShutdownSteps PROVE Same \/ \E c \in Children : HaltDrain(c)
  BY <1>6 DEF ShutdownSteps, HaltOne, ShutdownAsked, MarkAll, NextPhase, Close,
              HaltBegin, HaltStop, HaltStopFails, HaltRetire, KillRest
<1>7. ASSUME UNCHANGED vars PROVE Same
  BY <1>7 DEF vars
<1> QED BY <1>1, <1>2, <1>3, <1>4, <1>5, <1>6, <1>7 DEF Next

(* Before the shutdown only the operations thread pauses a story.           *)
LEMMA PausedStays ==
    ASSUME SupervisorTypeOK, Halted, [Next]_vars, ~shutting_down', ~OpSteps
    PROVE  UNCHANGED paused /\ UNCHANGED closing
<1>1. ~shutting_down
  BY MainIs
<1>2. ASSUME NEW c \in Children PROVE ~HaltDrain(c)
  BY <1>1 DEF Halted, HaltDrain, DrainPcs, shutting_down
<1> QED BY <1>2, PausedBy DEF OpSteps

(* Every step keeps the pauses the operation's own. *)
LEMMA PausedToldStep ==
    ASSUME SupervisorTypeOK, Halted, DrainTold, PausedTold, [Next]_vars
    PROVE  PausedTold'
<1>1. CASE shutting_down'
  BY <1>1 DEF PausedTold
<1>2. CASE OpSteps /\ ~shutting_down'
  <2>0. OpMoves /\ op.on \in Children /\ op.on \in Workers /\ ~shutting_down
    BY <1>2, OpIs, MainIs
  <2>1. ASSUME NEW c \in paused' \cup closing'
        PROVE  /\ op'.pc \in {"await", "close", "ask", "undo", "drained", "retire", "resume", "finally"}
               /\ op'.on = c /\ op'.drained
    <3>1. CASE OpDrain
      <4>1. PICK to \in DrainPcs : DrainStep(op.on, op.pc, to) /\ OpGoes(op.pc, to, op.was, op.drained)
        BY <2>0, <3>1 DEF OpMoves, OpDrain, OpClaim, OpBegin, OpRestore, OpStop, OpStopFails, OpRetire,
           OpResume, OpFinish, OpFinally, OpGoes, DrainPcs
      <4>2. op.drained /\ op'.drained /\ op'.on = op.on /\ op'.pc = to
        BY <3>1, <4>1 DEF DrainTold, OpDrain, OpGoes
      <4>3. c = op.on /\ to # "undrained" /\ to # "pause"
        BY <2>0, <2>1, <4>1 DEF DrainStep, PausedTold
      <4> QED BY <4>2, <4>3 DEF DrainPcs
    <3>2. CASE OpResume \/ OpFinally
      <4>1. (c \in paused \cup closing /\ c # op.on) \/ ~op.drained
        BY <2>1, <3>2 DEF OpResume, OpFinally
      <4>2. c \in paused \cup closing
        BY <2>1, <3>2 DEF OpResume, OpFinally
      <4> QED BY <2>0, <4>1, <4>2 DEF PausedTold
    <3>3. CASE ~OpDrain /\ ~OpResume /\ ~OpFinally
      <4>1. c \in paused \cup closing
        BY <2>0, <2>1, <3>3, PausedBy DEF Halted, HaltDrain, DrainPcs, shutting_down
      <4>2. op.pc \in {"await", "close", "ask", "undo", "drained", "retire", "resume", "finally"}
            /\ op.on = c /\ op.drained
        BY <2>0, <4>1 DEF PausedTold
      <4> QED BY <2>0, <3>3, <4>2 DEF OpMoves, OpGoes, OpStop, OpStopFails, OpRetire
    <3> QED BY <3>1, <3>2, <3>3
  <2> QED BY <2>1 DEF PausedTold
<1>3. CASE UNCHANGED op /\ ~shutting_down'
  <2>1. ~shutting_down /\ UNCHANGED paused /\ UNCHANGED closing
    BY <1>3, MainIs, OpDiffers, PausedStays
  <2> QED BY <1>3, <2>1 DEF PausedTold
<1>4. ASSUME NEW kind \in Kinds, NEW c \in Workers \cap Children, Submit(kind, c) PROVE PausedTold'
  <2>1. paused = {} /\ closing = {}
    <3>1. op.pc = "idle" /\ ~shutting_down
      BY <1>4 DEF Submit
    <3> QED BY <3>1 DEF PausedTold
  <2> QED BY <1>4, <2>1, SubmitTouches DEF PausedTold
<1> QED BY <1>1, <1>2, <1>3, <1>4, OpBy

(* A step of the operations thread spares the turns ... *)
LEMMA SparedOperation ==
    ASSUME SupervisorTypeOK, Spared, OpTold, OpSteps, [Next]_vars, ~shutting_down'
    PROVE  Spared'
<1>0. OpMoves /\ op.on \in Children /\ op.on \in Workers /\ ~shutting_down /\ UNCHANGED turns
  BY OpIs, MainIs, OpLeaves
<1>1. ASSUME op'.pc = "stop", op'.was \in Healthy PROVE child'[op'.on].conn = 0
  <2>1. /\ OpBegin /\ op'.on = op.on /\ op'.was = op.was /\ op.pc = "claimed" /\ ~Drained
    BY <1>0, <1>1 DEF OpMoves, OpGoes, OpDrain, DrainPcs
  <2>2. op.kind # "start" /\ child[op.on].conn = 0
    BY <1>1, <2>1 DEF OpTold, Working, Drained
  <2>3. Stays(op.on) \/ OperatedOn(op.on)
    BY <1>0, OpTouches
  <2>4. ~OperatedOn(op.on)
    BY <1>1, <2>1 DEF OperatedOn, OpClaim, OpRestore, OpRelease, OpFinish
  <2> QED BY <2>1, <2>2, <2>3, <2>4 DEF Stays, Becomes
<1>2. ASSUME op'.pc \in {"await", "close", "ask", "drained"} PROVE op'.on \in paused'
  <2>1. PICK to \in DrainPcs : DrainStep(op.on, op.pc, to) /\ OpGoes(op.pc, to, op.was, op.drained)
    BY <1>0, <1>2 DEF OpMoves, OpGoes, DrainPcs
  <2>2. to \in {"await", "close", "ask", "drained"} /\ op'.on = op.on
    BY <1>2, <2>1 DEF OpGoes
  <2>3. \/ paused' = paused \cup {op.on}
        \/ op.pc \in {"await", "close", "ask", "drained"} /\ paused' = paused
    BY <1>0, <2>1, <2>2 DEF DrainStep
  <2> QED BY <1>0, <2>2, <2>3 DEF Spared
<1>3. ASSUME op'.pc \in {"close", "ask", "drained"} PROVE ~HoldsTicket(op.on)'
  <2>1. PICK to \in DrainPcs : DrainStep(op.on, op.pc, to) /\ OpGoes(op.pc, to, op.was, op.drained)
    BY <1>0, <1>3 DEF OpMoves, OpGoes, DrainPcs
  <2>2. to \in {"close", "ask", "drained"} /\ op'.on = op.on
    BY <1>3, <2>1 DEF OpGoes
  <2>3. ~HoldsTicket(op.on)
    BY <1>0, <2>1, <2>2 DEF DrainStep, Spared
  <2> QED BY <1>0, <2>2, <2>3 DEF HoldsTicket
<1> QED BY <1>1, <1>2, <1>3 DEF Spared

(* ... and so does any other: no turn begins in a paused story. *)
LEMMA SparedOthers ==
    ASSUME SupervisorTypeOK, Halted, TurnsTold, OpTold, Spared, [Next]_vars,
           UNCHANGED op, ~shutting_down'
    PROVE  Spared'
<1>0. ~shutting_down /\ ~OpSteps /\ UNCHANGED paused /\ UNCHANGED closing
  BY MainIs, OpDiffers, PausedStays
<1>1. ASSUME op.pc = "stop", op.was \in Healthy PROVE child'[op.on].conn = 0
  <2>1. op.on \in Children /\ child[op.on].conn = 0 /\ child[op.on].state \in Serves
    BY <1>0, <1>1 DEF SupervisorTypeOK, Operations, Spared, OpTold, Healthy, Serves
  <2>2. token[Current(op.on)] = "dead"
    BY <2>1 DEF TurnsTold
  <2>3. ~OnHello(op.on, child[op.on].start)
    BY <2>2 DEF OnHello, Current
  <2>4. Stays(op.on) \/ TickedOn(op.on) \/ CheckedOn(op.on) \/ SaidBy(op.on) \/ ShutDown(op.on)
    BY <2>1, OpTouches
  <2>5. TickedOn(op.on) => child'[op.on].conn \in {0, child[op.on].conn}
    BY DEF TickedOn, Becomes
  <2> QED BY <2>1, <2>3, <2>4, <2>5 DEF Stays, CheckedOn, SaidBy, ShutDown, Becomes
<1>2. ASSUME op.pc \in {"close", "ask", "drained"} PROVE ~HoldsTicket(op.on)'
  <2>1. op.on \in paused /\ ~HoldsTicket(op.on)
    BY <1>0, <1>2 DEF Spared
  <2>2. ASSUME NEW c \in Children, NEW n \in 1..MaxStarts, TurnStarts(c, n), c = op.on PROVE FALSE
    BY <2>1, <2>2 DEF TurnStarts
  <2>3. \A s \in turns' : s[1] # op.on
    <3>1. ASSUME NEW c \in Children, NEW n \in 1..MaxStarts, TurnStarts(c, n), NEW s \in turns'
          PROVE  s[1] # op.on
      BY <2>1, <2>2, <3>1 DEF TurnStarts, HoldsTicket
    <3> QED BY <2>1, <3>1, TurnsBy DEF HoldsTicket
  <2> QED BY <2>3 DEF HoldsTicket
<1> QED BY <1>0, <1>1, <1>2 DEF Spared

(* Every step spares them. *)
LEMMA SparedStep ==
    ASSUME SupervisorTypeOK, Halted, TurnsTold, OpTold, Spared, [Next]_vars
    PROVE  Spared'
<1>1. CASE shutting_down'
  BY <1>1 DEF Spared
<1>2. ASSUME NEW kind \in Kinds, NEW c \in Workers \cap Children, Submit(kind, c) PROVE Spared'
  BY <1>2, SubmitTouches DEF Spared
<1> QED BY <1>1, <1>2, SparedOperation, SparedOthers, OpBy

(* What a health check says of the start it asks.                           *)
ChecksTold ==
    /\ \A c \in Children : child[c].state \in Serves => child[c].ready
    /\ op.pc = "claimed" /\ op.was \in Healthy => child[op.on].ready
    /\ \A k \in checks :
          /\ k.pc = "due" => child[k.on].ready
          /\ k.pc = "asked" /\ k.conn # 0 =>
                k.conn <= child[k.on].start /\ (k.conn = child[k.on].start => child[k.on].ready)

(* The second hypothesis, of ReadyAfterReady alone: a check that is due is   *)
(* begun before its child is started again. pool.submit gives no such word   *)
(* (README, finding 3).                                                      *)
ChecksBegun ==
    \A k \in checks : k.pc = "due" => child'[k.on].start = child[k.on].start

(* A child that was ready is, while its start is the same. *)
LEMMA ReadyKept ==
    ASSUME SupervisorTypeOK, [Next]_vars, NEW c \in Children, child[c].ready,
           child'[c].start = child[c].start
    PROVE  child'[c].ready
<1>1. Touched(c) /\ child[c].start + 1 # child[c].start
  BY ChildIs, StartIs
<1>2. TickedOn(c) => child'[c].ready
  BY <1>1 DEF TickedOn, Becomes
<1>3. OperatedOn(c) => child'[c].ready
  BY <1>1 DEF OperatedOn, Becomes
<1> QED BY <1>1, <1>2, <1>3 DEF Touched, Stays, CheckedOn, SaidBy, ShutDown, Becomes

(* A child's start stays or is the next. *)
LEMMA StartGrows ==
    ASSUME SupervisorTypeOK, [Next]_vars, NEW c \in Children
    PROVE  child'[c].start = child[c].start \/ child'[c].start = child[c].start + 1
BY StartBy

(* A check comes of the tick, and is begun by the pool. *)
LEMMA ChecksBy ==
    ASSUME [Next]_vars
    PROVE  \/ checks' \subseteq checks
           \/ \E c \in Children : TickCheck(c)
           \/ \E k \in checks : CheckBegins(k)
<1> DEFINE Same == checks' \subseteq checks
<1>1. ASSUME NEW c \in Children, TickSteps(c) \/ Ready(c) PROVE Same \/ TickCheck(c)
  BY <1>1 DEF TickSteps, TickRespawn, TickRespawnFails, TickCrash, Ready
<1>2. ASSUME PoolSteps PROVE Same \/ \E k \in checks : CheckBegins(k)
  BY <1>2 DEF PoolSteps, ReapStop, ReapPolicy, CheckEnds
<1>3. ASSUME NEW c, NEW n, StartSteps(c, n) \/ TurnSteps(c, n) PROVE Same
  BY <1>3 DEF StartSteps, TurnSteps, Reclaim, ReclaimAnswered, HelloAdmitted, HelloAccepted, OnHello,
              OnClose, Exits, TurnStarts, TurnEnds
<1>4. ASSUME NEW kind, NEW c, Submit(kind, c) PROVE Same
  BY <1>4 DEF Submit
<1>5. ASSUME OpSteps PROVE Same
  BY <1>5, OpLeaves
<1>6. ASSUME ShutdownSteps PROVE Same
  BY <1>6 DEF ShutdownSteps, HaltOne, ShutdownAsked, MarkAll, NextPhase, Close,
              HaltBegin, HaltDrain, HaltStop, HaltStopFails, HaltRetire, KillRest
<1>7. ASSUME UNCHANGED vars PROVE Same
  BY <1>7 DEF vars
<1> QED BY <1>1, <1>2, <1>3, <1>4, <1>5, <1>6, <1>7 DEF Next

(* One check, asked of whatever it is asked of, stays true to its start.    *)
LEMMA CheckStays ==
    ASSUME SupervisorTypeOK, ChecksTold, ChecksBegun, [Next]_vars, NEW k \in checks
    PROVE  /\ k.pc = "due" => child'[k.on].ready
           /\ k.pc = "asked" /\ k.conn # 0 =>
                 k.conn <= child'[k.on].start /\ (k.conn = child'[k.on].start => child'[k.on].ready)
<1>a. k.on \in Children /\ k.conn \in Nat /\ child[k.on].start \in Nat
  <2>1. k.on \in Children /\ k.conn \in 0..MaxStarts
    BY DEF SupervisorTypeOK
  <2> QED BY <2>1, StartIs, ConstantsAre
<1>1. ASSUME k.pc = "due" PROVE child'[k.on].ready
  BY <1>a, <1>1, ReadyKept DEF ChecksTold, ChecksBegun
<1>2. ASSUME k.pc = "asked", k.conn # 0
      PROVE  k.conn <= child'[k.on].start /\ (k.conn = child'[k.on].start => child'[k.on].ready)
  <2>1. k.conn <= child[k.on].start /\ (k.conn = child[k.on].start => child[k.on].ready)
    BY <1>2 DEF ChecksTold
  <2>2. child'[k.on].start = child[k.on].start \/ child'[k.on].start = child[k.on].start + 1
    BY <1>a, StartGrows
  <2> QED BY <1>a, <2>1, <2>2, ReadyKept
<1> QED BY <1>1, <1>2

(* Given ChecksBegun, every step keeps what the checks say. *)
LEMMA ChecksToldStep ==
    ASSUME SupervisorTypeOK, Claims, TokensTold, ChecksTold, ChecksBegun, [Next]_vars
    PROVE  ChecksTold'
<1>1. ASSUME NEW c \in Children, child'[c].state \in Serves PROVE child'[c].ready
  <2>1. child'[c].start = child[c].start
    BY <1>1, ShownStart
  <2>2. child[c].ready
    <3>1. CASE child[c].state \in Serves
      BY <3>1 DEF ChecksTold
    <3>2. CASE child[c].state \notin Serves
      <4>1. CASE OpBegin /\ op.on = c /\ op.was \in Healthy /\ op.pc = "claimed"
        BY <4>1 DEF ChecksTold
      <4>2. CASE CheckedOn(c)
        <5>1. PICK k \in checks : k.on = c /\ k.pc = "asked" /\ k.conn = child[c].conn /\ child[c].conn # 0
          BY <4>2 DEF CheckedOn
        <5>2. k.conn = child[c].start
          BY <5>1 DEF TokensTold
        <5> QED BY <5>1, <5>2 DEF ChecksTold
      <4> QED BY <1>1, <3>2, <4>1, <4>2, ShownBy
    <3> QED BY <3>1, <3>2
  <2> QED BY <2>1, <2>2, ReadyKept
<1>2. ASSUME op'.pc = "claimed", op'.was \in Healthy PROVE child'[op'.on].ready
  <2>1. CASE OpSteps
    <3>1. OpClaim /\ op'.on = op.on /\ op'.was = child[op.on].state /\ op.on \in Children /\ op.pc = "queued"
      BY <1>2, <2>1, OpIs DEF OpMoves, OpGoes, OpDrain, DrainPcs
    <3>2. child[op.on].ready
      BY <1>2, <3>1 DEF ChecksTold, Healthy, Serves
    <3>3. child'[op.on].start = child[op.on].start
      <4>1. op' # op
        BY <2>1, OpDiffers
      <4> QED BY <3>1, <4>1, StartBy DEF Respawns, TickRespawn, TickRespawnFails, OpFinish
    <3> QED BY <3>1, <3>2, <3>3, ReadyKept
  <2>2. CASE UNCHANGED op
    <3>1. op.on \in Children /\ child[op.on].ready /\ op.pc = "claimed" /\ op'.on = op.on
      BY <1>2, <2>2 DEF ChecksTold, SupervisorTypeOK, Operations
    <3>2. child'[op.on].start = child[op.on].start
      BY <3>1, ClaimedStart DEF Working
    <3> QED BY <3>1, <3>2, ReadyKept
  <2> QED BY <1>2, <2>1, <2>2, OpBy, SubmitTouches
<1>3. ASSUME NEW k \in checks'
      PROVE  /\ k.pc = "due" => child'[k.on].ready
             /\ k.pc = "asked" /\ k.conn # 0 =>
                   k.conn <= child'[k.on].start /\ (k.conn = child'[k.on].start => child'[k.on].ready)
  <2>1. CASE k \in checks
    BY <2>1, CheckStays
  <2>2. ASSUME NEW c \in Children, TickCheck(c), k \notin checks
        PROVE  k.pc = "due" /\ child'[k.on].ready
    <3>1. k.on = c /\ k.pc = "due" /\ child[c].ready
      BY <2>2 DEF TickCheck
    <3>2. child' = [child EXCEPT ![c] = [child[c] EXCEPT !.checking = TRUE]] /\ child[c] \in Records
          /\ child \in [Children -> Records]
      BY <2>2, StartIs DEF TickCheck, SupervisorTypeOK
    <3> QED BY <3>1, <3>2 DEF Records
  <2>3. ASSUME NEW i \in checks, CheckBegins(i), k \notin checks
        PROVE  /\ k.pc = "asked"
               /\ k.conn # 0 => k.conn = child'[k.on].start /\ child'[k.on].ready
    <3>1. k.on = i.on /\ k.pc = "asked" /\ k.conn = child[i.on].conn /\ i.on \in Children
      BY <2>3 DEF CheckBegins, SupervisorTypeOK
    <3>2. child[i.on].ready /\ UNCHANGED child
      BY <2>3 DEF CheckBegins, ChecksTold
    <3>3. k.conn # 0 => k.conn = child[i.on].start
      BY <3>1 DEF TokensTold
    <3> QED BY <3>1, <3>2, <3>3
  <2>4. \A n \in Nat : n <= n
    OBVIOUS
  <2>5. \A c \in Children : child'[c].start \in Nat
    BY TypesStep, ConstantsAre DEF SupervisorTypeOK, Records
  <2>6. ASSUME k \notin checks PROVE k.on \in Children
    BY TypesStep DEF SupervisorTypeOK
  <2>7. CASE k \notin checks
    BY <2>2, <2>3, <2>4, <2>5, <2>6, <2>7, ChecksBy
  <2> QED BY <2>1, <2>7
<1>4. ChecksTold'
  BY <1>1, <1>2, <1>3 DEF ChecksTold
<1> QED BY <1>4

----------------------------------------------------------------------------
(* The invariants: of the pauses, which need no hypothesis, and of all. *)
PausedInv == Halted /\ DrainTold /\ PausedTold
SupervisorInv == PausedInv /\ Claims /\ Dead /\ TokensTold /\ OpTold /\ TurnsTold /\ Spared

(* At the start the types hold. *)
LEMMA InitTypes == Init => SupervisorTypeOK
<1> SUFFICES ASSUME Init PROVE SupervisorTypeOK
  OBVIOUS
<1>1. child \in [Children -> Records]
  BY FreshIs, ConstantsAre DEF Init
<1>2. token \in [Starts -> Tokens]
  BY DEF Init, Tokens
<1> QED BY <1>1, <1>2 DEF Init, SupervisorTypeOK

(* At the start every child is starting and nothing else is under way. *)
LEMMA InitInv == Init => SupervisorInv /\ ChecksTold
<1> SUFFICES ASSUME Init PROVE SupervisorInv /\ ChecksTold
  OBVIOUS
<1>1. /\ \A c \in Children : /\ child[c].state = "starting" /\ child[c].start = 1 /\ child[c].conn = 0
                             /\ token[<<c, 1>>] = "unused"
      /\ op.pc = "idle" /\ main = "ticking" /\ \A c \in Children : halt[c] = "none"
      /\ reaping = {} /\ checks = {} /\ turns = {} /\ paused = {} /\ closing = {}
  BY FreshIs, ConstantsAre DEF Init, Starts
<1>2. Claims
  BY <1>1 DEF Claims, Working
<1>3. Dead
  <2>1. \A s \in procs : s[1] \in Children /\ s = <<s[1], 1>>
    BY DEF Init, Starts
  <2>2. \A s \in procs : s = Current(s[1])
    BY <1>1, <2>1 DEF Current
  <2> QED BY <1>1, <2>2 DEF Dead
<1>4. PausedInv
  BY <1>1 DEF PausedInv, Halted, DrainTold, PausedTold, DrainPcs
<1>5. OpTold /\ Spared
  BY <1>1 DEF OpTold, Spared, Working
<1>6. TokensTold
  <2>1. \A s \in Starts : s[1] \in Children /\ s[2] \in 1..MaxStarts /\ (s[2] # 1 => token[s] = "none")
    BY DEF Init, Starts
  <2>2. ASSUME NEW s \in Starts
        PROVE  /\ s[2] > child[s[1]].start => token[s] = "none"
               /\ s[2] < child[s[1]].start => token[s] \notin Unused
    <3>1. s[1] \in Children /\ s[2] \in 1..MaxStarts
      BY <2>1
    <3>2. s[2] \in Nat /\ s[2] >= 1
      BY <3>1, ConstantsAre
    <3>3. child[s[1]].start = 1
      BY <1>1, <3>1
    <3> QED BY <2>1, <3>2, <3>3
  <2>3. \A c \in Children : child[c].conn = 0 /\ child[c].state = "starting"
    BY <1>1
  <2> QED BY <1>1, <2>2, <2>3 DEF TokensTold
<1>7. TurnsTold /\ ChecksTold
  BY <1>1 DEF TurnsTold, ChecksTold, Serves
<1> QED BY <1>2, <1>3, <1>4, <1>5, <1>6, <1>7 DEF SupervisorInv

(* Every variable of the supervisor keeps its type. *)
THEOREM SupervisorTypes == Spec => []SupervisorTypeOK
<1>1. Init => SupervisorTypeOK
  BY InitTypes
<1>2. SupervisorTypeOK /\ [Next]_vars => SupervisorTypeOK'
  BY TypesStep
<1> QED BY <1>1, <1>2, PTL DEF Spec

(* Every step keeps the pauses told, whatever else happens. *)
LEMMA PausedInvStep ==
    ASSUME SupervisorTypeOK, PausedInv, [Next]_vars
    PROVE  PausedInv'
BY HaltedStep, DrainToldStep, PausedToldStep DEF PausedInv

(* Given ClaimedLast, every step keeps the whole. *)
LEMMA InvStep ==
    ASSUME SupervisorTypeOK, SupervisorInv, [Next]_vars, ClaimedLast
    PROVE  SupervisorInv'
BY PausedInvStep, ClaimsStep, DeadStep, TokensToldStep, OpToldStep, TurnsToldStep, SparedStep
   DEF SupervisorInv, PausedInv

(* Until the shutdown a story is paused by the operation on its worker. *)
OnlyOperationsPause ==
    \A c \in paused \cup closing : shutting_down \/ (op.pc # "idle" /\ op.on = c)

(* No hypothesis is needed for it: an operation that ends, however it ends,  *)
(* leaves no story paused (ops.py, the finally clauses).                     *)
THEOREM OnlyOperationsPauseHolds == Spec => []OnlyOperationsPause
<1>1. Init => PausedInv
  BY InitInv DEF SupervisorInv
<1>2. SupervisorTypeOK /\ PausedInv /\ [Next]_vars => PausedInv'
  BY PausedInvStep
<1>3. PausedInv => OnlyOperationsPause
  BY DEF PausedInv, PausedTold, OnlyOperationsPause
<1> QED BY <1>1, <1>2, <1>3, SupervisorTypes, PTL DEF Spec

(* The invariant, for any children, under the one window ClaimedLast. *)
THEOREM SupervisorInvHolds == Spec /\ [][ClaimedLast]_vars => []SupervisorInv
<1>1. Init => SupervisorInv
  BY InitInv
<1>2. SupervisorTypeOK /\ SupervisorInv /\ [Next]_vars /\ [ClaimedLast]_vars => SupervisorInv'
  <2> SUFFICES ASSUME SupervisorTypeOK, SupervisorInv, [Next]_vars, [ClaimedLast]_vars
               PROVE  SupervisorInv'
    OBVIOUS
  <2>1. CASE ClaimedLast
    BY <2>1, InvStep
  <2>2. CASE UNCHANGED vars
    <3>1. ASSUME NEW c \in Children, TickCrash(c) PROVE FALSE
      <4>1. PICK i \in ReapIds : /\ \A j \in reaping : j.id # i
                                /\ reaping' = reaping \cup {[id |-> i, on |-> c, pc |-> "stop"]}
        BY <3>1 DEF TickCrash
      <4>2. [id |-> i, on |-> c, pc |-> "stop"] \in reaping
        BY <2>2, <4>1 DEF vars
      <4> QED BY <4>1, <4>2
    <3>2. ClaimedLast
      BY <3>1 DEF ClaimedLast
    <3> QED BY <3>2, InvStep
  <2> QED BY <2>1, <2>2
<1> QED BY <1>1, <1>2, SupervisorTypes, PTL DEF Spec

(* A check speaks of the start it was begun for, under both windows. *)
THEOREM ReadyInvHolds ==
    Spec /\ [][ClaimedLast]_vars /\ [][ChecksBegun]_vars => []ChecksTold
<1>1. Init => ChecksTold
  BY InitInv
<1>2. SupervisorTypeOK /\ SupervisorInv /\ ChecksTold /\ [Next]_vars /\ [ChecksBegun]_vars => ChecksTold'
  <2> SUFFICES ASSUME SupervisorTypeOK, SupervisorInv, ChecksTold, [Next]_vars, [ChecksBegun]_vars
               PROVE  ChecksTold'
    OBVIOUS
  <2>1. ChecksBegun
    BY DEF ChecksBegun, vars
  <2> QED BY <2>1, ChecksToldStep DEF SupervisorInv
<1> QED BY <1>1, <1>2, SupervisorTypes, SupervisorInvHolds, PTL DEF Spec

(* A child somebody works on is marked, so that the tick leaves it alone,    *)
(* and it is in one pair of hands.                                           *)
THEOREM MarkedWhileWorkedHolds == Spec /\ [][ClaimedLast]_vars => []MarkedWhileWorked
<1>1. SupervisorInv => MarkedWhileWorked
  BY DEF SupervisorInv, Claims, Held, MarkedWhileWorked
<1> QED BY <1>1, SupervisorInvHolds, PTL

(* A child never has two processes, and until the shutdown no token of an    *)
(* old start is one a process could still say hello with.                    *)
THEOREM OneStartHolds == Spec /\ [][ClaimedLast]_vars => []OneStart
<1>1. SupervisorTypeOK /\ SupervisorInv => OneStart
  <2> SUFFICES ASSUME SupervisorTypeOK, SupervisorInv PROVE OneStart
    OBVIOUS
  <2>1. \A s, t \in procs : s[1] = t[1] => s = t
    BY DEF SupervisorInv, Dead, Current
  <2>2. ASSUME NEW s \in Starts, token[s] \in {"unused", "admitted"}, ~shutting_down
        PROVE  s = Current(s[1]) /\ child[s[1]].state = "starting"
    <3>1. s[1] \in Children /\ s = <<s[1], s[2]>> /\ s[2] \in Nat /\ child[s[1]].start \in Nat
      BY StartIs, ConstantsAre DEF Starts
    <3>2. s[2] = child[s[1]].start
      <4>1. ~(s[2] > child[s[1]].start) /\ ~(s[2] < child[s[1]].start)
        BY <2>2 DEF SupervisorInv, TokensTold, Unused
      <4> QED BY <3>1, <4>1
    <3>3. s = Current(s[1])
      BY <3>1, <3>2 DEF Current
    <3> QED BY <2>2, <3>1, <3>3 DEF SupervisorInv, TokensTold, Unused
  <2> QED BY <2>1, <2>2 DEF OneStart
<1> QED BY <1>1, SupervisorTypes, SupervisorInvHolds, PTL

(* No operation stops a worker under a turn that holds a ticket, and the     *)
(* stories are paused by operations only.                                    *)
THEOREM OperationsSpareTurnsHolds == Spec /\ [][ClaimedLast]_vars => []OperationsSpareTurns
<1>1. SupervisorTypeOK /\ SupervisorInv => OperationsSpareTurns
  <2> SUFFICES ASSUME SupervisorTypeOK, SupervisorInv PROVE OperationsSpareTurns
    OBVIOUS
  <2>1. ASSUME op.pc \in {"stop", "drained"}, op.was \in Healthy, ~shutting_down,
               Current(op.on) \in turns
        PROVE  FALSE
    <3>1. op.on \in Children
      BY <2>1 DEF SupervisorTypeOK, Operations
    <3>2. CASE op.pc = "stop"
      <4>1. child[op.on].state \in Serves /\ child[op.on].conn = 0
        BY <2>1, <3>2 DEF SupervisorInv, OpTold, Spared, Healthy, Serves
      <4>2. token[Current(op.on)] = "dead" /\ token[Current(op.on)] = "linked"
        BY <2>1, <3>1, <4>1 DEF SupervisorInv, TurnsTold
      <4> QED BY <4>2
    <3>3. CASE op.pc = "drained"
      <4>1. ~HoldsTicket(op.on)
        BY <2>1, <3>3 DEF SupervisorInv, Spared
      <4> QED BY <2>1, <4>1 DEF HoldsTicket, Current
    <3> QED BY <2>1, <3>2, <3>3
  <2>2. \A c \in paused \cup closing : shutting_down \/ (op.pc # "idle" /\ op.on = c)
    BY DEF SupervisorInv, PausedInv, PausedTold
  <2> QED BY <2>1, <2>2 DEF OperationsSpareTurns
<1> QED BY <1>1, SupervisorTypes, SupervisorInvHolds, PTL

(* Once the supervisor has closed, no child runs. *)
THEOREM NothingLeftRunningHolds == Spec /\ [][ClaimedLast]_vars => []NothingLeftRunning
<1>1. SupervisorTypeOK /\ SupervisorInv => NothingLeftRunning
  BY DEF SupervisorTypeOK, SupervisorInv, PausedInv, Dead, Halted, Alive, Starts, NothingLeftRunning
<1> QED BY <1>1, SupervisorTypes, SupervisorInvHolds, PTL

(* A child is healthy only if the start it is at said it was ready. *)
THEOREM ReadyAfterReadyHolds ==
    Spec /\ [][ClaimedLast]_vars /\ [][ChecksBegun]_vars => []ReadyAfterReady
<1>1. ChecksTold => ReadyAfterReady
  BY DEF ChecksTold, ReadyAfterReady, Healthy, Serves
<1> QED BY <1>1, ReadyInvHolds, PTL

(* Once the shutdown is asked for, no child is started again: without any    *)
(* hypothesis.                                                               *)
THEOREM NothingRestartedHolds == Spec => NothingRestarted
<1>1. SupervisorTypeOK /\ [Next]_vars =>
         (shutting_down => \A c \in Children : child'[c].start = child[c].start)
  BY StartBy DEF shutting_down
<1> QED BY <1>1, SupervisorTypes, PTL DEF Spec, NothingRestarted

(* A child held down is started again by an operation only, and after the    *)
(* shutdown is asked for nothing is.                                         *)
THEOREM StaysDownHolds == Spec /\ [][ClaimedLast]_vars => StaysDown
<1>1. ASSUME SupervisorTypeOK, SupervisorInv, [Next]_vars, NEW c \in Children,
             child[c].state = "held_down", child'[c].state # "held_down"
      PROVE  shutting_down \/ (op.pc # "idle" /\ op.on = c)
  <2>1. Touched(c)
    BY <1>1, ChildIs
  <2>2. OperatedOn(c) => op.pc # "idle" /\ op.on = c
    BY <1>1, OpTouches, OpIs DEF OperatedOn
  <2>3. TickedOn(c) => shutting_down
    BY <1>1 DEF TickedOn, Becomes, TickRespawn, TickRespawnFails, TickCrash, SupervisorInv, Claims, Held,
                shutting_down
  <2> QED BY <1>1, <2>1, <2>2, <2>3
          DEF Touched, Stays, CheckedOn, SaidBy, ShutDown, Becomes, Close, MarkAll, KillRest, shutting_down
<1>2. SupervisorTypeOK /\ SupervisorInv /\ [Next]_vars =>
         [\A c \in Children : child[c].state = "held_down" /\ child'[c].state # "held_down" =>
             shutting_down \/ (op.pc # "idle" /\ op.on = c)]_vars
  BY <1>1
<1> QED BY <1>2, NothingRestartedHolds, SupervisorTypes, SupervisorInvHolds, PTL
        DEF Spec, StaysDown, HeldDownStays
=============================================================================
