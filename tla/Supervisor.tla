----------------------------- MODULE Supervisor -----------------------------
(***************************************************************************)
(* The supervisor of the stories' processes,                                *)
(* engine/hosting/supervisor/server.py with process.py (Child) and ops.py:  *)
(* it starts every worker and the front door, watches their health,         *)
(* restarts what crashes, performs one operation (start, stop, restart) at  *)
(* a time, and shuts everything down, draining turns on the way.            *)
(*                                                                          *)
(* Threads: the main thread (tick, then shutdown), the reaper, the health   *)
(* pool, the operations thread, one stopping thread per worker during the   *)
(* shutdown, and the bus's selector.  An action is what one of them does    *)
(* under one hold of `_lock' (or one call of the queue, or one wait on a    *)
(* process).  A START is a process with the token minted for it, numbered   *)
(* per child; times (backoff, deadlines, timeouts) may pass at any moment.  *)
(* A model apply (llm.py) is ModelApply's.  A definition         *)
(* commented `Slip:' is no part of the model: it is a likely mistake in the *)
(* one after it, kept to show which property would notice.                  *)
(***************************************************************************)
EXTENDS Integers, FiniteSets

CONSTANTS
    Workers,         \* the stories' workers
    FrontDoor,       \* the front door's child
    Children,        \* the children supervised: workers, and the front door
    MaxRestarts,     \* hosting.supervisor.max_restarts
    HealthFailures,  \* hosting.supervisor.health_failures
    CheckIds,        \* bound: health checks in flight
    ReapIds,         \* bound: crashes in the reaper's hands
    MaxStarts        \* bound: starts of one child

ASSUME SupervisorConstants ==
    /\ FrontDoor \notin Workers
    /\ Children \subseteq Workers \cup {FrontDoor}
    /\ MaxRestarts \in Nat \ {0} /\ HealthFailures \in Nat \ {0}
    /\ MaxStarts \in Nat \ {0}
    /\ CheckIds \subseteq Nat /\ ReapIds \subseteq Nat

VARIABLES
    child,     \* the story table: what the supervisor knows of each child
    token,     \* each start's bus credential
    procs,     \* the processes running
    checks,    \* health checks submitted or running
    reaping,   \* crashes submitted to the reaper
    reclaims,  \* lane.reclaimed requests waiting for an acknowledgement
    paused,    \* the stories whose new turns the queue does not admit
    closing,   \* the stories whose acquires the queue refuses
    turns,     \* starts that hold a lane ticket
    op,        \* the operation queued or running
    main,      \* where the main thread is
    halt       \* where the shutdown is with each child

vars == <<child, token, procs, checks, reaping, reclaims, paused, closing,
          turns, op, main, halt>>

States == {"starting", "ready", "degraded", "draining", "stopped",
           "restarting", "held_down"}
Healthy == {"ready", "degraded"}
Routable == {"ready", "degraded", "draining"}

Starts == Children \X (1..MaxStarts)

(* unused -> admitted (the supervisor agreed, the bus not yet) -> live (its  *)
(* connection not yet noted) -> linked -> dead.                             *)
Tokens == {"none", "unused", "admitted", "live", "linked", "dead"}

shutting_down == main # "ticking"

Current(c) == <<c, child[c].start>>

Alive(c) == Current(c) \in procs

HoldsTicket(c) == \E s \in turns : s[1] = c

----------------------------------------------------------------------------
(* Child.spawn and Supervisor._spawn. *)

FreshChild(n, crashes) ==
    [state |-> "starting", start |-> n, conn |-> 0, ready |-> FALSE,
     failures |-> 0, checking |-> FALSE, stuck |-> FALSE, stopping |-> FALSE,
     crashes |-> crashes]

(* Slip: the token is left for the bus to expire. *)
RetiredNever(c, tokens) == tokens

(* _retire: a token never used is dead from now on. *)
Retired(c, tokens) ==
    [tokens EXCEPT ![Current(c)] = IF @ \in {"unused", "admitted"} THEN "dead" ELSE @]

(* A fresh token, a new process, and the child's record begun again. *)
Spawn(c, crashes) ==
    LET n == child[c].start + 1
    IN  /\ n <= MaxStarts
        /\ child' = [child EXCEPT ![c] = FreshChild(n, crashes)]
        /\ token' = [Retired(c, token) EXCEPT ![<<c, n>>] = "unused"]
        /\ procs' = procs \cup {<<c, n>>}

(* A start that fails: no process (Popen), or a process killed at once      *)
(* because its output cannot be captured; its token is dead either way.     *)
(* `left' is what it leaves of the record.                                  *)
FailedSpawns(c, crashes) ==
    LET n == child[c].start + 1
    IN  {[record |-> [child[c] EXCEPT !.crashes = crashes], tokens |-> Retired(c, token)]}
            \cup (IF n > MaxStarts THEN {} ELSE
                  {[record |-> [FreshChild(n, crashes) EXCEPT !.stopping = child[c].stopping],
                    tokens |-> [Retired(c, token) EXCEPT ![<<c, n>>] = "dead"]]})

(* _apply_policy on a record: restart after a backoff, or hold down after   *)
(* max_restarts crash restarts in the window; `kept' of them are still in   *)
(* it.                                                                      *)
AfterCrash(r, kept) ==
    [r EXCEPT
        !.stopping = FALSE, !.conn = 0,
        !.state = IF shutting_down THEN "stopped"
                  ELSE IF kept >= MaxRestarts THEN "held_down" ELSE "restarting",
        !.crashes = IF shutting_down THEN @
                    ELSE IF kept >= MaxRestarts THEN kept ELSE kept + 1]

ApplyPolicy(c, record) ==
    \E kept \in 0..record.crashes :
        child' = [child EXCEPT ![c] = AfterCrash(record, kept)]

----------------------------------------------------------------------------
(* After start(): every child was spawned once. *)
Init ==
    /\ child = [c \in Children |-> FreshChild(1, 0)]
    /\ token = [s \in Starts |-> IF s[2] = 1 THEN "unused" ELSE "none"]
    /\ procs = {s \in Starts : s[2] = 1}
    /\ checks = {} /\ reaping = {} /\ reclaims = {}
    /\ paused = {} /\ closing = {} /\ turns = {}
    /\ op = [pc |-> "idle"]
    /\ main = "ticking"
    /\ halt = [c \in Children |-> "none"]

----------------------------------------------------------------------------
(* The main thread: tick looks at each child that nobody else works on. *)

Ticked(c) ==
    /\ main = "ticking"
    /\ ~child[c].stopping
    /\ child[c].state \notin {"stopped", "held_down"}

(* A respawn whose backoff is over. *)
TickRespawn(c) ==
    /\ Ticked(c)
    /\ child[c].state = "restarting"
    /\ Spawn(c, child[c].crashes)
    /\ UNCHANGED <<checks, reaping, reclaims, paused, closing, turns, op, main, halt>>

(* ... that fails is a crash. *)
TickRespawnFails(c) ==
    /\ Ticked(c)
    /\ child[c].state = "restarting"
    /\ \E f \in FailedSpawns(c, child[c].crashes) :
          /\ ApplyPolicy(c, f.record)
          /\ token' = f.tokens
    /\ UNCHANGED <<procs, checks, reaping, reclaims, paused, closing, turns, op,
                   main, halt>>

(* _crash_reason *)
Crashed(c) ==
    \/ ~Alive(c)
    \/ child[c].stuck
    \/ ~child[c].ready              \* boot_seconds may be over
    \/ child[c].failures >= HealthFailures
    \/ child[c].conn = 0 /\ token[Current(c)] = "dead"

(* A crash is claimed here and handed to the reaper. *)
TickCrash(c) ==
    /\ Ticked(c)
    /\ child[c].state # "restarting"
    /\ Crashed(c)
    /\ \E i \in ReapIds :
          /\ \A j \in reaping : j.id # i
          /\ reaping' = reaping \cup {[id |-> i, on |-> c, pc |-> "stop"]}
    /\ child' = [child EXCEPT ![c].stopping = TRUE]
    /\ UNCHANGED <<token, procs, checks, reclaims, paused, closing, turns, op, main, halt>>

(* A health check is due: submitted to the pool. *)
TickCheck(c) ==
    /\ Ticked(c)
    /\ child[c].state \in {"starting", "ready", "degraded"}
    /\ Alive(c) /\ ~child[c].stuck /\ child[c].failures < HealthFailures
    /\ child[c].conn # 0 /\ child[c].ready /\ ~child[c].checking
    /\ child' = [child EXCEPT ![c].checking = TRUE]
    /\ \E i \in CheckIds :
          /\ \A k \in checks : k.id # i
          /\ checks' = checks \cup {[id |-> i, on |-> c, conn |-> 0, pc |-> "due"]}
    /\ UNCHANGED <<token, procs, reaping, reclaims, paused, closing, turns, op, main, halt>>

(* The reaper (_crash): what is left of the process is stopped ... *)
ReapStop(j) ==
    /\ j.pc = "stop"
    /\ procs' = procs \ {Current(j.on)}
    /\ reaping' = (reaping \ {j}) \cup {[j EXCEPT !.pc = "policy"]}
    /\ UNCHANGED <<child, token, checks, reclaims, paused, closing, turns, op, main, halt>>

(* ... then its unused token is retired and the restart policy applied. *)
ReapPolicy(j) ==
    /\ j.pc = "policy"
    /\ reaping' = reaping \ {j}
    /\ token' = Retired(j.on, token)
    /\ ApplyPolicy(j.on, child[j.on])
    /\ UNCHANGED <<procs, checks, reclaims, paused, closing, turns, op, main, halt>>

----------------------------------------------------------------------------
(* The health pool (_check): the connection is read when the job runs, the  *)
(* answer is applied only if it is still the child's.                       *)
CheckBegins(k) ==
    /\ k.pc = "due"
    /\ checks' = (checks \ {k})
                    \cup {[k EXCEPT !.pc = "asked", !.conn = child[k.on].conn]}
    /\ UNCHANGED <<child, token, procs, reaping, reclaims, paused, closing, turns,
                   op, main, halt>>

(* _apply_health *)
AfterCheck(r, bus_ok, http_ok) ==
    [r EXCEPT
        !.failures = IF bus_ok THEN 0
                     ELSE IF @ < HealthFailures THEN @ + 1 ELSE @,
        !.state = IF @ = "starting" /\ bus_ok
                     THEN IF http_ok THEN "ready" ELSE "degraded"
                  ELSE IF @ = "ready" /\ ~http_ok THEN "degraded"
                  ELSE IF @ = "degraded" /\ http_ok THEN "ready" ELSE @,
        !.checking = FALSE]

(* Slip: the answer is applied to whatever connection the child has now. *)
CheckEndsAny(k, bus_ok, http_ok) ==
    /\ k.pc = "asked"
    /\ checks' = checks \ {k}
    /\ child' = [child EXCEPT ![k.on] =
                    IF @.stopping \/ @.conn = 0
                    THEN [@ EXCEPT !.checking = FALSE]
                    ELSE AfterCheck(@, bus_ok, http_ok)]
    /\ UNCHANGED <<token, procs, reaping, reclaims, paused, closing, turns, op,
                   main, halt>>

CheckEnds(k, bus_ok, http_ok) ==
    /\ k.pc = "asked"
    /\ checks' = checks \ {k}
    /\ child' = [child EXCEPT ![k.on] =
                    IF @.stopping \/ @.conn # k.conn \/ k.conn = 0
                    THEN [@ EXCEPT !.checking = FALSE]
                    ELSE AfterCheck(@, bus_ok, http_ok)]
    /\ UNCHANGED <<token, procs, reaping, reclaims, paused, closing, turns, op,
                   main, halt>>

(* The queue takes back a ticket held too long and the worker is asked to   *)
(* acknowledge (_ticket_reclaimed) ...                                      *)
Reclaim(c, n) ==
    /\ <<c, n>> \in turns
    /\ turns' = turns \ {<<c, n>>}
    /\ reclaims' = IF child[c].conn = n THEN reclaims \cup {<<c, n>>} ELSE reclaims
    /\ UNCHANGED <<child, token, procs, checks, reaping, paused, closing, op, main, halt>>

(* ... one that does not is hung (_ask_reclaimed). *)
ReclaimAnswered(c, n, acknowledged) ==
    /\ <<c, n>> \in reclaims
    /\ reclaims' = reclaims \ {<<c, n>>}
    /\ child' = IF ~acknowledged /\ child[c].conn = n
                THEN [child EXCEPT ![c].stuck = TRUE] ELSE child
    /\ UNCHANGED <<token, procs, checks, reaping, paused, closing, turns, op, main, halt>>

----------------------------------------------------------------------------
(* The children and the bus. *)

(* hello, first half: a token never used is offered to the supervisor, and  *)
(* _admit takes it only from a child starting now.                          *)
HelloAdmitted(c, n) ==
    /\ <<c, n>> \in procs
    /\ token[<<c, n>>] = "unused"
    /\ child[c].start = n /\ child[c].state = "starting"
    /\ ~child[c].stopping /\ child[c].conn = 0 /\ ~shutting_down
    /\ token' = [token EXCEPT ![<<c, n>>] = "admitted"]
    /\ UNCHANGED <<child, procs, checks, reaping, reclaims, paused, closing, turns,
                   op, main, halt>>

(* Second half: unless it was retired meanwhile, the token is live. *)
HelloAccepted(c, n) ==
    /\ token[<<c, n>>] = "admitted"
    /\ token' = [token EXCEPT ![<<c, n>>] = "live"]
    /\ UNCHANGED <<child, procs, checks, reaping, reclaims, paused, closing, turns,
                   op, main, halt>>

(* _on_hello: noted if that start is still the child's. *)
OnHello(c, n) ==
    /\ token[<<c, n>>] = "live"
    /\ token' = [token EXCEPT ![<<c, n>>] = "linked"]
    /\ child' = IF child[c].start = n THEN [child EXCEPT ![c].conn = n] ELSE child
    /\ UNCHANGED <<procs, checks, reaping, reclaims, paused, closing, turns, op,
                   main, halt>>

(* _ready: taken once, from a child in `starting'. *)
Ready(c) ==
    /\ child[c].conn # 0 /\ child[c].conn = child[c].start
    /\ Alive(c)
    /\ ~child[c].ready /\ child[c].state = "starting"
    /\ child' = [child EXCEPT ![c].ready = TRUE]
    /\ UNCHANGED <<token, procs, checks, reaping, reclaims, paused, closing, turns,
                   op, main, halt>>

(* A process ends: a crash, or the lifeline when its link is lost. *)
Exits(c, n) ==
    /\ <<c, n>> \in procs
    /\ procs' = procs \ {<<c, n>>}
    /\ UNCHANGED <<child, token, checks, reaping, reclaims, paused, closing, turns,
                   op, main, halt>>

(* _on_close: a connection is lost, its tickets are free. *)
OnClose(c, n) ==
    /\ token[<<c, n>>] = "linked"
    /\ token' = [token EXCEPT ![<<c, n>>] = "dead"]
    /\ turns' = turns \ {<<c, n>>}
    /\ child' = IF child[c].conn = n THEN [child EXCEPT ![c].conn = 0] ELSE child
    /\ UNCHANGED <<procs, checks, reaping, reclaims, paused, closing, op, main, halt>>

(* A player's turn is admitted by the queue, and ends. *)
TurnStarts(c, n) ==
    /\ c \in Workers /\ <<c, n>> \in procs \ turns
    /\ token[<<c, n>>] = "linked"
    /\ child[c].state \in Routable /\ child[c].conn = n
    /\ c \notin paused \cup closing
    /\ turns' = turns \cup {<<c, n>>}
    /\ UNCHANGED <<child, token, procs, checks, reaping, reclaims, paused, closing,
                   op, main, halt>>

TurnEnds(c, n) ==
    /\ <<c, n>> \in turns \cap procs
    /\ turns' = turns \ {<<c, n>>}
    /\ UNCHANGED <<child, token, procs, checks, reaping, reclaims, paused, closing,
                   op, main, halt>>

----------------------------------------------------------------------------
(* _drain, step by step: the thread that drains c goes from pc `from' to    *)
(* `to'.  Only a worker's story is paused; the worker is asked last.        *)
DrainStep(c, from, to) ==
    \/ /\ from = "pause" /\ to = IF c \in Workers THEN "await" ELSE "ask"
       /\ paused' = IF c \in Workers THEN paused \cup {c} ELSE paused
       /\ UNCHANGED closing
    \/ /\ from = "await" /\ to = IF HoldsTicket(c) THEN "undo" ELSE "close"
       /\ UNCHANGED <<paused, closing>>
    \/ /\ from = "close" /\ to = "ask"
       /\ closing' = closing \cup {c}
       /\ UNCHANGED paused
    \/ /\ from = "ask" /\ to = "drained"
       /\ child[c].conn = 0 \/ Alive(c)
       /\ UNCHANGED <<paused, closing>>
    \/ /\ from = "ask" /\ to = "undo" /\ child[c].conn # 0
       /\ UNCHANGED <<paused, closing>>
    \/ /\ from = "undo" /\ to = "undrained"
       /\ paused' = paused \ {c} /\ closing' = closing \ {c}

DrainPcs == {"pause", "await", "close", "ask", "undo", "drained", "undrained"}

----------------------------------------------------------------------------
(* The operations thread (ops.submit, Supervisor._perform). *)

Kinds == {"start", "stop", "restart"}

Submit(kind, c) ==
    /\ op.pc = "idle" /\ ~shutting_down
    /\ op' = [pc |-> "queued", kind |-> kind, on |-> c, was |-> "stopped",
              drained |-> FALSE]
    /\ UNCHANGED <<child, token, procs, checks, reaping, reclaims, paused, closing,
                   turns, main, halt>>

RefusedByState(kind, c) ==          \* Slip: whoever works on the child
    \/ kind = "start" /\ child[c].state \notin {"stopped", "held_down"}
    \/ kind = "stop" /\ child[c].state = "stopped"

RefusedNow(kind, c) ==
    \/ kind = "start" /\ child[c].state \notin {"stopped", "held_down"}
    \/ kind = "stop" /\ child[c].state = "stopped"
    \/ child[c].stopping

(* The child is claimed, or the operation refused. *)
OpClaim ==
    /\ op.pc = "queued"
    /\ IF RefusedNow(op.kind, op.on)
       THEN op' = [pc |-> "idle"] /\ UNCHANGED child
       ELSE /\ op' = [op EXCEPT !.pc = "claimed", !.was = child[op.on].state]
            /\ child' = [child EXCEPT ![op.on].stopping = TRUE]
    /\ UNCHANGED <<token, procs, checks, reaping, reclaims, paused, closing, turns,
                   main, halt>>

(* Slip: a restart, which comes back at once, drains nothing. *)
OpBeginUndrained ==
    /\ op.pc = "claimed"
    /\ IF op.kind = "stop" /\ op.was \in Healthy /\ child[op.on].conn # 0
       THEN /\ op' = [op EXCEPT !.pc = "pause", !.drained = TRUE]
            /\ child' = [child EXCEPT ![op.on].state = "draining"]
       ELSE op' = [op EXCEPT !.pc = "stop"] /\ UNCHANGED child
    /\ UNCHANGED <<token, procs, checks, reaping, reclaims, paused, closing, turns,
                   main, halt>>

(* A running worker is drained first. *)
OpBegin ==
    /\ op.pc = "claimed"
    /\ IF op.kind # "start" /\ op.was \in Healthy /\ child[op.on].conn # 0
       THEN /\ op' = [op EXCEPT !.pc = "pause", !.drained = TRUE]
            /\ child' = [child EXCEPT ![op.on].state = "draining"]
       ELSE op' = [op EXCEPT !.pc = "stop"] /\ UNCHANGED child
    /\ UNCHANGED <<token, procs, checks, reaping, reclaims, paused, closing, turns,
                   main, halt>>

OpDrain ==
    /\ op.pc \in DrainPcs
    /\ \E to \in DrainPcs : DrainStep(op.on, op.pc, to) /\ op' = [op EXCEPT !.pc = to]
    /\ UNCHANGED <<child, token, procs, checks, reaping, reclaims, turns, main, halt>>

(* A drain that ran out: the operation is refused, the state restored. *)
OpRestore ==
    /\ op.pc = "undrained"
    /\ op' = [op EXCEPT !.pc = "finally"]
    /\ child' = [child EXCEPT ![op.on].state = IF @ = "draining" THEN op.was ELSE @]
    /\ UNCHANGED <<token, procs, checks, reaping, reclaims, paused, closing, turns,
                   main, halt>>

(* _stop: the process is asked, terminated, killed ... or that raises. *)
OpStop ==
    /\ op.pc \in {"stop", "drained"}
    /\ procs' = procs \ {Current(op.on)}
    /\ op' = [op EXCEPT !.pc = "retire"]
    /\ UNCHANGED <<child, token, checks, reaping, reclaims, paused, closing, turns,
                   main, halt>>

OpStopFails ==
    /\ op.pc \in {"stop", "drained"}
    /\ op' = [op EXCEPT !.pc = "finally"]
    /\ UNCHANGED <<child, token, procs, checks, reaping, reclaims, paused, closing,
                   turns, main, halt>>

OpRetire ==
    /\ op.pc = "retire"
    /\ token' = Retired(op.on, token)
    /\ op' = [op EXCEPT !.pc = "resume"]
    /\ UNCHANGED <<child, procs, checks, reaping, reclaims, paused, closing, turns,
                   main, halt>>

OpResume ==
    /\ op.pc = "resume"
    /\ paused' = paused \ {op.on} /\ closing' = closing \ {op.on}
    /\ op' = [op EXCEPT !.pc = "finish", !.drained = FALSE]
    /\ UNCHANGED <<child, token, procs, checks, reaping, reclaims, turns, main, halt>>

(* Slip: a restart under way is carried through. *)
StartsAgainAlways == op.kind # "stop"

(* Not after a stop, nor once the supervisor is shutting down. *)
StartsAgain == op.kind # "stop" /\ ~shutting_down

(* Stopped; then started again.  Only reviving a held-down child forgets    *)
(* its crashes.                                                             *)
OpFinish ==
    /\ op.pc = "finish"
    /\ op' = [op EXCEPT !.pc = "finally"]
    /\ LET c       == op.on
           crashes == IF op.was = "held_down" THEN 0 ELSE child[c].crashes
       IN  IF ~StartsAgain
           THEN /\ child' = [child EXCEPT ![c].state = "stopped"]
                /\ UNCHANGED <<token, procs>>
           ELSE \/ Spawn(c, crashes)
                \/ \E f \in FailedSpawns(c, crashes) :
                      /\ child' = [child EXCEPT ![c] =
                                      IF f.record.start = @.start
                                      THEN [f.record EXCEPT !.state = "stopped"]
                                      ELSE f.record]
                      /\ token' = f.tokens
                      /\ UNCHANGED procs
    /\ UNCHANGED <<checks, reaping, reclaims, paused, closing, turns, main, halt>>

(* The finally clause: a drained story is resumed if its stop raised, and   *)
(* the claim is dropped.                                                    *)
OpFinally ==
    /\ op.pc = "finally"
    /\ op' = [op EXCEPT !.pc = "release"]
    /\ paused' = IF op.drained THEN paused \ {op.on} ELSE paused
    /\ closing' = IF op.drained THEN closing \ {op.on} ELSE closing
    /\ UNCHANGED <<child, token, procs, checks, reaping, reclaims, turns, main, halt>>

OpRelease ==
    /\ op.pc = "release"
    /\ op' = [pc |-> "idle"]
    /\ child' = [child EXCEPT ![op.on].stopping = FALSE]
    /\ UNCHANGED <<token, procs, checks, reaping, reclaims, paused, closing, turns,
                   main, halt>>

OpSteps ==
    \/ OpClaim \/ OpBegin \/ OpDrain \/ OpRestore \/ OpStop \/ OpStopFails
    \/ OpRetire \/ OpResume \/ OpFinish \/ OpFinally \/ OpRelease

----------------------------------------------------------------------------
(* The shutdown, on the main thread once the ticking ended: a signal, the   *)
(* bus's end, or a front door held down (stop_event).                       *)

ShutdownAsked ==
    /\ main = "ticking"
    /\ main' = "stopping"
    /\ UNCHANGED <<child, token, procs, checks, reaping, reclaims, paused, closing,
                   turns, op, halt>>

(* Every child is marked; the running ones will be stopped. *)
MarkAll ==
    /\ main = "stopping"
    /\ main' = "workers"
    /\ child' = [c \in Children |-> [child[c] EXCEPT !.stopping = TRUE]]
    /\ halt' = [c \in Children |-> IF Alive(c) THEN "begin" ELSE "done"]
    /\ UNCHANGED <<token, procs, checks, reaping, reclaims, paused, closing, turns, op>>

(* one(child): each worker on a thread of its own, which may be late; then   *)
(* the front door, on the main thread.                                      *)
HaltBegin(c) ==
    /\ main = "door" \/ (c \in Workers /\ main \in {"workers", "killing"})
    /\ halt[c] = "begin"
    /\ halt' = [halt EXCEPT ![c] =
                   IF child[c].state \in Healthy /\ child[c].conn # 0
                   THEN "pause" ELSE "stop"]
    /\ UNCHANGED <<child, token, procs, checks, reaping, reclaims, paused, closing,
                   turns, op, main>>

HaltDrain(c) ==
    /\ halt[c] \in DrainPcs
    /\ \E to \in DrainPcs :
          DrainStep(c, halt[c], to) /\ halt' = [halt EXCEPT ![c] = to]
    /\ UNCHANGED <<child, token, procs, checks, reaping, reclaims, turns, op, main>>

(* Drained or not, it is stopped. *)
HaltStop(c) ==
    /\ halt[c] \in {"stop", "drained", "undrained"}
    /\ procs' = procs \ {Current(c)}
    /\ halt' = [halt EXCEPT ![c] = "retire"]
    /\ UNCHANGED <<child, token, checks, reaping, reclaims, paused, closing, turns,
                   op, main>>

(* Slip: a stop that raises ends the shutdown where it is. *)
HaltStopFailsUncaught(c) ==
    /\ halt[c] \in {"stop", "drained", "undrained"}
    /\ halt' = [halt EXCEPT ![c] = "none"]
    /\ UNCHANGED <<child, token, procs, checks, reaping, reclaims, paused, closing,
                   turns, op, main>>

(* ... or that raises, and the shutdown goes on without it. *)
HaltStopFails(c) ==
    /\ halt[c] \in {"stop", "drained", "undrained"}
    /\ halt' = [halt EXCEPT ![c] = "done"]
    /\ UNCHANGED <<child, token, procs, checks, reaping, reclaims, paused, closing,
                   turns, op, main>>

HaltRetire(c) ==
    /\ halt[c] = "retire"
    /\ token' = Retired(c, token)
    /\ halt' = [halt EXCEPT ![c] = "done"]
    /\ UNCHANGED <<child, procs, checks, reaping, reclaims, paused, closing, turns,
                   op, main>>

(* The main thread waits for the workers' threads until their deadline;     *)
(* the front door's stop is its own.                                        *)
NextPhase ==
    /\ \/ main = "workers" /\ main' = "door"
       \/ /\ main = "door" /\ main' = "killing"
          /\ FrontDoor \in Children => halt[FrontDoor] = "done"
    /\ UNCHANGED <<child, token, procs, checks, reaping, reclaims, paused, closing,
                   turns, op, halt>>

(* Whatever still runs is killed. *)
KillRest(c) ==
    /\ main = "killing" /\ halt[c] # "killed"
    /\ procs' = procs \ {Current(c)}
    /\ child' = [child EXCEPT ![c].state = "stopped"]
    /\ halt' = [halt EXCEPT ![c] = "killed"]
    /\ UNCHANGED <<token, checks, reaping, reclaims, paused, closing, turns, op, main>>

(* Slip: closed before the last of them is killed. *)
CloseEarly ==
    /\ main = "killing"
    /\ main' = "closed"
    /\ UNCHANGED <<child, token, procs, checks, reaping, reclaims, paused, closing,
                   turns, op, halt>>

(* close: the queue and the bus are closed, every connection with them. *)
Close ==
    /\ main = "killing" /\ \A c \in Children : halt[c] = "killed"
    /\ main' = "closed"
    /\ token' = [s \in Starts |->
                    IF token[s] \in {"live", "linked"} THEN "dead" ELSE token[s]]
    /\ child' = [c \in Children |-> [child[c] EXCEPT !.conn = 0]]
    /\ turns' = {}
    /\ UNCHANGED <<procs, checks, reaping, reclaims, paused, closing, op, halt>>

HaltOne(c) ==
    \/ HaltBegin(c) \/ HaltDrain(c) \/ HaltStop(c) \/ HaltStopFails(c)
    \/ HaltRetire(c)

ShutdownSteps ==
    \/ ShutdownAsked \/ MarkAll \/ NextPhase \/ Close
    \/ \E c \in Children : HaltOne(c) \/ KillRest(c)

----------------------------------------------------------------------------
TickSteps(c) == TickRespawn(c) \/ TickRespawnFails(c) \/ TickCrash(c) \/ TickCheck(c)

PoolSteps ==
    \/ \E j \in reaping : ReapStop(j) \/ ReapPolicy(j)
    \/ \E k \in checks : CheckBegins(k)
    \/ \E k \in checks, bus_ok, http_ok \in BOOLEAN : CheckEnds(k, bus_ok, http_ok)

StartSteps(c, n) ==
    \/ HelloAdmitted(c, n) \/ HelloAccepted(c, n) \/ OnHello(c, n) \/ OnClose(c, n)
    \/ Exits(c, n)

TurnSteps(c, n) ==
    \/ TurnStarts(c, n) \/ TurnEnds(c, n) \/ Reclaim(c, n)
    \/ \E ok \in BOOLEAN : ReclaimAnswered(c, n, ok)

Next ==
    \/ \E c \in Children : TickSteps(c) \/ Ready(c)
    \/ PoolSteps
    \/ \E c \in Children, n \in 1..MaxStarts : StartSteps(c, n) \/ TurnSteps(c, n)
    \/ \E kind \in Kinds, c \in Workers \cap Children : Submit(kind, c)
    \/ OpSteps
    \/ ShutdownSteps

Spec == Init /\ [][Next]_vars

----------------------------------------------------------------------------
(* A story is always one process, never two that write the same saves, and  *)
(* no other can join: a credential that could still be used is that of a    *)
(* child starting now, a crashed, stopped or held-down child's is cancelled.*)
OneStart ==
    /\ \A s, t \in procs : s[1] = t[1] => s = t
    /\ \A s \in Starts :
          token[s] \in {"unused", "admitted"} /\ ~shutting_down =>
              /\ s = Current(s[1])
              /\ child[s[1]].stopping \/ child[s[1]].state = "starting"

(* A child is only shown ready, or degraded, after its own start said so: a *)
(* late health check of another start must not count for it.                *)
ReadyAfterReady ==
    \A c \in Children : child[c].state \in Healthy => child[c].ready

(* An operation cuts no admitted turn of a running story, and no way        *)
(* through it -- a refused drain, a stop that raised, a start that failed,  *)
(* a crash meanwhile -- leaves a story refusing turns.                      *)
OperationsSpareTurns ==
    /\ op.pc \in {"stop", "drained"} /\ op.was \in Healthy /\ ~shutting_down =>
          Current(op.on) \notin turns
    /\ \A c \in paused \cup closing :
          shutting_down \/ (op.pc # "idle" /\ op.on = c)

(* Whoever works on a child -- the reaper, the operations thread -- works   *)
(* alone: the child is marked until it is done.                             *)
MarkedWhileWorked ==
    \A j \in reaping :
        ~shutting_down =>
            /\ child[j.on].stopping
            /\ \A i \in reaping : i.on = j.on => i = j
            /\ op.pc \notin {"idle", "queued"} => op.on # j.on

(* Held down, a child stays down until an operation or the shutdown.        *)
HeldDownStays ==
    [][\A c \in Children :
          child[c].state = "held_down" /\ child'[c].state # "held_down" =>
              shutting_down \/ (op.pc # "idle" /\ op.on = c)]_vars

(* From the shutdown's first moment nothing is started.                     *)
NothingRestarted ==
    [][shutting_down => \A c \in Children : child'[c].start = child[c].start]_vars

(* What is down for a reason stays down: no late tick, retry or operation   *)
(* starts it.                                                               *)
StaysDown == HeldDownStays /\ NothingRestarted

(* At the shutdown's end nothing runs, whatever else was under way.         *)
NothingLeftRunning == main = "closed" => procs = {}

(* The shutdown drains every worker: one it stops was drained first (its    *)
(* drain may have run out) unless it served no turn.                        *)
ShutdownDrains ==
    \A c \in Children : halt[c] = "stop" => Current(c) \notin turns

----------------------------------------------------------------------------
(* The threads run, and every wait of theirs has a timeout: the operations  *)
(* thread and the health pool,                                              *)
OperationFairness ==
    /\ WF_vars(OpSteps)
    /\ WF_vars(\E k \in checks : CheckBegins(k))

(* the main thread and the reaper, and stop_event once the front door is    *)
(* held down.                                                               *)
CrashFairness ==
    /\ \A c \in Children : WF_vars(TickCrash(c))
    /\ \A i \in ReapIds :
          WF_vars(\E j \in reaping : j.id = i /\ (ReapStop(j) \/ ReapPolicy(j)))
    /\ FrontDoor \in Children =>
          WF_vars(child[FrontDoor].state = "held_down" /\ ShutdownAsked)

ShutdownFairness ==
    /\ WF_vars(MarkAll \/ NextPhase \/ Close \/ \E c \in Children : KillRest(c))
    /\ FrontDoor \in Children => WF_vars(HaltOne(FrontDoor))

Fairness == OperationFairness /\ CrashFairness /\ ShutdownFairness

FairSpec == Spec /\ Fairness

(* A child that died is noticed: it is to be restarted, or down for a       *)
(* reason, or running again.                                                *)
EveryCrashHandled ==
    \A c \in Children :
        ~Alive(c) ~> Alive(c) \/ child[c].state \in {"restarting", "held_down", "stopped"}

(* The shutdown ends. *)
ShutdownEnds == shutting_down ~> main = "closed"

(* A front door held down ends the supervisor: an instance nobody can reach *)
(* is not kept.                                                             *)
FrontDoorDownEnds ==
    FrontDoor \in Children /\ child[FrontDoor].state = "held_down" ~> main = "closed"
=============================================================================
