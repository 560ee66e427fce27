---------------------------- MODULE MCSupervisor ----------------------------
(* Small instances of the supervisor for TLC. *)
EXTENDS Supervisor

CONSTANTS w1, door

(* Two windows of the code are left out here, and only here; the runs that  *)
(* keep them show what they let through.  The operations thread goes from   *)
(* the start it made to the end of its finally clause, and a health check   *)
(* submitted is begun, before anything else happens.                        *)
Due == {k \in checks : k.pc = "due"}

PromptNext ==
    IF op.pc \in {"finally", "release"} /\ ~child[op.on].stopping
    THEN OpFinally \/ OpRelease
    ELSE IF Due # {} THEN \E k \in Due : CheckBegins(k)
    ELSE Next

(* A shutdown comes while no reclaim is under way and nothing was started   *)
(* more than twice; until then a child may be started a third time.         *)
SupervisorNext ==
    /\ PromptNext
    /\ \/ main' = "ticking"
       \/ reclaims' = {} /\ \A c \in Children : child'[c].start <= 2
SupervisorSpec == Init /\ [][SupervisorNext]_vars

(* The windows open: crashes against an operation, health checks against a  *)
(* restart, an operation against the shutdown.                              *)
DrainNext == PromptNext /\ reclaims' = {}
DrainSpec == Init /\ [][DrainNext]_vars

CrashNext == Next /\ main' = "ticking" /\ checks' = {} /\ turns' = {}
CrashSpec == Init /\ [][CrashNext]_vars

LateCheckNext == Next /\ main' = "ticking" /\ turns' = {} /\ op'.pc = "idle"
LateCheckSpec == Init /\ [][LateCheckNext]_vars
=============================================================================
