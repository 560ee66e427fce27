----------------------------- MODULE MCSessions -----------------------------
(* Small instances of the session store for TLC. *)
EXTENDS Sessions, TLC

CONSTANTS r1, r2, q1, q2, saver, keeper

(* A resume between its first look at the account and its build; a thread   *)
(* that flushes a run already released.                                     *)
Loading(t) ==
    \/ thread[t].op = "resume" /\ thread[t].at \in {"start", "load", "build"}
    \/ thread[t].then = "load"
FlushesReleased(t) ==
    /\ thread[t].op \in {"create", "resume", "sweep"}
    /\ thread[t].on \in Builds /\ lock[thread[t].on] = Kept
    /\ thread[t].at \in {"checking", "writing", "marking"}

(* Five windows of the code are left out here, and only here.  A request    *)
(* looks at the store as soon as the gate let it in.                        *)
AtOnce(N) ==
    IF \E t \in Threads : thread[t].at = "in"
    THEN \E t \in Threads : thread[t].at = "in" /\ ThreadStep(t)
    (* A run's flush at its release is over before anybody else moves.      *)
    ELSE IF \E t \in Threads : FlushesReleased(t)
    THEN \E t \in Threads : FlushesReleased(t) /\ ThreadStep(t)
    (* A release with no end waiting for it changes nothing.                *)
    ELSE IF \E t \in Threads : thread[t].at = "hook" /\ ~sess[thread[t].on].ending
    THEN \E t \in Threads : thread[t].at = "hook" /\ AfterTurn(t)
    (* An end refused and the mark that replaces it are one step.           *)
    ELSE IF admin.at = "mark" THEN EndWhenDone
    ELSE N

(* Nothing is played on a run while it is resumed, and the flush before its *)
(* load does not fail.                                                      *)
Resumed ==
    \A t \in Threads : Loading(t) =>
        /\ \A b \in LiveBuilds : sess[b].run = thread[t].run /\ lock[b] = Free =>
                lock'[b] \in {Free, Kept, t}
        /\ ~(thread[t].at = "writing" /\ thread'[t].at = "marking")

(* The timer and the flush before a stop are not both at work: each does    *)
(* the same to a run, holding its lock.                                     *)
OneFlusher == thread'[Saver] = Idle \/ thread'[Keeper] = Idle

StorePrompt == AtOnce(Next) /\ Resumed /\ OneFlusher /\ UNCHANGED phone
=============================================================================
