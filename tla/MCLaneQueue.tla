---------------------------- MODULE MCLaneQueue ----------------------------
(* Small instances of the lane queue for TLC.  No operation of the queue    *)
(* reads `answers', so these instances send what is due before the next     *)
(* operation: every interleaving of sends leads to the same queue states.   *)
EXTENDS LaneQueue, TLC

CONSTANTS s1, s2, c1, c2, a1, narration, utility

MCStoryOf == (c1 :> s1) @@ (c2 :> s2)
MCInitialLimit == (narration :> 1) @@ (utility :> 0)
MCSizes == {0, 2}

SendFirst(N) == IF answers # {} THEN Sending ELSE N

(* Drains, model applies and the shutdown against the workers. *)
QueuePrompt == SendFirst(WorkerCalls \/ OperatorCalls \/ DeadlinePass)
=============================================================================
