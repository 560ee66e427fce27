--------------------------- MODULE MCWorkerLanes ---------------------------
(* Small instances of the workers and the queue between them for TLC. *)
EXTENDS WorkerLanes, TLC

CONSTANTS s1, s2, c1, c2, a1, narration, utility

MCStoryOf == (c1 :> s1) @@ (c2 :> s2)
MCInitialLimit == (narration :> 1) @@ (utility :> 1)

(* A turn with a utility call inside it in one story, a turn made for no    *)
(* account in another: the two compete for the one narration slot.          *)
MCWorkerOf == <<c1, c1, c2>>
MCLaneOf == <<narration, utility, narration>>
MCTurnOf == <<NoTurn, 1, NoTurn>>
MCTwoAccounts == <<a1, a1, NoAccount>>

(* Two turns in two stories, nothing else. *)
MCTwoWorkerOf == <<c1, c2>>
MCTwoLaneOf == <<narration, narration>>
MCTwoTurnOf == <<NoTurn, NoTurn>>
MCTwoPlayers == <<a1, NoAccount>>
=============================================================================
