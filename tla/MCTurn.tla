---------------------------------- MODULE MCTurn ----------------------------------
(* Two presses of one session, for TLC. *)
EXTENDS Turn

MCOn == [f \in Frames |-> IF f % 2 = 0 THEN {1, 2} ELSE {1}]

(* One window of the code is left out here, and only here: a press is read, *)
(* and tries its lock, in one go, and whoever waits takes the turnstile as  *)
(* soon as it is free.                                                      *)
PromptNext ==
    LET busy  == {p \in Presses : stage[p] \in {"arrived", "worded", "ready"}}
        waits == {p \in Presses : stage[p] = "waits"}
    IN  IF busy # {}
        THEN \E p \in busy : ReadsSentence(p) \/ ReadsIntent(p) \/ TriesLock(p)
        ELSE IF stile = NoPress /\ waits # {} THEN \E p \in waits : Turnstile(p)
        ELSE TurnNext

PromptSpec == TurnInit /\ [][PromptNext]_pressVars
=============================================================================
