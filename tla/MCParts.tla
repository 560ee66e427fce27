------------------------------ MODULE MCParts ------------------------------
(* The smaller components, side by side for TLC: a behaviour is one of the  *)
(* part chosen at its start; the others stay as they begin.                 *)
EXTENDS MCTurn, ModelApply, Saves, Doors, MediaJobs, LocalLanes, Promises, Plans

VARIABLE part

MCOwnerOf == <<1, 2>>
MCPriorityOf == <<0, 0>>

----------------------------------------------------------------------------
(* Three windows of the code are left out here, and only here.  While it   *)
(* is open whether the new settings stay, only the apply starts a worker    *)
(* under them; a crash is in the reaper's hands for less than the claim's   *)
(* deadline; and the tickets of the processes the rollback took down are    *)
(* freed before the lanes are resized.                                      *)
Undivided ==
    /\ layer = "new" /\ op.pc # "ended" =>
          \A w \in Workers :
              \/ config'[w] \in {config[w], "down"} \/ w \in op.restarted
              \/ op'.pc = "booting" /\ op'.on = w
    /\ op.stage = "take" /\ ~shutting_down =>
          \A w \in op.todo \ op'.todo : ~child[w].stopping
    /\ op.pc = "resize" /\ op.stage = "again" => \A w \in held : Alive(w)

----------------------------------------------------------------------------
Parts == {"apply", "saves", "doors", "media", "lanes", "turn", "promises",
          "plans"}

PartsInit ==
    /\ part \in Parts
    /\ ApplyInit /\ SavesInit /\ DoorsInit /\ MediaInit /\ LocalInit /\ TurnInit
    /\ PromisesInit /\ PlansInit
    (* What may vary at the start does so in the part chosen. *)
    /\ part # "apply" => layer = "old" /\ prev = "none" /\ \A w \in Workers : Alive(w)
    /\ part # "turn" => ~gated

Others(p, state) == part # p => UNCHANGED state

PartsNext ==
    /\ part' = part
    /\ \/ part = "apply" /\ ApplyNext /\ Undivided
       \/ part = "saves" /\ SavesNext
       \/ part = "doors" /\ DoorsNext
       \/ part = "media" /\ MediaNext
       \/ part = "lanes" /\ LocalNext
       \/ part = "turn" /\ PromptNext
       \/ part = "promises" /\ PromisesNext
       \/ part = "plans" /\ PlansNext
    /\ Others("apply", applyVars) /\ Others("saves", savesVars)
    /\ Others("doors", doorsVars) /\ Others("media", mediaVars)
    /\ Others("lanes", localVars) /\ Others("turn", pressVars)
    /\ Others("promises", promisesVars) /\ Others("plans", plansVars)

partsVars == <<part, applyVars, savesVars, doorsVars, mediaVars, localVars, pressVars,
              promisesVars, plansVars>>

PartsSpec == PartsInit /\ [][PartsNext]_partsVars
=============================================================================
