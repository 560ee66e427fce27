------------------------------ MODULE ApplyProofs ------------------------------
(***************************************************************************)
(* Theorems about a change of the model settings (ModelApply.tla), for any  *)
(* workers, crashes and restarts.                                           *)
(*                                                                          *)
(* That nothing is held back, and that the file in force is the one the     *)
(* outcome says, needs no hypothesis: ApplyInv says where the apply can be, *)
(* what the files are there and whose each worker is.                       *)
(*                                                                          *)
(* That every worker and the lanes are under that file needs three windows  *)
(* of the code shut (Undivided; each is necessary).  Then a worker under    *)
(* the new file is one the apply started (NewTold), the rollback takes all  *)
(* of those down before the old file is back (TakenTold), nobody who is not *)
(* restarted plays (Quiet), so no ticket is held when the lanes are resized *)
(* (ResizedIs).                                                             *)
(*                                                                          *)
(* How a step moves the apply and a worker is said once (MovesBy, WorkerIs) *)
(* and used everywhere.                                                     *)
(***************************************************************************)
EXTENDS ModelApply, TLAPS

(* Before the new file is in force, while workers restart, and at the end. *)
Early == {"queued", "drain", "draining", "write"}
Restarting == {"next", "down", "up", "booting"}
Over == {"finally", "release", "ended"}

(* What every variable holds. *)
Layers == {"none", "old", "new", "stale"}
ApplyPcs == {"reload", "resize", "rollback"} \cup Early \cup Restarting \cup Over
Outcomes == {"none", "refused", "done", "next_start", "rolled_back", "failed"}
Applies ==
    [pc : ApplyPcs, stage : {"apply", "take", "again"}, todo : SUBSET Workers,
     on : Workers \cup {NoWorker}, restarted : SUBSET Workers, had_prev : BOOLEAN,
     outcome : Outcomes]
KnownAs ==
    [state : {"starting", "up", "stopped", "restarting", "held_down"}, stopping : BOOLEAN,
     applying : BOOLEAN, crashed : Nat]

ApplyTypes ==
    /\ layer \in Layers /\ prev \in Layers /\ loaded \in Layers
    /\ child \in [Workers -> KnownAs]
    /\ config \in [Workers -> Layers \cup {"down", "unread"}]
    /\ held \subseteq Workers /\ paused \subseteq Workers /\ closing \subseteq Workers
    /\ claimed \subseteq Workers /\ pausedAll \in BOOLEAN /\ shutting_down \in BOOLEAN
    /\ op \in Applies /\ (op.pc \in {"down", "up", "booting"} => op.on \in Workers)

(* Where a step of the apply leaves it.                                     *)
OpBecomes(pc, stage, todo, on, restarted, outcome) ==
    /\ op'.pc = pc /\ op'.stage = stage /\ op'.todo = todo /\ op'.on = on
    /\ op'.restarted = restarted /\ op'.outcome = outcome /\ op' \in Applies

OpGoes(pc) == OpBecomes(pc, op.stage, op.todo, op.on, op.restarted, op.outcome)
OpEnds(outcome) == OpBecomes("finally", op.stage, op.todo, op.on, op.restarted, outcome)
OpFails ==
    \/ op.stage # "apply" /\ OpEnds("failed")
    \/ op.stage = "apply" /\ shutting_down /\ OpEnds("next_start")
    \/ op.stage = "apply" /\ ~shutting_down
       /\ OpBecomes("rollback", op.stage, op.todo, NoWorker, op.restarted, op.outcome)
Less(w) == op.todo \ {w}

(* Every step of the apply: where from and where to. *)
Moves ==
    \/ Validate /\ op.pc = "queued" /\ (OpEnds("refused") \/ OpGoes("drain"))
    \/ Drain /\ op.pc = "drain" /\ OpGoes("draining")
    \/ DrainTimesOut /\ op.pc = "draining" /\ OpEnds("refused")
    \/ Drained /\ op.pc = "draining" /\ OpGoes("write")
    \/ Write /\ op.pc = "write" /\ OpGoes("reload")
    \/ WriteFails /\ op.pc = "write" /\ OpEnds("refused")
    \/ Reload /\ op.pc = "reload"
         /\ ((OpGoes("resize") /\ loaded' = layer /\ layer' = layer) \/ (OpEnds("refused") /\ RestoreNow))
    \/ Resize /\ op.pc = "resize" /\ OpGoes("next")
    \/ \E w \in Workers : w \in op.todo /\ op.pc = "next" /\
          \/ Skip(w) /\ op.stage # "again"
               /\ OpBecomes("next", op.stage, Less(w), op.on, op.restarted, op.outcome)
          \/ Claim(w) /\ op.stage # "again"
               /\ OpBecomes("down", op.stage, Less(w), w, op.restarted, op.outcome)
          \/ ClaimTimesOut(w) /\ op.stage = "apply" /\ OpFails
          \/ ClaimTimesOut(w) /\ op.stage = "take"
               /\ OpBecomes("next", op.stage, Less(w), op.on, op.restarted, op.outcome)
          \/ Again(w) /\ op.stage = "again"
               /\ OpBecomes("up", op.stage, Less(w), w, op.restarted, op.outcome)
    \/ TakeDown /\ op.pc = "down" /\ OpGoes(IF op.stage = "apply" THEN "up" ELSE "next")
    \/ TakeDownFails /\ op.pc = "down" /\ OpFails
    \/ BringUp /\ op.pc = "up" /\ OpGoes("booting")
    \/ (StartFails \/ BootFails) /\ op.stage = "again" /\ OpGoes("next")
    \/ (StartFails \/ BootFails) /\ op.stage # "again" /\ OpFails
    \/ Booted /\ op.pc = "booting"
         /\ OpBecomes("next", op.stage, op.todo, op.on,
                      IF op.stage = "apply" THEN op.restarted \cup {op.on} ELSE op.restarted,
                      op.outcome)
    \/ AllRestarted /\ op.pc = "next" /\ op.stage = "apply" /\ op.todo = {} /\ OpEnds("done")
    \/ RollbackBegins /\ op.pc = "rollback"
         /\ OpBecomes("next", "take", op.restarted, op.on, op.restarted, op.outcome)
    \/ Restore /\ op.pc = "next" /\ op.stage = "take" /\ op.todo = {}
         /\ OpBecomes("resize", "again", {w \in claimed : ~Alive(w)}, op.on, op.restarted, op.outcome)
    \/ RestoreFails /\ op.pc = "next" /\ op.stage = "take" /\ OpEnds("failed")
    \/ RolledBack /\ op.pc = "next" /\ op.stage = "again" /\ op.todo = {} /\ OpEnds("rolled_back")
    \/ Finally /\ op.pc = "finally" /\ OpGoes("release")
    \/ ReleaseAll /\ op.pc = "release" /\ OpGoes("ended")

(* The three ways a step of the apply ends: it goes on, ... *)
LEMMA GoesIs == ASSUME op \in Applies, NEW pc \in ApplyPcs, Goes(pc) PROVE OpGoes(pc) /\ op'.had_prev = op.had_prev
BY DEF Goes, OpGoes, OpBecomes, Applies

(* ... it ends, ... *)
LEMMA EndsIs == ASSUME op \in Applies, NEW o \in Outcomes, Ends(o) PROVE OpEnds(o) /\ op'.had_prev = op.had_prev
<1>1. "finally" \in ApplyPcs
  BY DEF ApplyPcs, Over
<1> QED BY <1>1 DEF Ends, OpEnds, OpBecomes, Applies

(* ... or a failure leads it to the end or to the rollback. *)
LEMMA FailureIs == ASSUME op \in Applies, Failure PROVE OpFails /\ op'.had_prev = op.had_prev
<1>1. "rollback" \in ApplyPcs /\ {"failed", "next_start"} \subseteq Outcomes
  BY DEF ApplyPcs, Outcomes
<1>2. CASE op.stage # "apply" \/ shutting_down
  BY <1>1, <1>2, EndsIs DEF Failure, OpFails
<1>3. CASE op.stage = "apply" /\ ~shutting_down
  <2>1. op' = [op EXCEPT !.pc = "rollback", !.on = NoWorker]
    BY <1>3 DEF Failure
  <2> QED BY <1>1, <1>3, <2>1 DEF OpFails, OpBecomes, Applies
<1> QED BY <1>2, <1>3

(* The apply moves so, and notes only at the write whether there was a file. *)
LEMMA MovesBy ==
    ASSUME ApplyTypes, Apply
    PROVE  Moves /\ (Write \/ op'.had_prev = op.had_prev)
<1>0. op \in Applies
  BY DEF ApplyTypes
<1>a. /\ ApplyPcs = {"reload", "resize", "rollback", "queued", "drain", "draining", "write", "next", "down", "up",
                     "booting", "finally", "release", "ended"}
      /\ "refused" \in Outcomes /\ "done" \in Outcomes /\ "rolled_back" \in Outcomes /\ "failed" \in Outcomes
  BY DEF ApplyPcs, Early, Restarting, Over, Outcomes
<1>1. CASE Validate
  BY <1>0, <1>a, <1>1, GoesIs, EndsIs DEF Validate, Moves
<1>2. CASE Drain
  BY <1>0, <1>a, <1>2, GoesIs DEF Drain, Moves
<1>3. CASE DrainTimesOut
  BY <1>0, <1>a, <1>3, EndsIs DEF DrainTimesOut, Moves
<1>4. CASE Drained
  BY <1>0, <1>a, <1>4, GoesIs DEF Drained, Moves
<1>5. CASE Write
  <2>1. op' = [op EXCEPT !.pc = "reload", !.had_prev = layer # "none"] /\ op.pc = "write"
    BY <1>5 DEF Write
  <2>2. OpGoes("reload")
    BY <1>0, <1>a, <2>1 DEF OpGoes, OpBecomes, Applies
  <2> QED BY <1>5, <2>1, <2>2 DEF Moves
<1>6. CASE WriteFails
  BY <1>0, <1>a, <1>6, EndsIs DEF WriteFails, Moves
<1>7. CASE Reload
  BY <1>0, <1>a, <1>7, GoesIs, EndsIs DEF Reload, Moves
<1>8. CASE Resize
  BY <1>0, <1>a, <1>8, GoesIs DEF Resize, Moves
<1>9. ASSUME NEW w \in Workers, Skip(w) PROVE Moves /\ op'.had_prev = op.had_prev
  <2>1. op' = [op EXCEPT !.todo = Less(w)] /\ op.pc = "next" /\ op.stage # "again" /\ w \in op.todo
    BY <1>9 DEF Skip, Looks, Less
  <2>2. OpBecomes("next", op.stage, Less(w), op.on, op.restarted, op.outcome) /\ op'.had_prev = op.had_prev
    BY <1>0, <1>a, <2>1 DEF OpBecomes, Applies, Less
  <2> QED BY <1>9, <2>1, <2>2 DEF Moves
<1>10. ASSUME NEW w \in Workers, Claim(w) PROVE Moves /\ op'.had_prev = op.had_prev
  <2>1. op' = [op EXCEPT !.pc = "down", !.todo = Less(w), !.on = w] /\ op.pc = "next" /\ op.stage # "again"
        /\ w \in op.todo
    BY <1>10 DEF Claim, Looks, Less
  <2>2. OpBecomes("down", op.stage, Less(w), w, op.restarted, op.outcome) /\ op'.had_prev = op.had_prev
    BY <1>0, <1>a, <2>1 DEF OpBecomes, Applies, Less
  <2> QED BY <1>10, <2>1, <2>2 DEF Moves
<1>11. ASSUME NEW w \in Workers, ClaimTimesOut(w) PROVE Moves /\ op'.had_prev = op.had_prev
  <2>0. op.pc = "next" /\ op.stage # "again" /\ w \in op.todo /\ op.stage \in {"apply", "take"}
    BY <1>0, <1>11 DEF ClaimTimesOut, Looks, Applies
  <2>1. CASE op.stage = "apply"
    <3>1. OpFails /\ op'.had_prev = op.had_prev
      BY <1>0, <1>11, <2>1, FailureIs DEF ClaimTimesOut
    <3> QED BY <1>11, <2>0, <2>1, <3>1 DEF Moves
  <2>2. CASE op.stage = "take"
    <3>1. op' = [op EXCEPT !.todo = Less(w)]
      BY <1>11, <2>2 DEF ClaimTimesOut, Less
    <3>2. OpBecomes("next", op.stage, Less(w), op.on, op.restarted, op.outcome) /\ op'.had_prev = op.had_prev
      BY <1>0, <1>a, <2>0, <3>1 DEF OpBecomes, Applies, Less
    <3> QED BY <1>11, <2>0, <2>2, <3>2 DEF Moves
  <2> QED BY <2>0, <2>1, <2>2
<1>12. ASSUME NEW w \in Workers, Again(w) PROVE Moves /\ op'.had_prev = op.had_prev
  <2>1. op' = [op EXCEPT !.pc = "up", !.on = w, !.todo = Less(w)] /\ op.pc = "next" /\ op.stage = "again"
        /\ w \in op.todo
    BY <1>12 DEF Again, Less
  <2>2. OpBecomes("up", op.stage, Less(w), w, op.restarted, op.outcome) /\ op'.had_prev = op.had_prev
    BY <1>0, <1>a, <2>1 DEF OpBecomes, Applies, Less
  <2> QED BY <1>12, <2>1, <2>2 DEF Moves
<1>13. CASE TakeDown
  BY <1>0, <1>a, <1>13, GoesIs DEF TakeDown, Moves
<1>14. CASE TakeDownFails
  BY <1>0, <1>14, FailureIs DEF TakeDownFails, Moves
<1>15. CASE BringUp
  BY <1>0, <1>a, <1>15, GoesIs DEF BringUp, Moves
<1>16. CASE StartFails \/ BootFails
  <2>1. BootFailed
    BY <1>16 DEF StartFails, BootFails
  <2> QED BY <1>0, <1>a, <1>16, <2>1, GoesIs, FailureIs DEF BootFailed, Moves
<1>17. CASE Booted
  <2> DEFINE now == IF op.stage = "apply" THEN op.restarted \cup {op.on} ELSE op.restarted
  <2>1. op' = [op EXCEPT !.pc = "next", !.restarted = now] /\ op.pc = "booting"
    BY <1>17 DEF Booted
  <2>2. now \subseteq Workers
    <3>1. op.on \in Workers
      BY <1>17 DEF Booted, ApplyTypes
    <3> QED BY <1>0, <3>1 DEF Applies
  <2> HIDE DEF now
  <2>3. OpBecomes("next", op.stage, op.todo, op.on, now, op.outcome) /\ op'.had_prev = op.had_prev
    BY <1>0, <1>a, <2>1, <2>2 DEF OpBecomes, Applies
  <2> QED BY <1>17, <2>1, <2>3 DEF Moves, now
<1>18. CASE AllRestarted \/ RestoreFails \/ RolledBack
  BY <1>0, <1>a, <1>18, EndsIs DEF AllRestarted, RestoreFails, RolledBack, Moves
<1>19. CASE RollbackBegins
  <2>1. op' = [op EXCEPT !.pc = "next", !.stage = "take", !.todo = op.restarted] /\ op.pc = "rollback"
    BY <1>19 DEF RollbackBegins
  <2>2. OpBecomes("next", "take", op.restarted, op.on, op.restarted, op.outcome) /\ op'.had_prev = op.had_prev
    BY <1>0, <1>a, <2>1 DEF OpBecomes, Applies
  <2> QED BY <1>19, <2>1, <2>2 DEF Moves
<1>20. CASE Restore
  <2> DEFINE gone == {w \in claimed : ~Alive(w)}
  <2>1. op' = [op EXCEPT !.pc = "resize", !.stage = "again", !.todo = gone]
        /\ op.pc = "next" /\ op.stage = "take" /\ op.todo = {} /\ gone \subseteq Workers
    BY <1>20 DEF Restore, ApplyTypes
  <2> HIDE DEF gone
  <2>2. OpBecomes("resize", "again", gone, op.on, op.restarted, op.outcome) /\ op'.had_prev = op.had_prev
    BY <1>0, <1>a, <2>1 DEF OpBecomes, Applies
  <2> QED BY <1>20, <2>1, <2>2 DEF Moves, gone
<1>21. CASE Finally \/ ReleaseAll
  BY <1>0, <1>a, <1>21, GoesIs DEF Finally, ReleaseAll, Moves
<1> QED BY <1>1, <1>2, <1>3, <1>4, <1>5, <1>6, <1>7, <1>8, <1>9, <1>10, <1>11, <1>12, <1>13, <1>14, <1>15,
           <1>16, <1>17, <1>18, <1>19, <1>20, <1>21 DEF Apply

(* What a step makes of a worker.                                           *)
Becomes(w, state, stopping, applying, layer_of) ==
    /\ child'[w].state = state /\ child'[w].stopping = stopping
    /\ child'[w].applying = applying /\ config'[w] = layer_of

Stays(w) ==
    /\ Becomes(w, child[w].state, child[w].stopping, child[w].applying, config[w])
    /\ w \in claimed' <=> w \in claimed

(* Its process, the tick and the reaper; ... *)
OnItsOwn(w) ==
    \/ ReadsConfig(w) /\ config[w] = "unread"
         /\ Becomes(w, child[w].state, child[w].stopping, child[w].applying, layer)
    \/ Dies(w) /\ Becomes(w, child[w].state, child[w].stopping, child[w].applying, "down")
    \/ TickCrash(w) /\ ~Ours(w) /\ ~Alive(w) /\ child[w].state \in {"starting", "up"} /\ ~shutting_down
         /\ Becomes(w, child[w].state, TRUE, child[w].applying, config[w])
    \/ Reap(w) /\ ~child[w].applying /\ w \notin claimed /\ ~Alive(w)
         /\ \E state \in {"stopped", "held_down", "restarting"} :
               /\ shutting_down <=> state = "stopped"
               /\ Becomes(w, state, FALSE, child[w].applying, config[w])
    \/ TickRespawn(w) /\ ~Ours(w) /\ child[w].state = "restarting"
         /\ Becomes(w, "starting", FALSE, child[w].applying, "unread")
    \/ TickReady(w) /\ ~Ours(w) /\ child[w].state = "starting" /\ Alive(w)
         /\ Becomes(w, "up", child[w].stopping, child[w].applying, config[w])

(* ... the apply, at its worker or at its end. *)
Restarted(w) ==
    \/ Claim(w) /\ Looks(w) /\ ~child[w].stopping
         /\ Becomes(w, child[w].state, TRUE, TRUE, config[w])
    \/ /\ op.on = w
       /\ \/ TakeDown /\ Becomes(w, "stopped", child[w].stopping, child[w].applying, "down")
          \/ BringUp /\ Becomes(w, "starting", FALSE, child[w].applying, "unread")
          \/ StartFails /\ Becomes(w, "stopped", TRUE, child[w].applying, config[w])
          \/ Booted /\ Becomes(w, "up", FALSE, FALSE, config[w])
          \/ BootFails /\ Becomes(w, "stopped", TRUE, child[w].applying, "down")
    \/ /\ ReleaseAll /\ w \in claimed
       /\ \/ /\ ~Alive(w) /\ child[w].state = "stopped" /\ ~shutting_down
             /\ \E state \in {"held_down", "restarting"} : Becomes(w, state, FALSE, FALSE, config[w])
          \/ /\ ~(~Alive(w) /\ child[w].state = "stopped" /\ ~shutting_down)
             /\ Becomes(w, child[w].state, FALSE, FALSE, config[w])

Touched(w) ==
    \/ Stays(w) \/ OnItsOwn(w) \/ Restarted(w)
    \/ ShutdownAsked /\ Becomes(w, child[w].state, TRUE, child[w].applying, config[w])

(* _apply_policy: the mark goes, and the child is stopped (in a shutdown),   *)
(* held down or due to restart.                                              *)
LEMMA CrashIs ==
    ASSUME NEW r \in KnownAs
    PROVE  LET n == AfterCrash(r)
           IN  /\ n \in KnownAs /\ n.stopping = FALSE /\ n.applying = r.applying
               /\ n.state \in {"stopped", "held_down", "restarting"}
               /\ shutting_down <=> n.state = "stopped"
<1>1. r.crashed \in Nat /\ r.crashed + 1 \in Nat
  BY DEF KnownAs
<1> QED BY <1>1 DEF AfterCrash, KnownAs

(* _release_all: so is a worker left stopped; any other keeps its state. *)
LEMMA LetGoIs ==
    ASSUME ApplyTypes, NEW w \in Workers
    PROVE  /\ LetGo(w) \in KnownAs /\ LetGo(w).stopping = FALSE /\ LetGo(w).applying = FALSE
           /\ IF ~Alive(w) /\ child[w].state = "stopped" /\ ~shutting_down
              THEN LetGo(w).state \in {"held_down", "restarting"}
              ELSE LetGo(w).state = child[w].state
<1> DEFINE r == [child[w] EXCEPT !.applying = FALSE]
<1>1. r \in KnownAs /\ r.state = child[w].state /\ r.applying = FALSE
  BY DEF ApplyTypes, KnownAs
<1>2. LetGo(w) = IF ~Alive(w) /\ r.state = "stopped" /\ ~shutting_down THEN AfterCrash(r)
                 ELSE [r EXCEPT !.stopping = FALSE]
  BY DEF LetGo
<1> HIDE DEF r
<1>3. CASE ~Alive(w) /\ r.state = "stopped" /\ ~shutting_down
  <2>1. AfterCrash(r) \in KnownAs /\ AfterCrash(r).stopping = FALSE /\ AfterCrash(r).applying = FALSE
        /\ AfterCrash(r).state \in {"stopped", "held_down", "restarting"}
        /\ (shutting_down <=> AfterCrash(r).state = "stopped")
    BY <1>1, CrashIs
  <2> QED BY <1>1, <1>2, <1>3, <2>1
<1>4. CASE ~(~Alive(w) /\ r.state = "stopped" /\ ~shutting_down)
  <2>1. LetGo(w) = [r EXCEPT !.stopping = FALSE]
    BY <1>2, <1>4
  <2> QED BY <1>1, <1>4, <2>1 DEF KnownAs
<1> QED BY <1>3, <1>4

(* Every step keeps the types. *)
LEMMA ApplyTypesStep == ApplyTypes /\ [ApplyNext]_applyVars => ApplyTypes'
<1> SUFFICES ASSUME ApplyTypes, [ApplyNext]_applyVars PROVE ApplyTypes'
  OBVIOUS
<1>a. ASSUME NEW w \in Workers, NEW r \in KnownAs, child' = [child EXCEPT ![w] = r]
      PROVE  child' \in [Workers -> KnownAs]
  BY <1>a DEF ApplyTypes
<1>b. ASSUME NEW w \in Workers, NEW l \in Layers \cup {"down", "unread"}, config' = [config EXCEPT ![w] = l]
      PROVE  config' \in [Workers -> Layers \cup {"down", "unread"}]
  BY <1>b DEF ApplyTypes
<1>c. \A w \in Workers : child[w] \in KnownAs
  BY DEF ApplyTypes
<1>1. layer' \in Layers /\ prev' \in Layers /\ loaded' \in Layers
  <2>1. Restored \in Layers
    BY DEF Restored, ApplyTypes, Layers
  <2>2. \/ UNCHANGED files \/ Write \/ WriteFails \/ Reload \/ Restore \/ Resize
    BY DEF ApplyNext, Apply, Worker, TurnStarts, TurnEnds, ReadsConfig, Dies, TickCrash, Reap, TickRespawn,
           TickReady, ShutdownAsked, Validate, Drain, DrainTimesOut, Drained, Skip, Claim, ClaimTimesOut, Again,
           TakeDown, TakeDownFails, BringUp, StartFails, Booted, BootFails, AllRestarted, RollbackBegins,
           RestoreFails, RolledBack, Finally, ReleaseAll, applyVars, files
  <2> QED BY <2>1, <2>2 DEF files, Write, WriteFails, Reload, Restore, Resize, RestoreNow, ApplyTypes, Layers
<1>2. child' \in [Workers -> KnownAs]
  <2>1. \/ UNCHANGED child \/ ShutdownAsked \/ ReleaseAll \/ TakeDown \/ BringUp \/ StartFails \/ Booted \/ BootFails
        \/ \E w \in Workers : TickCrash(w) \/ Reap(w) \/ TickRespawn(w) \/ TickReady(w) \/ Claim(w)
    BY DEF ApplyNext, Apply, Worker, TurnStarts, TurnEnds, ReadsConfig, Dies,
           Validate, Drain, DrainTimesOut, Drained, Write, WriteFails, Reload, Resize, Skip, ClaimTimesOut, Again,
           TakeDownFails, AllRestarted, RollbackBegins, Restore,
           RestoreFails, RolledBack, Finally, applyVars
  <2>2. CASE UNCHANGED child
    BY <2>2 DEF ApplyTypes
  <2>3. CASE ShutdownAsked
    <3>1. child' = [w \in Workers |-> [child[w] EXCEPT !.stopping = TRUE]]
      BY <2>3 DEF ShutdownAsked
    <3>2. \A w \in Workers : [child[w] EXCEPT !.stopping = TRUE] \in KnownAs
      BY <1>c DEF KnownAs
    <3> QED BY <3>1, <3>2
  <2>4. CASE ReleaseAll
    <3>1. child' = [w \in Workers |-> IF w \in claimed THEN LetGo(w) ELSE child[w]]
      BY <2>4 DEF ReleaseAll
    <3> QED BY <1>c, <3>1, LetGoIs
  <2>5. CASE TakeDown \/ BringUp \/ StartFails \/ Booted \/ BootFails
    <3>1. op.on \in Workers /\ child[op.on] \in KnownAs
      BY <1>c, <2>5 DEF TakeDown, BringUp, StartFails, Booted, BootFails, ApplyTypes
    <3> DEFINE r == child[op.on]
    <3>2. \/ child' = [child EXCEPT ![op.on] = [r EXCEPT !.state = "stopped"]]
          \/ child' = [child EXCEPT ![op.on] = [r EXCEPT !.state = "starting", !.stopping = FALSE]]
          \/ child' = [child EXCEPT ![op.on] = [r EXCEPT !.state = "stopped", !.stopping = TRUE]]
          \/ child' = [child EXCEPT ![op.on] = [r EXCEPT !.state = "up", !.applying = FALSE, !.stopping = FALSE]]
      BY <2>5, <3>1 DEF TakeDown, BringUp, Spawned, StartFails, Booted, BootFails, ApplyTypes
    <3>3. /\ [r EXCEPT !.state = "stopped"] \in KnownAs
          /\ [r EXCEPT !.state = "starting", !.stopping = FALSE] \in KnownAs
          /\ [r EXCEPT !.state = "stopped", !.stopping = TRUE] \in KnownAs
          /\ [r EXCEPT !.state = "up", !.applying = FALSE, !.stopping = FALSE] \in KnownAs
      BY <3>1 DEF KnownAs
    <3> HIDE DEF r
    <3> QED BY <1>a, <3>1, <3>2, <3>3
  <2>6. ASSUME NEW w \in Workers, TickCrash(w) \/ Reap(w) \/ TickRespawn(w) \/ TickReady(w) \/ Claim(w)
        PROVE  child' \in [Workers -> KnownAs]
    <3> DEFINE r == child[w]
    <3>1. r \in KnownAs /\ AfterCrash(r) \in KnownAs
      BY <1>c, CrashIs
    <3>2. \/ child' = [child EXCEPT ![w] = [r EXCEPT !.stopping = TRUE]]
          \/ child' = [child EXCEPT ![w] = AfterCrash(r)]
          \/ child' = [child EXCEPT ![w] = [r EXCEPT !.state = "starting", !.stopping = FALSE]]
          \/ child' = [child EXCEPT ![w] = [r EXCEPT !.state = "up"]]
          \/ child' = [child EXCEPT ![w] = [r EXCEPT !.stopping = TRUE, !.applying = TRUE]]
      <4>1. CASE TickCrash(w)
        BY <4>1 DEF TickCrash, ApplyTypes
      <4>2. CASE Reap(w)
        BY <4>2 DEF Reap, ApplyTypes
      <4>3. CASE TickRespawn(w)
        BY <4>3 DEF TickRespawn, Spawned, ApplyTypes
      <4>4. CASE TickReady(w)
        BY <4>4 DEF TickReady, ApplyTypes
      <4>5. CASE Claim(w)
        BY <4>5 DEF Claim, ApplyTypes
      <4> QED BY <2>6, <4>1, <4>2, <4>3, <4>4, <4>5
    <3>3. /\ [r EXCEPT !.stopping = TRUE] \in KnownAs
          /\ [r EXCEPT !.state = "starting", !.stopping = FALSE] \in KnownAs
          /\ [r EXCEPT !.state = "up"] \in KnownAs
          /\ [r EXCEPT !.stopping = TRUE, !.applying = TRUE] \in KnownAs
      BY <3>1 DEF KnownAs
    <3> HIDE DEF r
    <3> QED BY <1>a, <3>1, <3>2, <3>3
  <2> QED BY <2>1, <2>2, <2>3, <2>4, <2>5, <2>6
<1>3. config' \in [Workers -> Layers \cup {"down", "unread"}]
  <2>1. \/ UNCHANGED config \/ TakeDown \/ BringUp \/ BootFails
        \/ \E w \in Workers : ReadsConfig(w) \/ Dies(w) \/ TickRespawn(w)
    BY DEF ApplyNext, Apply, Worker, TurnStarts, TurnEnds, TickCrash, Reap, TickReady, ShutdownAsked,
           Validate, Drain, DrainTimesOut, Drained, Write, WriteFails, Reload, Resize, Skip, Claim, ClaimTimesOut,
           Again, TakeDownFails, StartFails, Booted, AllRestarted, RollbackBegins, Restore,
           RestoreFails, RolledBack, Finally, ReleaseAll, applyVars
  <2>2. ASSUME TakeDown \/ BringUp \/ BootFails PROVE op.on \in Workers
    BY <2>2 DEF TakeDown, BringUp, BootFails, ApplyTypes
  <2> QED BY <1>b, <2>1, <2>2 DEF TakeDown, BringUp, BootFails, Spawned, ReadsConfig, Dies, TickRespawn, ApplyTypes
<1>4. held' \subseteq Workers
  <2>1. UNCHANGED held \/ \E w \in Workers : TurnStarts(w) \/ TurnEnds(w)
    BY DEF ApplyNext, Apply, Worker, ReadsConfig, Dies, TickCrash, Reap, TickRespawn, TickReady, ShutdownAsked,
           Validate, Drain, DrainTimesOut, Drained, Write, WriteFails, Reload, Resize, Skip, Claim, ClaimTimesOut,
           Again, TakeDown, TakeDownFails, BringUp, StartFails, Booted, BootFails, AllRestarted, RollbackBegins,
           Restore, RestoreFails, RolledBack, Finally, ReleaseAll, applyVars
  <2> QED BY <2>1 DEF TurnStarts, TurnEnds, ApplyTypes
<1>5. paused' \subseteq Workers /\ closing' \subseteq Workers /\ pausedAll' \in BOOLEAN
  <2>1. \/ UNCHANGED pauses \/ PauseAll \/ NarrowPause \/ ResumeAll \/ (\E w : Resume(w))
        \/ ((TakeDown \/ TakeDownFails) /\ closing' = closing \cup {op.on} /\ UNCHANGED <<pausedAll, paused>>)
    BY DEF ApplyNext, Apply, Worker, TurnStarts, TurnEnds, ReadsConfig, Dies, TickCrash, Reap, TickRespawn,
           TickReady, ShutdownAsked, Validate, Drain, DrainTimesOut, Drained, Write, WriteFails, Reload, Resize,
           Skip, Claim, ClaimTimesOut, Again, TakeDown, TakeDownFails, BringUp, StartFails, Booted, BootFails,
           BootFailed, AllRestarted, RollbackBegins, Restore, RestoreFails, RolledBack, Finally, ReleaseAll,
           applyVars, pauses
  <2>2. ASSUME TakeDown \/ TakeDownFails PROVE op.on \in Workers
    BY <2>2 DEF TakeDown, TakeDownFails, ApplyTypes
  <2> QED BY <2>1, <2>2 DEF pauses, PauseAll, NarrowPause, ResumeAll, Resume, ApplyTypes
<1>6. claimed' \subseteq Workers
  <2>1. UNCHANGED claimed \/ Booted \/ ReleaseAll \/ \E w \in Workers : Claim(w)
    BY DEF ApplyNext, Apply, Worker, TurnStarts, TurnEnds, ReadsConfig, Dies, TickCrash, Reap, TickRespawn,
           TickReady, ShutdownAsked, Validate, Drain, DrainTimesOut, Drained, Write, WriteFails, Reload, Resize,
           Skip, ClaimTimesOut, Again, TakeDown, TakeDownFails, BringUp, StartFails, BootFails,
           AllRestarted, RollbackBegins, Restore, RestoreFails, RolledBack, Finally, applyVars
  <2> QED BY <2>1 DEF Booted, ReleaseAll, Claim, ApplyTypes
<1>7. shutting_down' \in BOOLEAN
  BY DEF ApplyNext, Apply, Worker, TurnStarts, TurnEnds, ReadsConfig, Dies, TickCrash, Reap, TickRespawn,
         TickReady, ShutdownAsked, Validate, Drain, DrainTimesOut, Drained, Write, WriteFails, Reload, Resize,
         Skip, Claim, ClaimTimesOut, Again, TakeDown, TakeDownFails, BringUp, StartFails, Booted, BootFails,
         AllRestarted, RollbackBegins, Restore, RestoreFails, RolledBack, Finally, ReleaseAll, applyVars,
         rest, ApplyTypes
<1>8. op' \in Applies /\ (op'.pc \in {"down", "up", "booting"} => op'.on \in Workers)
  <2>1. CASE Apply
    <3>1. Moves
      BY <2>1, MovesBy
    <3>2. op.pc = "down" \/ op.pc = "up" => op.on \in Workers
      BY DEF ApplyTypes
    <3>3. op' \in Applies
      BY <3>1 DEF Moves, OpBecomes, OpGoes, OpEnds, OpFails
    <3>4. ASSUME op'.pc \in {"down", "up", "booting"} PROVE op'.on \in Workers
      <4>1. \/ (op.pc = "down" \/ op.pc = "up") /\ op'.on = op.on
            \/ op'.on \in Workers
        BY <3>1, <3>4 DEF Moves, OpBecomes, OpGoes, OpEnds, OpFails, TakeDown, BringUp
      <4> QED BY <3>2, <4>1
    <3> QED BY <3>3, <3>4
  <2>2. CASE ~Apply
    <3>1. UNCHANGED op
      BY <2>2 DEF ApplyNext, Worker, TurnStarts, TurnEnds, ReadsConfig, Dies, TickCrash, Reap, TickRespawn,
           TickReady, ShutdownAsked, applyVars
    <3> QED BY <3>1 DEF ApplyTypes
  <2> QED BY <2>1, <2>2
<1> QED BY <1>1, <1>2, <1>3, <1>4, <1>5, <1>6, <1>7, <1>8 DEF ApplyTypes

(* A step leaves a worker as it is, or is one of these. *)
LEMMA WorkerIs ==
    ASSUME ApplyTypes, [ApplyNext]_applyVars, NEW w \in Workers
    PROVE  Touched(w)
<1>a. child[w] \in KnownAs /\ ApplyTypes'
  BY ApplyTypesStep DEF ApplyTypes
<1>b. ASSUME child'[w] = child[w], config'[w] = config[w], w \in claimed' <=> w \in claimed
      PROVE  Touched(w)
  BY <1>b DEF Touched, Stays, Becomes
<1>c. ASSUME NEW v, v # w, (\E x : child' = [child EXCEPT ![v] = x]) \/ child' = child,
             (\E x : config' = [config EXCEPT ![v] = x]) \/ config' = config,
             claimed' = claimed \/ claimed' = claimed \cup {v} \/ claimed' = claimed \ {v}
      PROVE  Touched(w)
  BY <1>b, <1>c DEF ApplyTypes
<1>d. \A x : child' = [child EXCEPT ![w] = x] => child'[w] = x
  BY DEF ApplyTypes
<1>e. \A x : config' = [config EXCEPT ![w] = x] => config'[w] = x
  BY DEF ApplyTypes
<1>1. ASSUME NEW v \in Workers, ReadsConfig(v) PROVE Touched(w)
  <2>1. CASE v = w
    BY <1>1, <1>e, <2>1 DEF ReadsConfig, Becomes, OnItsOwn, Touched
  <2> QED BY <1>1, <1>c, <2>1 DEF ReadsConfig
<1>2. ASSUME NEW v \in Workers, Dies(v) PROVE Touched(w)
  <2>1. CASE v = w
    BY <1>2, <1>e, <2>1 DEF Dies, Becomes, OnItsOwn, Touched
  <2> QED BY <1>2, <1>c, <2>1 DEF Dies
<1>3. ASSUME NEW v \in Workers, TickCrash(v) PROVE Touched(w)
  <2>1. child' = [child EXCEPT ![v] = [child[v] EXCEPT !.stopping = TRUE]] /\ config' = config /\ claimed' = claimed
    BY <1>3 DEF TickCrash, ApplyTypes
  <2>2. CASE v = w
    <3>1. child'[w] = [child[w] EXCEPT !.stopping = TRUE]
      BY <1>d, <2>1, <2>2
    <3>2. Becomes(w, child[w].state, TRUE, child[w].applying, config[w])
      BY <1>a, <2>1, <3>1 DEF KnownAs, Becomes
    <3> QED BY <1>3, <2>2, <3>2 DEF TickCrash, OnItsOwn, Touched
  <2> QED BY <1>c, <2>1, <2>2
<1>4. ASSUME NEW v \in Workers, Reap(v) PROVE Touched(w)
  <2>1. child' = [child EXCEPT ![v] = AfterCrash(child[v])] /\ config' = config /\ claimed' = claimed
    BY <1>4 DEF Reap, ApplyTypes
  <2>2. CASE v = w
    <3>1. child'[w] = AfterCrash(child[w])
      BY <1>d, <2>1, <2>2
    <3>2. \E state \in {"stopped", "held_down", "restarting"} :
               /\ shutting_down <=> state = "stopped"
               /\ Becomes(w, state, FALSE, child[w].applying, config[w])
      BY <1>a, <2>1, <3>1, CrashIs DEF Becomes
    <3> QED BY <1>4, <2>2, <3>2 DEF Reap, OnItsOwn, Touched
  <2> QED BY <1>c, <2>1, <2>2
<1>5. ASSUME NEW v \in Workers, TickRespawn(v) PROVE Touched(w)
  <2>1. child' = [child EXCEPT ![v] = [child[v] EXCEPT !.state = "starting", !.stopping = FALSE]]
        /\ config' = [config EXCEPT ![v] = "unread"] /\ claimed' = claimed
    BY <1>5 DEF TickRespawn, Spawned, ApplyTypes
  <2>2. CASE v = w
    <3>1. child'[w] = [child[w] EXCEPT !.state = "starting", !.stopping = FALSE] /\ config'[w] = "unread"
      BY <1>d, <1>e, <2>1, <2>2
    <3>2. Becomes(w, "starting", FALSE, child[w].applying, "unread")
      BY <1>a, <3>1 DEF KnownAs, Becomes
    <3> QED BY <1>5, <2>2, <3>2 DEF TickRespawn, OnItsOwn, Touched
  <2> QED BY <1>c, <2>1, <2>2
<1>6. ASSUME NEW v \in Workers, TickReady(v) PROVE Touched(w)
  <2>1. child' = [child EXCEPT ![v] = [child[v] EXCEPT !.state = "up"]] /\ config' = config /\ claimed' = claimed
    BY <1>6 DEF TickReady, ApplyTypes
  <2>2. CASE v = w
    <3>1. child'[w] = [child[w] EXCEPT !.state = "up"]
      BY <1>d, <2>1, <2>2
    <3>2. Becomes(w, "up", child[w].stopping, child[w].applying, config[w])
      BY <1>a, <2>1, <3>1 DEF KnownAs, Becomes
    <3> QED BY <1>6, <2>2, <3>2 DEF TickReady, Alive, OnItsOwn, Touched
  <2> QED BY <1>c, <2>1, <2>2
<1>7. CASE ShutdownAsked
  <2>1. child'[w] = [child[w] EXCEPT !.stopping = TRUE] /\ config' = config
    BY <1>7 DEF ShutdownAsked
  <2>2. Becomes(w, child[w].state, TRUE, child[w].applying, config[w])
    BY <1>a, <2>1 DEF KnownAs, Becomes
  <2> QED BY <1>7, <2>2 DEF Touched
<1>8. ASSUME NEW v \in Workers, Claim(v) PROVE Touched(w)
  <2>1. child' = [child EXCEPT ![v] = [child[v] EXCEPT !.stopping = TRUE, !.applying = TRUE]] /\ config' = config
        /\ claimed' = claimed \cup {v}
    BY <1>8 DEF Claim, ApplyTypes
  <2>2. CASE v = w
    <3>1. child'[w] = [child[w] EXCEPT !.stopping = TRUE, !.applying = TRUE]
      BY <1>d, <2>1, <2>2
    <3>2. Becomes(w, child[w].state, TRUE, TRUE, config[w])
      BY <1>a, <2>1, <3>1 DEF KnownAs, Becomes
    <3> QED BY <1>8, <2>2, <3>2 DEF Claim, Restarted, Touched
  <2> QED BY <1>c, <2>1, <2>2
<1>9. CASE TakeDown
  <2>1. child' = [child EXCEPT ![op.on] = [child[op.on] EXCEPT !.state = "stopped"]]
        /\ config' = [config EXCEPT ![op.on] = "down"] /\ op.on \in Workers /\ claimed' = claimed
    BY <1>9 DEF TakeDown, ApplyTypes
  <2>2. CASE op.on = w
    <3>1. child'[w] = [child[w] EXCEPT !.state = "stopped"] /\ config'[w] = "down"
      BY <1>d, <1>e, <2>1, <2>2
    <3>2. Becomes(w, "stopped", child[w].stopping, child[w].applying, "down")
      BY <1>a, <3>1 DEF KnownAs, Becomes
    <3> QED BY <1>9, <2>2, <3>2 DEF Restarted, Touched
  <2> QED BY <1>c, <2>1, <2>2
<1>10. CASE BringUp
  <2>1. child' = [child EXCEPT ![op.on] = [child[op.on] EXCEPT !.state = "starting", !.stopping = FALSE]]
        /\ config' = [config EXCEPT ![op.on] = "unread"] /\ op.on \in Workers /\ claimed' = claimed
    BY <1>10 DEF BringUp, Spawned, ApplyTypes
  <2>2. CASE op.on = w
    <3>1. child'[w] = [child[w] EXCEPT !.state = "starting", !.stopping = FALSE] /\ config'[w] = "unread"
      BY <1>d, <1>e, <2>1, <2>2
    <3>2. Becomes(w, "starting", FALSE, child[w].applying, "unread")
      BY <1>a, <3>1 DEF KnownAs, Becomes
    <3> QED BY <1>10, <2>2, <3>2 DEF Restarted, Touched
  <2> QED BY <1>c, <2>1, <2>2
<1>11. CASE StartFails
  <2>1. child' = [child EXCEPT ![op.on] = [child[op.on] EXCEPT !.state = "stopped", !.stopping = TRUE]]
        /\ config' = config /\ op.on \in Workers /\ claimed' = claimed
    BY <1>11 DEF StartFails, ApplyTypes
  <2>2. CASE op.on = w
    <3>1. child'[w] = [child[w] EXCEPT !.state = "stopped", !.stopping = TRUE]
      BY <1>d, <2>1, <2>2
    <3>2. Becomes(w, "stopped", TRUE, child[w].applying, config[w])
      BY <1>a, <2>1, <3>1 DEF KnownAs, Becomes
    <3> QED BY <1>11, <2>2, <3>2 DEF Restarted, Touched
  <2> QED BY <1>c, <2>1, <2>2
<1>12. CASE Booted
  <2>1. child' = [child EXCEPT ![op.on] = [child[op.on] EXCEPT !.state = "up", !.applying = FALSE, !.stopping = FALSE]]
        /\ config' = config /\ op.on \in Workers /\ claimed' = claimed \ {op.on}
    BY <1>12 DEF Booted, ApplyTypes
  <2>2. CASE op.on = w
    <3>1. child'[w] = [child[w] EXCEPT !.state = "up", !.applying = FALSE, !.stopping = FALSE]
      BY <1>d, <2>1, <2>2
    <3>2. Becomes(w, "up", FALSE, FALSE, config[w])
      BY <1>a, <2>1, <3>1 DEF KnownAs, Becomes
    <3> QED BY <1>12, <2>2, <3>2 DEF Restarted, Touched
  <2> QED BY <1>c, <2>1, <2>2
<1>13. CASE BootFails
  <2>1. child' = [child EXCEPT ![op.on] = [child[op.on] EXCEPT !.state = "stopped", !.stopping = TRUE]]
        /\ config' = [config EXCEPT ![op.on] = "down"] /\ op.on \in Workers /\ claimed' = claimed
    BY <1>13 DEF BootFails, ApplyTypes
  <2>2. CASE op.on = w
    <3>1. child'[w] = [child[w] EXCEPT !.state = "stopped", !.stopping = TRUE] /\ config'[w] = "down"
      BY <1>d, <1>e, <2>1, <2>2
    <3>2. Becomes(w, "stopped", TRUE, child[w].applying, "down")
      BY <1>a, <3>1 DEF KnownAs, Becomes
    <3> QED BY <1>13, <2>2, <3>2 DEF Restarted, Touched
  <2> QED BY <1>c, <2>1, <2>2
<1>14. CASE ReleaseAll
  <2>1. child'[w] = (IF w \in claimed THEN LetGo(w) ELSE child[w]) /\ config' = config
    BY <1>14 DEF ReleaseAll
  <2>2. CASE w \in claimed /\ ~Alive(w) /\ child[w].state = "stopped" /\ ~shutting_down
    <3>1. \E state \in {"held_down", "restarting"} : Becomes(w, state, FALSE, FALSE, config[w])
      BY <2>1, <2>2, LetGoIs DEF Becomes
    <3> QED BY <1>14, <2>2, <3>1 DEF Restarted, Touched
  <2>3. CASE w \in claimed /\ ~(~Alive(w) /\ child[w].state = "stopped" /\ ~shutting_down)
    <3>1. Becomes(w, child[w].state, FALSE, FALSE, config[w])
      BY <2>1, <2>3, LetGoIs DEF Becomes
    <3> QED BY <1>14, <2>3, <3>1 DEF Restarted, Touched
  <2> QED BY <1>b, <1>14, <2>1, <2>2, <2>3 DEF ReleaseAll
<1>15. \/ UNCHANGED child /\ UNCHANGED config /\ UNCHANGED claimed
       \/ ShutdownAsked \/ ReleaseAll \/ TakeDown \/ BringUp \/ StartFails \/ Booted \/ BootFails
       \/ \E v \in Workers : ReadsConfig(v) \/ Dies(v) \/ TickCrash(v) \/ Reap(v) \/ TickRespawn(v) \/ TickReady(v)
                             \/ Claim(v)
  BY DEF ApplyNext, Apply, Worker, TurnStarts, TurnEnds, Validate, Drain, DrainTimesOut, Drained, Write, WriteFails,
         Reload, Resize, Skip, ClaimTimesOut, Again, TakeDownFails, AllRestarted, RollbackBegins, Restore,
         RestoreFails, RolledBack, Finally, applyVars
<1> QED BY <1>b, <1>1, <1>2, <1>3, <1>4, <1>5, <1>6, <1>7, <1>8, <1>9, <1>10, <1>11, <1>12, <1>13, <1>14, <1>15

(* Nothing but the apply itself moves it.                                   *)
LEMMA OpBy ==
    ASSUME ApplyTypes, [ApplyNext]_applyVars
    PROVE  \/ Apply /\ Moves
           \/ UNCHANGED <<op, files, pauses, claimed>>
BY MovesBy DEF ApplyNext, Worker, TurnStarts, TurnEnds, ReadsConfig, Dies, TickCrash, Reap, TickRespawn,
         TickReady, ShutdownAsked, applyVars, files, pauses

(* The stages of the apply, at each of its places. *)
OpTold ==
    /\ op.pc \in Early \cup {"reload", "rollback"} => op.stage = "apply"
    /\ op.pc \in {"up", "booting", "resize"} => op.stage # "take"
    /\ op.pc = "down" => op.stage # "again"
    /\ op.stage = "apply" /\ op.pc \in Early \cup {"reload", "resize"} =>
          op.todo = Workers /\ op.restarted = {}

(* Every step keeps the stages. *)
LEMMA OpToldStep ==
    ASSUME ApplyTypes, OpTold, [ApplyNext]_applyVars
    PROVE  OpTold'
<1>1. CASE UNCHANGED op
  BY <1>1 DEF OpTold
<1>2. CASE Apply
  <2>1. Moves
    BY <1>2, MovesBy
  <2>2. op.stage \in {"apply", "take", "again"}
    BY DEF ApplyTypes, Applies
  <2> QED BY <2>1, <2>2 DEF Moves, OpTold, OpBecomes, OpGoes, OpEnds, OpFails, Early, StartFails, BootFails, Restarting
<1> QED BY <1>1, <1>2, OpBy

(* The files, at each place: which one is in force, that this process has    *)
(* read it, and that what was kept of the old one can be put back.           *)
FilesTold ==
    /\ layer # "stale" /\ (layer = "new" /\ op.had_prev => prev = "old")
    /\ op.pc \in Early => loaded = layer /\ layer # "new"
    /\ op.pc = "reload" => layer = "new"
    /\ op.pc \in Restarting \cup {"resize", "rollback"} =>
          loaded = layer /\ (layer = "new" <=> op.stage # "again")
    /\ op.pc \in Over /\ op.outcome # "failed" => loaded = layer /\ layer \in InForce(op.outcome)

(* What is put back is what was there before the new file. *)
LEMMA RestoredIs == FilesTold /\ layer = "new" => Restored \in {"none", "old"}
BY DEF FilesTold, Restored

(* Every step keeps the files so. *)
LEMMA FilesToldStep ==
    ASSUME ApplyTypes, OpTold, FilesTold, [ApplyNext]_applyVars
    PROVE  FilesTold'
<1>0. /\ layer \in {"none", "old", "new"}
      /\ \A o \in Outcomes : InForce(o) = IF o \in {"done", "next_start"} THEN {"new"} ELSE {"none", "old"}
      /\ op.stage \in {"apply", "take", "again"} /\ op.outcome \in Outcomes
      /\ op.had_prev \in BOOLEAN
  BY DEF ApplyTypes, Applies, Layers, FilesTold, InForce
<1>1. CASE UNCHANGED op /\ UNCHANGED files
  BY <1>1 DEF FilesTold, files
<1>2. CASE Apply
  <2>0. Moves /\ (Write \/ op'.had_prev = op.had_prev) /\ op' \in Applies
    BY <1>2, MovesBy DEF Moves, OpBecomes, OpGoes, OpEnds, OpFails
  <2>a. ASSUME UNCHANGED <<layer, prev, loaded>>, op'.had_prev = op.had_prev,
               op'.pc \in Restarting \cup {"resize", "rollback"}, op.pc \in Restarting \cup {"resize", "rollback"},
               (op.stage = "again") <=> (op'.stage = "again")
        PROVE  FilesTold'
    BY <2>a DEF FilesTold, Early, Restarting, Over
  <2>b. ASSUME UNCHANGED <<layer, prev, loaded>>, op'.had_prev = op.had_prev,
               op'.pc \in Over, loaded = layer, op'.outcome = "failed" \/ layer \in InForce(op'.outcome)
        PROVE  FilesTold'
    BY <2>b DEF FilesTold, Early, Restarting, Over
  <2>c. ASSUME UNCHANGED <<layer, prev, loaded>>, op'.had_prev = op.had_prev, OpFails,
               op.pc \in Restarting
        PROVE  FilesTold'
    <3>1. loaded = layer /\ (layer = "new" <=> op.stage # "again")
      BY <2>c DEF FilesTold
    <3>2. CASE op.stage # "apply" /\ OpEnds("failed")
      BY <2>b, <2>c, <3>1, <3>2 DEF OpEnds, OpBecomes, Over
    <3>3. CASE op.stage = "apply" /\ OpEnds("next_start")
      BY <2>b, <2>c, <3>1, <3>3 DEF OpEnds, OpBecomes, Over, InForce
    <3>4. CASE op.stage = "apply" /\ OpBecomes("rollback", op.stage, op.todo, NoWorker, op.restarted, op.outcome)
      BY <2>a, <2>c, <3>4 DEF OpBecomes
    <3> QED BY <2>c, <3>2, <3>3, <3>4 DEF OpFails
  <2>1. CASE Validate \/ Drain \/ DrainTimesOut \/ Drained \/ WriteFails
    <3>0. Ends("refused") \/ Goes("drain") \/ Goes("draining") \/ Goes("write")
      BY <2>1 DEF Validate, Drain, DrainTimesOut, Drained, WriteFails
    <3>1. /\ layer' = layer /\ loaded' = loaded /\ op.pc \in Early
      BY <2>1 DEF Validate, Drain, DrainTimesOut, Drained, WriteFails, Early, files
    <3>2. layer # "new" /\ loaded = layer
      BY <3>1 DEF FilesTold
    <3>3. \/ op'.pc = "finally" /\ op'.outcome = "refused"
          \/ op'.pc \in Early
      BY <3>0 DEF Ends, Goes, ApplyTypes, Applies, Early
    <3>4. layer \in InForce("refused")
      BY <1>0, <3>2 DEF InForce
    <3> QED BY <1>0, <3>1, <3>2, <3>3, <3>4 DEF FilesTold, Early, Restarting, Over
  <2>2. CASE Write
    <3>1. layer' = "new" /\ prev' = layer /\ op' = [op EXCEPT !.pc = "reload", !.had_prev = layer # "none"]
          /\ op.pc = "write"
      BY <2>2 DEF Write
    <3>2. op'.pc = "reload" /\ (op'.had_prev <=> layer # "none")
      BY <3>1 DEF ApplyTypes, Applies
    <3>3. layer \in {"none", "old"}
      BY <1>0, <3>1 DEF FilesTold, Early
    <3> QED BY <3>1, <3>2, <3>3 DEF FilesTold, Early, Restarting, Over
  <2>3. CASE Reload
    <3>1. op.pc = "reload" /\ layer = "new" /\ op.stage = "apply" /\ op'.had_prev = op.had_prev
      BY <2>0, <2>3 DEF Reload, FilesTold, OpTold, Write
    <3>2. CASE Goes("resize")
      <4>1. OpGoes("resize") /\ UNCHANGED <<layer, prev>> /\ loaded' = layer
        <5>1. OpGoes("resize")
          BY <3>2, GoesIs DEF ApplyTypes, ApplyPcs
        <5> QED BY <2>3, <5>1, EndsIs DEF Reload, OpGoes, OpEnds, OpBecomes, ApplyTypes, Outcomes
      <4> QED BY <1>0, <3>1, <4>1 DEF FilesTold, OpGoes, OpBecomes, Early, Restarting, Over
    <3>3. CASE RestoreNow /\ Ends("refused")
      <4>1. OpEnds("refused")
        BY <3>3, EndsIs DEF ApplyTypes, Outcomes
      <4>2. layer' \in {"none", "old"} /\ loaded' = layer'
        BY <3>1, <3>3, RestoredIs DEF RestoreNow
      <4> QED BY <4>1, <4>2 DEF FilesTold, OpEnds, OpBecomes, Early, Restarting, Over, InForce
    <3> QED BY <2>3, <3>2, <3>3 DEF Reload
  <2>4. CASE Restore
    <3>1. op.pc = "next" /\ op.stage = "take" /\ layer = "new" /\ loaded = layer
      BY <2>4 DEF Restore, FilesTold, Restarting
    <3>2. layer' \in {"none", "old"} /\ loaded' = layer'
      BY <2>4, <3>1, RestoredIs DEF Restore, RestoreNow
    <3>3. op'.pc = "resize" /\ op'.stage = "again"
      BY <2>4 DEF Restore, ApplyTypes, Applies
    <3> QED BY <3>2, <3>3 DEF FilesTold, Early, Restarting, Over
  <2>5. ASSUME NEW w \in Workers, Skip(w) \/ Claim(w) \/ ClaimTimesOut(w) \/ Again(w)
        PROVE  FilesTold'
    <3>1. op.pc = "next" /\ UNCHANGED <<layer, prev, loaded>> /\ op'.had_prev = op.had_prev
      BY <2>0, <2>5 DEF Skip, Claim, ClaimTimesOut, Again, Looks, files, Write
    <3>2. \/ op'.pc \in {"next", "down", "up"} /\ op'.stage = op.stage
          \/ OpFails
      BY <2>5, <3>1, FailureIs DEF Skip, Claim, ClaimTimesOut, Again, Looks, ApplyTypes, Applies
    <3> QED BY <2>a, <2>c, <3>1, <3>2 DEF Restarting
  <2>6. CASE TakeDown \/ TakeDownFails \/ BringUp \/ StartFails \/ Booted \/ BootFails
    <3>1. op.pc \in Restarting /\ UNCHANGED <<layer, prev, loaded>> /\ op'.had_prev = op.had_prev
      BY <2>0, <2>6 DEF TakeDown, TakeDownFails, BringUp, StartFails, Booted, BootFails, files, Write, Restarting
    <3>2. \/ op'.pc \in {"next", "up", "booting"} /\ op'.stage = op.stage
          \/ OpFails
      BY <2>6, FailureIs DEF TakeDown, TakeDownFails, BringUp, StartFails, Booted, BootFails, BootFailed, Goes,
              ApplyTypes, Applies
    <3> QED BY <2>a, <2>c, <3>1, <3>2 DEF Restarting
  <2>7. CASE Resize \/ RollbackBegins
    <3>1. op.pc \in {"resize", "rollback"} /\ UNCHANGED <<layer, prev, loaded>> /\ op'.had_prev = op.had_prev
      BY <2>0, <2>7 DEF Resize, RollbackBegins, files, Write
    <3>2. /\ op'.pc = "next"
          /\ op'.stage = op.stage \/ (op.pc = "rollback" /\ op'.stage = "take")
      BY <2>7 DEF Resize, RollbackBegins, Goes, ApplyTypes, Applies
    <3> QED BY <2>a, <3>1, <3>2 DEF Restarting, OpTold
  <2>8. CASE AllRestarted \/ RolledBack \/ RestoreFails
    <3>1. /\ op.pc = "next" /\ UNCHANGED <<layer, prev, loaded>> /\ op'.had_prev = op.had_prev /\ op'.pc = "finally"
          /\ \/ op.stage = "apply" /\ op'.outcome = "done"
             \/ op.stage = "again" /\ op'.outcome = "rolled_back"
             \/ op'.outcome = "failed"
      BY <2>0, <2>8 DEF AllRestarted, RolledBack, RestoreFails, Ends, files, Write, ApplyTypes, Applies
    <3>2. loaded = layer /\ (layer = "new" <=> op.stage # "again")
      BY <3>1 DEF FilesTold, Restarting
    <3> QED BY <2>b, <1>0, <3>1, <3>2 DEF Over, InForce
  <2>9. CASE Finally \/ ReleaseAll
    <3>1. /\ op.pc \in Over /\ UNCHANGED <<layer, prev, loaded>> /\ op'.had_prev = op.had_prev /\ op'.pc \in Over
          /\ op'.outcome = op.outcome /\ op'.pc \notin Early \cup Restarting \cup {"resize", "rollback", "reload"}
      BY <2>0, <2>9 DEF Finally, ReleaseAll, Goes, files, Write, ApplyTypes, Applies, Over, Early, Restarting
    <3> QED BY <3>1 DEF FilesTold
  <2> QED BY <1>2, <2>1, <2>2, <2>3, <2>4, <2>5, <2>6, <2>7, <2>8, <2>9 DEF Apply
<1> QED BY <1>1, <1>2, OpBy

(* What a worker's record says of who has it.                               *)
WorkerTold(w) ==
    /\ child[w].applying <=> w \in claimed
    /\ child[w].state \in {"stopped", "held_down", "restarting"} => ~Alive(w)
    /\ w \notin claimed /\ child[w].stopping /\ ~shutting_down =>
          child[w].state \in {"starting", "up"} /\ ~Alive(w)
    /\ w \in op.restarted \ claimed /\ ~shutting_down => child[w].state # "stopped"

(* The worker the apply is at is its own, and down when it starts it. *)
OnTold ==
    /\ op.pc \in {"down", "up", "booting"} => op.on \in claimed
    /\ op.pc = "up" => ~Alive(op.on)

(* On the way back the workers to start again are its own, and down. *)
AgainTold ==
    op.stage = "again" /\ op.pc \in Restarting \cup {"resize"} =>
        \A w \in op.todo :
            w \in claimed /\ ~Alive(w) /\ (op.pc \in {"up", "booting"} => w # op.on)

(* At the end nothing is paused and nothing is claimed. *)
EndTold ==
    /\ op.pc = "ended" => claimed = {}
    /\ op.pc \in {"release", "ended"} => ~pausedAll /\ paused = {} /\ closing = {}

(* The claims. *)
ClaimsTold == OnTold /\ AgainTold /\ EndTold /\ \A w \in Workers : WorkerTold(w)

(* Only a worker that boots under the new file is added to the restarted.   *)
LEMMA RestartedBy ==
    ASSUME ApplyTypes, [ApplyNext]_applyVars, NEW w \in Workers, w \in op'.restarted, w \notin op.restarted
    PROVE  Booted /\ op.on = w /\ op.stage = "apply"
<1>1. Apply /\ Moves
  BY OpBy
<1> QED BY <1>1 DEF Moves, OpBecomes, OpGoes, OpEnds, OpFails

(* A shutdown is never taken back. *)
LEMMA ShutBy ==
    ASSUME [ApplyNext]_applyVars
    PROVE  shutting_down' = shutting_down \/ (ShutdownAsked /\ shutting_down')
BY DEF ApplyNext, Apply, Worker, TurnStarts, TurnEnds, ReadsConfig, Dies, TickCrash, Reap, TickRespawn,
       TickReady, ShutdownAsked, Validate, Drain, DrainTimesOut, Drained, Write, WriteFails, Reload, Resize,
       Skip, Claim, ClaimTimesOut, Again, TakeDown, TakeDownFails, BringUp, StartFails, Booted, BootFails,
       AllRestarted, RollbackBegins, Restore, RestoreFails, RolledBack, Finally, ReleaseAll, applyVars, rest

(* Every step keeps what a worker's record says. *)
LEMMA WorkerToldStep ==
    ASSUME ApplyTypes, OnTold, NEW w \in Workers, WorkerTold(w), [ApplyNext]_applyVars
    PROVE  WorkerTold(w)'
<1>0. Touched(w) /\ (shutting_down' = shutting_down \/ (ShutdownAsked /\ shutting_down'))
  BY WorkerIs, ShutBy
<1>a. /\ child[w].stopping \in BOOLEAN /\ child[w].applying \in BOOLEAN /\ child[w].stopping' \in BOOLEAN
      /\ child[w].applying' \in BOOLEAN /\ layer \in Layers
      /\ child[w].state \in {"starting", "up", "stopped", "restarting", "held_down"}
  BY ApplyTypesStep DEF ApplyTypes, KnownAs
<1>b. w \in op'.restarted => w \in op.restarted \/ (Booted /\ op.on = w)
  BY RestartedBy
<1>1. CASE Stays(w)
  <2>1. ~(Booted /\ op.on = w)
    BY <1>1 DEF Stays, Booted, OnTold
  <2> QED BY <1>0, <1>b, <1>1, <2>1 DEF Stays, Becomes, WorkerTold, Alive
<1>2. CASE OnItsOwn(w)
  <2>1. UNCHANGED claimed /\ UNCHANGED op /\ shutting_down' = shutting_down
    BY <1>2 DEF OnItsOwn, ReadsConfig, Dies, TickCrash, Reap, TickRespawn, TickReady, rest
  <2>2. CASE ReadsConfig(w)
    BY <1>2, <1>a, <2>1, <2>2 DEF OnItsOwn, Becomes, WorkerTold, Alive, Layers, ReadsConfig, Dies, TickCrash, Reap, TickRespawn, TickReady
  <2> QED BY <1>2, <1>a, <2>1, <2>2 DEF OnItsOwn, Becomes, WorkerTold, Alive, Ours
<1>3. CASE Restarted(w)
  <2>1. CASE Claim(w) /\ Becomes(w, child[w].state, TRUE, TRUE, config[w])
    <3>1. claimed' = claimed \cup {w} /\ op'.restarted = op.restarted
      BY <2>1 DEF Claim, ApplyTypes, Applies
    <3> QED BY <1>0, <2>1, <3>1 DEF Becomes, WorkerTold, Alive
  <2>2. CASE /\ op.on = w
             /\ \/ TakeDown /\ Becomes(w, "stopped", child[w].stopping, child[w].applying, "down")
                \/ BringUp /\ Becomes(w, "starting", FALSE, child[w].applying, "unread")
                \/ StartFails /\ Becomes(w, "stopped", TRUE, child[w].applying, config[w])
                \/ BootFails /\ Becomes(w, "stopped", TRUE, child[w].applying, "down")
    <3>1. UNCHANGED claimed /\ w \in claimed
      BY <2>2 DEF TakeDown, BringUp, StartFails, BootFails, OnTold
    <3>4. StartFails => ~Alive(w)
      BY <2>2 DEF StartFails, OnTold
    <3> QED BY <2>2, <3>1, <3>4 DEF Becomes, WorkerTold, Alive
  <2>3. CASE op.on = w /\ Booted /\ Becomes(w, "up", FALSE, FALSE, config[w])
    <3>1. claimed' = claimed \ {w}
      BY <2>3 DEF Booted
    <3> QED BY <2>3, <3>1 DEF Becomes, WorkerTold, Alive
  <2>4. CASE ReleaseAll /\ w \in claimed
    <3>1. claimed' = {} /\ op'.restarted = op.restarted /\ shutting_down' = shutting_down
      BY <2>4 DEF ReleaseAll, Goes, ApplyTypes, Applies, rest
    <3>2. \/ /\ ~Alive(w) /\ child[w].state = "stopped" /\ ~shutting_down
             /\ \E state \in {"held_down", "restarting"} : Becomes(w, state, FALSE, FALSE, config[w])
          \/ /\ ~(~Alive(w) /\ child[w].state = "stopped" /\ ~shutting_down)
             /\ Becomes(w, child[w].state, FALSE, FALSE, config[w])
      <4>1. ~(Claim(w) \/ TakeDown \/ BringUp \/ StartFails \/ Booted \/ BootFails)
        BY <2>4 DEF Claim, Looks, TakeDown, BringUp, StartFails, Booted, BootFails, ReleaseAll
      <4> QED BY <1>3, <4>1 DEF Restarted
    <3> QED BY <3>1, <3>2 DEF Becomes, WorkerTold, Alive
  <2> QED BY <1>3, <2>1, <2>2, <2>3, <2>4 DEF Restarted
<1>4. CASE ShutdownAsked /\ Becomes(w, child[w].state, TRUE, child[w].applying, config[w])
  <2>1. UNCHANGED claimed /\ UNCHANGED op /\ shutting_down'
    BY <1>4 DEF ShutdownAsked
  <2> QED BY <1>4, <2>1 DEF Becomes, WorkerTold, Alive
<1> QED BY <1>0, <1>1, <1>2, <1>3, <1>4 DEF Touched

(* A worker the apply has stays its own, and down until it starts it again. *)
LEMMA ClaimedStays ==
    ASSUME ApplyTypes, [ApplyNext]_applyVars, NEW w \in claimed,
           ~(Booted /\ op.on = w), ~ReleaseAll
    PROVE  w \in claimed'
<1>1. UNCHANGED claimed \/ Booted \/ ReleaseAll \/ \E v \in Workers : Claim(v)
  BY DEF ApplyNext, Apply, Worker, TurnStarts, TurnEnds, ReadsConfig, Dies, TickCrash, Reap, TickRespawn,
         TickReady, ShutdownAsked, Validate, Drain, DrainTimesOut, Drained, Write, WriteFails, Reload, Resize,
         Skip, ClaimTimesOut, Again, TakeDown, TakeDownFails, BringUp, StartFails, BootFails,
         AllRestarted, RollbackBegins, Restore, RestoreFails, RolledBack, Finally, applyVars
<1> QED BY <1>1 DEF Booted, Claim

(* A worker that is down, and claimed or left as it is, stays down. *)
LEMMA DownStays ==
    ASSUME ApplyTypes, [ApplyNext]_applyVars, NEW w \in Workers, WorkerTold(w), ~Alive(w),
           w \in claimed \/ child[w].state \in {"stopped", "held_down"}, ~(BringUp /\ op.on = w)
    PROVE  ~Alive(w)'
<1>1. Touched(w)
  BY WorkerIs
<1>2. CASE OnItsOwn(w)
  <2>1. ~TickRespawn(w)
    BY DEF TickRespawn, Ours, WorkerTold
  <2>2. ~ReadsConfig(w)
    BY DEF ReadsConfig, Alive
  <2> QED BY <1>2, <2>1, <2>2 DEF OnItsOwn, Becomes, Alive
<1>3. CASE Restarted(w)
  BY <1>3 DEF Restarted, Becomes, Alive
<1> QED BY <1>1, <1>2, <1>3 DEF Touched, Stays, Becomes, Alive

(* Every step keeps the worker the apply is at so ... *)
LEMMA OnToldStep ==
    ASSUME ApplyTypes, OnTold, AgainTold, \A w \in Workers : WorkerTold(w), [ApplyNext]_applyVars
    PROVE  OnTold'
<1>1. CASE UNCHANGED op /\ UNCHANGED claimed
  <2>1. OnTold /\ op.pc = "up" => ~Alive(op.on)'
    <3> SUFFICES ASSUME op.pc = "up" PROVE ~Alive(op.on)'
      OBVIOUS
    <3>1. op.on \in Workers /\ op.on \in claimed /\ ~Alive(op.on) /\ op' = op
      BY <1>1 DEF ApplyTypes, OnTold
    <3>2. ~BringUp
      BY <1>1 DEF BringUp, Goes, ApplyTypes, Applies
    <3>3. \A w \in Workers : w \in claimed /\ ~Alive(w) => config'[w] = "down"
      BY <3>2, DownStays DEF Alive
    <3> QED BY <3>1, <3>3 DEF Alive
  <2> QED BY <1>1, <2>1 DEF OnTold
<1>2. CASE Apply
  <2>0. Moves
    BY <1>2, MovesBy
  <2>1. ASSUME NEW w \in Workers, Claim(w) PROVE OnTold'
    <3>1. op'.pc = "down" /\ op'.on = w /\ w \in claimed'
      BY <2>1 DEF Claim, ApplyTypes, Applies
    <3> QED BY <3>1 DEF OnTold
  <2>2. ASSUME NEW w \in Workers, Again(w) PROVE OnTold'
    <3>1. op'.pc = "up" /\ op'.on = w /\ claimed' = claimed /\ config' = config
      BY <2>2 DEF Again, ApplyTypes, Applies
    <3>2. w \in claimed /\ config[w] = "down"
      BY <2>2 DEF Again, AgainTold, Restarting, Alive
    <3> QED BY <3>1, <3>2 DEF OnTold, Alive
  <2>3. CASE TakeDown
    <3>1. op.on \in claimed /\ op.on \in Workers /\ claimed' = claimed /\ op'.on = op.on /\ op'.pc \in {"up", "next"}
          /\ config' = [config EXCEPT ![op.on] = "down"]
      BY <2>3 DEF TakeDown, OnTold, Goes, ApplyTypes, Applies
    <3>2. config'[op.on] = "down"
      BY <3>1 DEF ApplyTypes
    <3> QED BY <3>1, <3>2 DEF OnTold, Alive
  <2>4. CASE BringUp
    <3>1. op'.pc = "booting" /\ op'.on = op.on /\ claimed' = claimed /\ op.on \in claimed
      BY <2>4 DEF BringUp, OnTold, Goes, ApplyTypes, Applies
    <3> QED BY <3>1 DEF OnTold
  <2>5. CASE op'.pc \notin {"down", "up", "booting"}
    BY <2>5 DEF OnTold
  <2> QED BY <2>0, <2>1, <2>2, <2>3, <2>4, <2>5 DEF Moves, OpBecomes, OpGoes, OpEnds, OpFails
<1> QED BY <1>1, <1>2, OpBy

(* ... the workers to start again ... *)
LEMMA AgainToldStep ==
    ASSUME ApplyTypes, OpTold, OnTold, AgainTold, \A w \in Workers : WorkerTold(w), [ApplyNext]_applyVars
    PROVE  AgainTold'
<1> SUFFICES ASSUME op'.stage = "again", op'.pc \in Restarting \cup {"resize"}, NEW w \in op'.todo
             PROVE  w \in claimed' /\ ~Alive(w)' /\ (op'.pc \in {"up", "booting"} => w # op'.on)
  BY DEF AgainTold, Alive
<1>0. \A v \in Workers : /\ v \in claimed /\ ~(Booted /\ op.on = v) /\ ~ReleaseAll => v \in claimed'
                         /\ v \in claimed /\ ~Alive(v) /\ ~(BringUp /\ op.on = v) => ~Alive(v)'
  BY ClaimedStays, DownStays
<1>1. CASE Restore
  <2>1. op' = [op EXCEPT !.pc = "resize", !.stage = "again", !.todo = {v \in claimed : ~Alive(v)}]
        /\ claimed' = claimed /\ config' = config
    BY <1>1 DEF Restore
  <2>2. op'.pc = "resize" /\ op'.todo = {v \in claimed : ~Alive(v)}
    BY <2>1 DEF ApplyTypes, Applies
  <2> QED BY <2>1, <2>2 DEF Alive
<1>2. CASE op.stage = "again" /\ op.pc \in Restarting \cup {"resize"} /\ ~Restore
  <2>1. \A v \in op.todo : v \in Workers /\ v \in claimed /\ ~Alive(v) /\ (op.pc \in {"up", "booting"} => v # op.on)
    BY <1>2 DEF AgainTold, ApplyTypes, Applies
  <2>2. /\ op'.todo \subseteq op.todo
        /\ op'.pc \in {"up", "booting"} => w # op'.on
        /\ Booted \/ BringUp => op.pc \in {"up", "booting"}
        /\ ~ReleaseAll
    <3>1. CASE UNCHANGED op
      BY <1>2, <2>1, <3>1 DEF Booted, BringUp, ReleaseAll, Restarting
    <3>2. CASE Moves
      BY <1>2, <2>1, <3>2 DEF Moves, OpBecomes, OpGoes, OpEnds, OpFails, Less, Restarting, Booted, BringUp, ReleaseAll,
             StartFails, BootFails, TakeDown
    <3> QED BY <3>1, <3>2, OpBy
  <2> QED BY <1>0, <2>1, <2>2
<1>3. CASE ~(op.stage = "again" /\ op.pc \in Restarting \cup {"resize"}) /\ ~Restore
  <2>1. ~UNCHANGED op
    BY <1>3
  <2>2. Moves
    BY <2>1, OpBy
  <2> QED BY <1>3, <2>2 DEF Moves, OpBecomes, OpGoes, OpEnds, OpFails, Restarting, StartFails, BootFails, OpTold
<1> QED BY <1>1, <1>2, <1>3

(* ... and the end. *)
LEMMA EndToldStep ==
    ASSUME ApplyTypes, EndTold, [ApplyNext]_applyVars
    PROVE  EndTold'
<1>1. CASE UNCHANGED <<op, pauses, claimed>>
  BY <1>1 DEF EndTold, pauses
<1>2. CASE Apply /\ Moves
  <2>1. CASE ReleaseAll
    <3>1. op.pc = "release" /\ claimed' = {} /\ UNCHANGED pauses
      BY <2>1 DEF ReleaseAll
    <3> QED BY <3>1 DEF EndTold, pauses
  <2>2. CASE Finally
    <3>1. op'.pc = "release" /\ ResumeAll
      BY <2>2 DEF Finally, Goes, ApplyTypes, Applies
    <3> QED BY <3>1 DEF EndTold, ResumeAll
  <2>3. CASE ~ReleaseAll /\ ~Finally
    <3>1. op'.pc \notin {"release", "ended"}
      BY <1>2, <2>3 DEF Moves, OpBecomes, OpGoes, OpEnds, OpFails
    <3> QED BY <3>1 DEF EndTold
  <2> QED BY <2>1, <2>2, <2>3
<1> QED BY <1>1, <1>2, OpBy DEF files

(* Every step keeps the claims. *)
LEMMA ClaimsToldStep ==
    ASSUME ApplyTypes, OpTold, ClaimsTold, [ApplyNext]_applyVars
    PROVE  ClaimsTold'
BY OnToldStep, AgainToldStep, EndToldStep, WorkerToldStep DEF ClaimsTold

(* What holds without any hypothesis. *)
ApplyInv == OpTold /\ FilesTold /\ ClaimsTold

(* It holds at the start. *)
LEMMA ApplyInitInv == ApplyInit => ApplyTypes /\ ApplyInv
<1> SUFFICES ASSUME ApplyInit PROVE ApplyTypes /\ ApplyInv
  OBVIOUS
<1>0. op = [pc |-> "queued", stage |-> "apply", todo |-> Workers, on |-> NoWorker,
             restarted |-> {}, had_prev |-> FALSE, outcome |-> "none"]
  BY DEF ApplyInit
<1>1. op \in Applies /\ op.pc = "queued" /\ op.stage = "apply" /\ op.restarted = {} /\ op.outcome = "none"
      /\ op.had_prev = FALSE
  BY <1>0 DEF Applies, ApplyPcs, Early, Outcomes
<1>2. PICK down \in SUBSET Workers :
          /\ child = [w \in Workers |->
                        [state |-> IF w \in down THEN "stopped" ELSE "up",
                         stopping |-> FALSE, applying |-> FALSE, crashed |-> 0]]
          /\ config = [w \in Workers |-> IF w \in down THEN "down" ELSE layer]
  BY DEF ApplyInit
<1>3. layer \in Layers /\ prev \in Layers /\ loaded \in Layers
  BY DEF ApplyInit, Layers
<1>4. child \in [Workers -> KnownAs] /\ config \in [Workers -> Layers \cup {"down", "unread"}]
  BY <1>2, <1>3 DEF KnownAs
<1>5. ApplyTypes
  BY <1>1, <1>3, <1>4 DEF ApplyInit, ApplyTypes
<1>6. OpTold /\ FilesTold
  BY <1>0, <1>1 DEF ApplyInit, OpTold, FilesTold, Early, Restarting, Over
<1>7. \A w \in Workers : WorkerTold(w)
  BY <1>1, <1>2 DEF ApplyInit, WorkerTold, Alive
<1>8. OnTold /\ AgainTold /\ EndTold
  BY <1>1 DEF OnTold, AgainTold, EndTold
<1> QED BY <1>5, <1>6, <1>7, <1>8 DEF ApplyInv, ClaimsTold

(* Every variable of the apply keeps its type. *)
THEOREM ApplyTypesHold == ApplySpec => []ApplyTypes
BY ApplyInitInv, ApplyTypesStep, PTL DEF ApplySpec

(* The stages, the files and the claims are told so throughout. *)
THEOREM ApplyInvHolds == ApplySpec => []ApplyInv
<1>1. ApplyTypes /\ ApplyInv /\ [ApplyNext]_applyVars => ApplyInv'
  BY OpToldStep, FilesToldStep, ClaimsToldStep DEF ApplyInv
<1> QED BY <1>1, ApplyInitInv, ApplyTypesHold, PTL DEF ApplySpec

(* However an apply ends, whatever crashed on the way and whether or not a   *)
(* shutdown was asked for: no story is left paused, no worker is left        *)
(* claimed, and a restarted one that is down goes through the restart policy *)
(* (llm.py, the finally clause and _release_all). No window has to be shut   *)
(* for this.                                                                 *)
THEOREM NothingHeldBackHolds == ApplySpec => []NothingHeldBack
<1>1. ApplyTypes /\ ApplyInv => NothingHeldBack
  <2> SUFFICES ASSUME ApplyTypes, ApplyInv, op.pc = "ended" PROVE NothingHeldBack
    BY DEF NothingHeldBack
  <2>1. claimed = {} /\ ~pausedAll /\ paused = {} /\ closing = {}
    BY DEF ApplyInv, ClaimsTold, EndTold
  <2>2. \A w \in Workers : WorkerTold(w) /\ child[w].applying \in BOOLEAN
    BY DEF ApplyInv, ClaimsTold, ApplyTypes, KnownAs
  <2> QED BY <2>1, <2>2 DEF WorkerTold, NothingHeldBack
<1> QED BY <1>1, ApplyTypesHold, ApplyInvHolds, PTL

(* The file in force is the one the outcome says. *)
FilesAsSaid == op.pc = "ended" /\ op.outcome # "failed" => layer \in InForce(op.outcome) /\ loaded = layer

(* The file in force at the end of an apply is the one its outcome says, and *)
(* the one this process has read: no window has to be shut.                  *)
THEOREM FilesAsSaidHolds == ApplySpec => []FilesAsSaid
<1>1. ApplyInv => FilesAsSaid
  BY DEF ApplyInv, FilesTold, FilesAsSaid, Over
<1> QED BY <1>1, ApplyInvHolds, PTL

(* The layer in force before the apply, whatever is in force now.           *)
Before == IF layer = "new" THEN Restored ELSE layer

(* The windows of the code that OneConfig needs shut (README, section 3).    *)
(* The main thread or the reaper starts no worker under the new file while   *)
(* it is open whether it stays; ...                                          *)
OnlyApplyStarts ==
    layer = "new" /\ op.pc # "ended" =>
        \A w \in Workers :
            \/ config'[w] \in {config[w], "down"} \/ w \in op.restarted
            \/ op'.pc = "booting" /\ op'.on = w

(* ... a worker the rollback wants is let go of by the reaper before the     *)
(* claim's deadline; ...                                                     *)
TakenInTime ==
    op.stage = "take" /\ ~shutting_down =>
        \A w \in op.todo \ op'.todo : ~child[w].stopping

(* ... and the bus frees the tickets of the processes the rollback took down *)
(* before the lanes are resized.                                             *)
TicketsFreed == op.pc = "resize" /\ op.stage = "again" => \A w \in held : Alive(w)

(* The three of them. *)
Undivided == OnlyApplyStarts /\ TakenInTime /\ TicketsFreed

(* The steps that touch the files or the lanes' sizes. *)
LEMMA FilesBy ==
    ASSUME ApplyTypes, [ApplyNext]_applyVars
    PROVE  \/ UNCHANGED <<layer, prev, loaded, sizes>> /\ op'.had_prev = op.had_prev
           \/ Write \/ WriteFails \/ Reload \/ Restore \/ Resize
<1>1. CASE Apply
  <2>1. Write \/ op'.had_prev = op.had_prev
    BY <1>1, MovesBy
  <2> QED BY <1>1, <2>1
          DEF Apply, Validate, Drain, DrainTimesOut, Drained, Skip, Claim, ClaimTimesOut, Again,
              TakeDown, TakeDownFails, BringUp, StartFails, Booted, BootFails, AllRestarted, RollbackBegins,
              RestoreFails, RolledBack, Finally, ReleaseAll, files
<1> QED BY <1>1, OpBy DEF files

(* No step changes which layer was in force before. *)
LEMMA BeforeStays ==
    ASSUME ApplyTypes, FilesTold, [ApplyNext]_applyVars
    PROVE  Before' = Before
<1>1. CASE UNCHANGED <<layer, prev, loaded, sizes>> /\ op'.had_prev = op.had_prev
  BY <1>1 DEF Before, Restored
<1>2. CASE Write
  <2>1. layer' = "new" /\ prev' = layer /\ op.pc = "write"
        /\ op' = [op EXCEPT !.pc = "reload", !.had_prev = layer # "none"]
    BY <1>2 DEF Write
  <2>2. layer # "new"
    BY <2>1 DEF FilesTold, Early
  <2>3. op'.had_prev <=> layer # "none"
    BY <2>1 DEF ApplyTypes, Applies
  <2> QED BY <2>1, <2>2, <2>3 DEF Before, Restored
<1>3. CASE WriteFails
  BY <1>3 DEF WriteFails, FilesTold, Early, Before
<1>4. CASE Reload \/ Restore
  <2>1. layer = "new"
    BY <1>4 DEF Reload, Restore, FilesTold, Restarting
  <2>2. CASE RestoreNow
    BY <2>1, <2>2, RestoredIs DEF RestoreNow, Before
  <2>3. CASE Reload /\ ~RestoreNow
    <3>1. UNCHANGED <<layer, prev>> /\ Goes("resize")
      BY <2>3 DEF Reload
    <3>2. op'.had_prev = op.had_prev
      BY <3>1 DEF Goes, ApplyTypes, Applies
    <3> QED BY <3>1, <3>2 DEF Before, Restored
  <2> QED BY <1>4, <2>2, <2>3 DEF Restore
<1>5. CASE Resize
  <2>1. op'.had_prev = op.had_prev
    BY <1>5 DEF Resize, Goes, ApplyTypes, Applies
  <2> QED BY <1>5, <2>1 DEF Resize, Before, Restored
<1> QED BY <1>1, <1>2, <1>3, <1>4, <1>5, FilesBy

(* How the layer a worker runs under can change.                            *)
LEMMA ConfigBy ==
    ASSUME ApplyTypes, [ApplyNext]_applyVars, NEW w \in Workers
    PROVE  \/ config'[w] \in {config[w], "down", "unread"}
           \/ ReadsConfig(w) /\ config[w] = "unread" /\ config'[w] = layer
BY WorkerIs DEF Touched, Stays, OnItsOwn, Restarted, Becomes

(* When another layer comes into force.                                     *)
LEMMA LayerBy ==
    ASSUME ApplyTypes, FilesTold, [ApplyNext]_applyVars, layer' # layer
    PROVE  \/ Write /\ op.pc = "write" /\ layer # "new" /\ layer' = "new" /\ op'.pc = "reload"
              /\ op'.restarted = op.restarted /\ op'.stage = op.stage
           \/ Reload /\ op.pc = "reload" /\ layer = "new" /\ layer' = Before /\ layer' # "new"
              /\ op'.pc = "finally"
           \/ Restore /\ op.pc = "next" /\ op.stage = "take" /\ op.todo = {} /\ layer = "new"
              /\ layer' = Before /\ layer' # "new" /\ op'.pc = "resize" /\ op'.stage = "again"
              /\ op'.restarted = op.restarted
<1>1. Write \/ Reload \/ Restore
  BY FilesBy DEF WriteFails, Resize
<1>2. CASE Write
  <2>1. op' = [op EXCEPT !.pc = "reload", !.had_prev = layer # "none"] /\ op.pc = "write" /\ layer' = "new"
    BY <1>2 DEF Write
  <2> QED BY <1>2, <2>1 DEF FilesTold, Early, ApplyTypes, Applies
<1>3. CASE Reload
  <2>1. op.pc = "reload" /\ layer = "new" /\ RestoreNow /\ Ends("refused")
    BY <1>3 DEF Reload, FilesTold
  <2>2. op'.pc = "finally"
    BY <2>1 DEF Ends, ApplyTypes, Applies
  <2> QED BY <1>3, <2>1, <2>2, RestoredIs DEF RestoreNow, Before
<1>4. CASE Restore
  <2>1. /\ op.pc = "next" /\ op.stage = "take" /\ op.todo = {} /\ RestoreNow
        /\ op' = [op EXCEPT !.pc = "resize", !.stage = "again", !.todo = {w \in claimed : ~Alive(w)}]
    BY <1>4 DEF Restore
  <2>2. layer = "new"
    BY <2>1 DEF FilesTold, Restarting
  <2>3. op'.pc = "resize" /\ op'.stage = "again" /\ op'.restarted = op.restarted
    BY <2>1 DEF ApplyTypes, Applies
  <2> QED BY <1>4, <2>1, <2>2, <2>3, RestoredIs DEF RestoreNow, Before
<1> QED BY <1>1, <1>2, <1>3, <1>4

(* The workers this apply starts under the new file ... *)
Under(w) == w \in op.restarted \/ (op.pc = "booting" /\ op.on = w)

(* ... are the only ones under it while it is open whether it stays ... *)
NewTold(w) ==
    op.pc # "ended" /\ config[w] \notin {"down", "unread", Before} =>
        layer = "new" /\ config[w] = "new" /\ Under(w)

(* ... and are under no other. *)
UnderTold(w) == layer = "new" /\ Under(w) => config[w] \in {"down", "unread", "new"}

At(w) == op.pc \in {"down", "up", "booting"} /\ op.on = w

(* A worker the rollback took down stays down until the file is back.       *)
Taken(w) ==
    /\ w \in op.restarted
    /\ \/ op.stage = "take" /\ op.pc \in {"next", "down"} /\ w \notin op.todo /\ ~At(w)
       \/ op.stage = "again" /\ op.pc = "resize"

TakenTold(w) ==
    Taken(w) => ~Alive(w) /\ (w \in claimed \/ child[w].state \in {"stopped", "held_down"})

(* A worker the apply went past without restarting it is down.              *)
SkippedTold(w) ==
    op.stage = "apply" /\ op.pc \in Restarting /\ w \notin op.todo \cup op.restarted /\ ~At(w) => ~Alive(w)

(* At the end every worker that runs is under the file in force. *)
OverTold(w) ==
    op.pc \in Over /\ op.outcome # "failed" => config[w] \in {"down", "unread", layer}

(* A worker started under the new file stays one of those, or is down. *)
LEMMA UnderGoes ==
    ASSUME ApplyTypes, OpTold, FilesTold, [ApplyNext]_applyVars, NEW w \in Workers, Under(w), layer = "new"
    PROVE  Under(w)' \/ config'[w] = "down"
<1>1. CASE UNCHANGED op
  BY <1>1 DEF Under
<1>2. CASE Moves
  <2>1. CASE w \in op.restarted
    BY <1>2, <2>1 DEF Moves, OpBecomes, OpGoes, OpEnds, OpFails, Under
  <2>2. CASE op.pc = "booting" /\ op.on = w
    <3>1. op.stage = "apply"
      BY <2>2 DEF OpTold, FilesTold, Restarting, ApplyTypes, Applies
    <3>2. Booted \/ BootFails
      BY <1>2, <2>2 DEF Moves, OpGoes, OpEnds, OpFails, TakeDown, TakeDownFails, BringUp, StartFails
    <3>3. CASE Booted
      BY <2>2, <3>1, <3>3 DEF Booted, Under, ApplyTypes, Applies
    <3>4. CASE BootFails
      BY <2>2, <3>4 DEF BootFails, ApplyTypes
    <3> QED BY <3>2, <3>3, <3>4
  <2> QED BY <2>1, <2>2 DEF Under
<1> QED BY <1>1, <1>2, OpBy

(* A worker becomes one of those with nothing read yet. *)
LEMMA UnderCame ==
    ASSUME ApplyTypes, [ApplyNext]_applyVars, NEW w \in Workers, Under(w)', ~Under(w)
    PROVE  config'[w] = "unread"
<1>1. ~UNCHANGED op
  BY DEF Under
<1>2. Moves
  BY <1>1, OpBy
<1>3. CASE w \in op'.restarted
  BY <1>3, RestartedBy DEF Under, Booted
<1>4. CASE op'.pc = "booting" /\ op'.on = w
  <2>1. BringUp /\ op.on = w
    BY <1>2, <1>4 DEF Moves, OpBecomes, OpGoes, OpEnds, OpFails
  <2> QED BY <2>1 DEF BringUp, Spawned, ApplyTypes
<1> QED BY <1>3, <1>4 DEF Under

(* Nothing follows the end. *)
LEMMA EndStays ==
    ASSUME ApplyTypes, [ApplyNext]_applyVars, op.pc = "ended"
    PROVE  UNCHANGED op
BY OpBy DEF Moves, TakeDown, TakeDownFails, BringUp, StartFails, BootFails, Booted

(* With the main thread starting none, every step keeps NewTold; *)
LEMMA NewToldStep ==
    ASSUME ApplyTypes, OpTold, FilesTold, [ApplyNext]_applyVars, OnlyApplyStarts,
           NEW w \in Workers, NewTold(w), TakenTold(w)
    PROVE  NewTold(w)'
<1> SUFFICES ASSUME op'.pc # "ended", config'[w] \notin {"down", "unread", Before'}
             PROVE  layer' = "new" /\ config'[w] = "new" /\ Under(w)'
  BY DEF NewTold
<1>0. Before' = Before /\ op.pc # "ended"
  BY BeforeStays, EndStays
<1>1. CASE config'[w] = config[w]
  <2>1. layer = "new" /\ config[w] = "new" /\ Under(w)
    BY <1>0, <1>1 DEF NewTold
  <2>2. Under(w)'
    BY <1>1, <2>1, UnderGoes
  <2>3. layer' = "new"
    <3>1. CASE layer' # layer
      <4>1. \/ Reload /\ op.pc = "reload"
            \/ Restore /\ op.pc = "next" /\ op.stage = "take" /\ op.todo = {}
        BY <2>1, <3>1, LayerBy
      <4>2. w \in op.restarted
        BY <2>1, <4>1 DEF Under
      <4>3. CASE op.pc = "reload"
        BY <4>2, <4>3 DEF OpTold
      <4>4. CASE op.pc = "next" /\ op.stage = "take" /\ op.todo = {}
        BY <2>1, <4>2, <4>4 DEF TakenTold, Taken, At, Alive
      <4> QED BY <4>1, <4>3, <4>4
    <3> QED BY <2>1, <3>1
  <2> QED BY <1>1, <2>1, <2>2, <2>3
<1>2. CASE ReadsConfig(w) /\ config[w] = "unread" /\ config'[w] = layer
  <2>1. layer' = layer /\ op' = op
    BY <1>2 DEF ReadsConfig, files
  <2>2. layer = "new"
    BY <1>0, <1>2 DEF Before
  <2>3. Under(w)
    BY <1>0, <1>2, <2>1, <2>2 DEF OnlyApplyStarts, Under
  <2> QED BY <1>2, <2>1, <2>2, <2>3 DEF Under
<1> QED BY <1>1, <1>2, ConfigBy

(* every step keeps UnderTold; *)
LEMMA UnderToldStep ==
    ASSUME ApplyTypes, OpTold, FilesTold, [ApplyNext]_applyVars, NEW w \in Workers, UnderTold(w)
    PROVE  UnderTold(w)'
<1> SUFFICES ASSUME layer' = "new", Under(w)', config'[w] \notin {"down", "unread"}
             PROVE  config'[w] = "new"
  BY DEF UnderTold
<1>1. Under(w)
  BY UnderCame
<1>2. layer = "new"
  <2>1. CASE layer # "new"
    <3>1. op.pc = "write" /\ op'.restarted = op.restarted /\ op'.pc = "reload"
      BY <2>1, LayerBy
    <3> QED BY <3>1 DEF OpTold, Early, Under
  <2> QED BY <2>1
<1>3. config[w] \in {"down", "unread", "new"}
  BY <1>1, <1>2 DEF UnderTold
<1> QED BY <1>2, <1>3, ConfigBy

(* a worker taken down stays so; *)
LEMMA TakenStays ==
    ASSUME ApplyTypes, OpTold, ClaimsTold, [ApplyNext]_applyVars,
           NEW w \in Workers, TakenTold(w), Taken(w), Taken(w)'
    PROVE  ~Alive(w)' /\ (w \in claimed' \/ child'[w].state \in {"stopped", "held_down"})
<1>0. /\ ~Alive(w) /\ (w \in claimed \/ child[w].state \in {"stopped", "held_down"})
      /\ op.pc \in {"next", "down", "resize"} /\ op.stage # "apply" /\ WorkerTold(w)
  BY DEF TakenTold, Taken, ClaimsTold
<1>1. ~BringUp /\ ~Booted /\ ~ReleaseAll /\ ~StartFails /\ ~BootFails
  BY <1>0 DEF BringUp, Booted, ReleaseAll, StartFails, BootFails
<1>2. ~Alive(w)'
  BY <1>0, <1>1, DownStays
<1>3. CASE w \in claimed
  BY <1>1, <1>2, <1>3, ClaimedStays
<1>4. CASE w \notin claimed /\ child[w].state \in {"stopped", "held_down"}
  <2>1. Touched(w)
    BY WorkerIs
  <2>2. ~(TakeDown /\ op.on = w)
    BY DEF TakeDown, Taken, At
  <2>3. ~Claim(w) \/ w \in claimed'
    BY DEF Claim
  <2>4. CASE OnItsOwn(w)
    <3>1. ~Reap(w)
      BY <1>4 DEF Reap
    <3> QED BY <1>2, <1>4, <2>4, <3>1 DEF OnItsOwn, Becomes
  <2>5. CASE Restarted(w)
    BY <1>1, <1>2, <1>4, <2>2, <2>3, <2>5 DEF Restarted
  <2> QED BY <1>2, <1>4, <2>1, <2>4, <2>5 DEF Touched, Stays, Becomes
<1> QED BY <1>0, <1>3, <1>4

(* and one is only gone past once it is down, if the reaper is in time. *)
LEMMA TakenToldStep ==
    ASSUME ApplyTypes, OpTold, FilesTold, ClaimsTold, [ApplyNext]_applyVars, TakenInTime,
           ~shutting_down, NEW w \in Workers, TakenTold(w)
    PROVE  TakenTold(w)'
<1> SUFFICES ASSUME Taken(w)'
             PROVE  ~Alive(w)' /\ (w \in claimed' \/ child'[w].state \in {"stopped", "held_down"})
  BY DEF TakenTold
<1>1. CASE Taken(w)
  BY <1>1, TakenStays
<1>2. CASE ~Taken(w)
  <2>1. ~UNCHANGED op
    BY <1>2 DEF Taken, At
  <2>2. Apply /\ Moves
    BY <2>1, OpBy
  <2>3. w \in op.restarted
    <3>1. CASE Booted /\ op.stage = "apply"
      <4>1. op'.stage = "apply"
        BY <3>1 DEF Booted, ApplyTypes, Applies
      <4> QED BY <4>1 DEF Taken
    <3> QED BY <3>1, RestartedBy DEF Taken
  <2>4. \/ TakeDown /\ op.on = w
        \/ \E v \in Workers : (Skip(v) \/ ClaimTimesOut(v)) /\ v = w /\ op.stage = "take" /\ w \in op.todo /\ w \notin op'.todo
    <3>1. op'.stage = "take" \/ (op'.stage = "again" /\ op'.pc = "resize")
      BY DEF Taken
    <3>2. CASE op'.stage = "again"
      <4>1. op'.pc = "resize"
        BY <3>2 DEF Taken
      <4>2. Restore
        BY <2>2, <3>2, <4>1 DEF Moves, OpBecomes, OpGoes, OpEnds, OpFails, StartFails, BootFails, OpTold, Reload
      <4>3. op.pc = "next" /\ op.stage = "take" /\ op.todo = {}
        BY <4>2 DEF Restore
      <4> QED BY <1>2, <2>3, <4>3 DEF Taken, At
    <3>3. CASE op'.stage = "take"
      <4>1. op'.pc \in {"next", "down"} /\ w \notin op'.todo /\ ~(op'.pc = "down" /\ op'.on = w)
        BY <3>3 DEF Taken, At
      <4>2. ~RollbackBegins
        BY <2>3, <4>1 DEF RollbackBegins, ApplyTypes, Applies
      <4>3. CASE op.stage = "take"
        <5>1. CASE \E v \in Workers : Skip(v) \/ ClaimTimesOut(v) \/ Claim(v) \/ Again(v)
          <6>1. PICK v \in Workers : Skip(v) \/ ClaimTimesOut(v) \/ Claim(v) \/ Again(v)
            BY <5>1
          <6>2. op.pc = "next" /\ v \in op.todo
            BY <6>1 DEF Skip, ClaimTimesOut, Claim, Again, Looks
          <6>3. w \in op.todo
            BY <1>2, <2>3, <4>3, <6>2 DEF Taken, At
          <6>4. op'.todo = op.todo \ {v} /\ (Claim(v) => op'.pc = "down" /\ op'.on = v)
            BY <4>3, <6>1 DEF Skip, ClaimTimesOut, Claim, Again, Looks, ApplyTypes, Applies
          <6>5. v = w /\ ~Claim(v) /\ ~Again(v)
            BY <4>1, <4>3, <6>3, <6>4 DEF Again
          <6> QED BY <4>1, <4>3, <6>1, <6>3, <6>5
        <5>2. CASE TakeDown
          <6>1. op'.pc = "next" /\ op'.todo = op.todo /\ op.pc = "down"
            BY <4>3, <5>2 DEF TakeDown, Goes, ApplyTypes, Applies
          <6> QED BY <1>2, <2>3, <4>1, <4>3, <5>2, <6>1 DEF Taken, At
        <5> QED BY <2>2, <3>3, <4>1, <4>2, <4>3, <5>1, <5>2
            DEF Moves, OpBecomes, OpGoes, OpEnds, OpFails, OpTold, StartFails, BootFails, Booted
      <4>4. CASE op.stage # "take"
        BY <2>2, <3>3, <4>2, <4>4 DEF Moves, OpBecomes, OpGoes, OpEnds, OpFails
      <4> QED BY <4>3, <4>4
    <3> QED BY <3>1, <3>2, <3>3
  <2>5. CASE TakeDown /\ op.on = w
    <3>1. config'[w] = "down" /\ w \in claimed /\ claimed' = claimed
      BY <2>5 DEF TakeDown, ClaimsTold, OnTold, ApplyTypes
    <3> QED BY <3>1 DEF Alive
  <2>6. CASE Skip(w)
    <3>1. UNCHANGED <<child, config>> /\ NotRunning(w)
      BY <2>6 DEF Skip
    <3> QED BY <3>1 DEF NotRunning, Alive
  <2>7. CASE ClaimTimesOut(w) /\ op.stage = "take" /\ w \in op.todo /\ w \notin op'.todo
    BY <2>7 DEF ClaimTimesOut, TakenInTime
  <2> QED BY <2>4, <2>5, <2>6, <2>7
<1> QED BY <1>1, <1>2

(* A worker skipped stays down, the main thread starting none. *)
LEMMA SkippedToldStep ==
    ASSUME ApplyTypes, OpTold, FilesTold, [ApplyNext]_applyVars, OnlyApplyStarts,
           NEW w \in Workers, SkippedTold(w)
    PROVE  SkippedTold(w)'
<1> SUFFICES ASSUME op'.stage = "apply", op'.pc \in Restarting, w \notin op'.todo \cup op'.restarted, ~At(w)'
             PROVE  ~Alive(w)'
  BY DEF SkippedTold
<1>1. CASE op.stage = "apply" /\ op.pc \in Restarting /\ w \notin op.todo \cup op.restarted /\ ~At(w)
  <2>1. ~Alive(w) /\ layer = "new" /\ op.pc # "ended"
    BY <1>1 DEF SkippedTold, FilesTold, Restarting
  <2>2. config'[w] \in {config[w], "down"}
    BY <1>1, <2>1 DEF OnlyApplyStarts, At
  <2> QED BY <2>1, <2>2 DEF Alive
<1>2. CASE ~(op.stage = "apply" /\ op.pc \in Restarting /\ w \notin op.todo \cup op.restarted /\ ~At(w))
  <2>1. ~UNCHANGED op
    BY <1>2 DEF At
  <2>2. Apply /\ Moves
    BY <2>1, OpBy
  <2>3. op.stage = "apply"
    BY <2>2 DEF Moves, OpBecomes, OpGoes, OpEnds, OpFails
  <2>4. CASE Resize
    <3>1. op.todo = Workers /\ op'.todo = op.todo
      BY <2>3, <2>4 DEF Resize, OpTold, Goes, ApplyTypes, Applies
    <3> QED BY <3>1
  <2>5. CASE ~Resize
    <3>1. op.pc \in Restarting
      BY <2>2, <2>3, <2>5 DEF Moves, OpBecomes, OpGoes, OpEnds, OpFails, Restarting, TakeDown, BringUp, Booted
    <3>2. w \notin op.restarted
      BY <2>2, <2>3 DEF Moves, OpBecomes, OpGoes, OpEnds, OpFails
    <3>3. CASE w \in op.todo
      <4>1. \E v \in Workers : (Skip(v) \/ Claim(v)) /\ v = w
        BY <2>2, <2>3, <2>5, <3>3 DEF Moves, OpBecomes, OpGoes, OpEnds, OpFails, Less, Restarting
      <4>2. ~Claim(w)
        BY DEF Claim, At, ApplyTypes, Applies
      <4>3. Skip(w)
        BY <4>1, <4>2
      <4> QED BY <4>3 DEF Skip, NotRunning, Alive
    <3>4. CASE At(w)
      <4>1. TakeDown \/ BringUp \/ Booted
        BY <2>2, <2>3, <2>5, <3>4 DEF Moves, OpBecomes, OpGoes, OpEnds, OpFails, Restarting, At
      <4>2. op'.on = op.on
        BY <4>1 DEF TakeDown, BringUp, Booted, Goes, ApplyTypes, Applies
      <4>3. ~TakeDown /\ ~BringUp
        BY <2>3, <3>4, <4>2 DEF TakeDown, BringUp, Goes, At, ApplyTypes, Applies
      <4>4. Booted
        BY <4>1, <4>3
      <4>5. w \in op'.restarted
        BY <2>3, <3>4, <4>4 DEF Booted, At, ApplyTypes, Applies
      <4> QED BY <4>5
    <3> QED BY <1>2, <2>3, <3>1, <3>2, <3>3, <3>4
  <2> QED BY <2>4, <2>5
<1> QED BY <1>1, <1>2

(* The ways to the end, unless it failed or the shutdown was asked for.     *)
LEMMA OverBy ==
    ASSUME ApplyTypes, [ApplyNext]_applyVars, ~shutting_down, op'.pc \in Over, op'.outcome # "failed"
    PROVE  \/ op.pc \in Over /\ op'.outcome = op.outcome /\ (UNCHANGED op \/ Finally \/ ReleaseAll)
           \/ (Validate \/ DrainTimesOut \/ WriteFails) /\ op.pc \in Early
           \/ Reload /\ op.pc = "reload" /\ RestoreNow
           \/ AllRestarted /\ op.pc = "next" /\ op.stage = "apply" /\ op.todo = {}
           \/ RolledBack /\ op.pc = "next" /\ op.stage = "again"
<1>1. UNCHANGED op \/ Moves
  BY OpBy
<1> QED BY <1>1 DEF Moves, OpBecomes, OpGoes, OpEnds, OpFails, Over, Early, TakeDown

(* Every way to the end leaves the workers under the file in force. *)
LEMMA OverToldStep ==
    ASSUME ApplyTypes, OpTold, FilesTold, [ApplyNext]_applyVars, ~shutting_down, NEW w \in Workers,
           NewTold(w), UnderTold(w), SkippedTold(w), OverTold(w)
    PROVE  OverTold(w)'
<1> SUFFICES ASSUME op'.pc \in Over, op'.outcome # "failed"
             PROVE  config'[w] \in {"down", "unread", layer'}
  BY DEF OverTold
<1>1. CASE op.pc \in Over /\ op'.outcome = op.outcome
  <2>1. layer' = layer
    BY <1>1, LayerBy DEF Over
  <2>2. config[w] \in {"down", "unread", layer}
    BY <1>1 DEF OverTold
  <2> QED BY <2>1, <2>2, ConfigBy
<1>2. CASE (Validate \/ DrainTimesOut \/ WriteFails) /\ op.pc \in Early
  <2>1. layer' = layer /\ config' = config /\ layer # "new" /\ op.pc # "ended"
    BY <1>2 DEF Validate, DrainTimesOut, WriteFails, files, FilesTold, Early
  <2> QED BY <2>1 DEF NewTold, Before
<1>3. CASE Reload /\ op.pc = "reload" /\ RestoreNow
  <2>1. layer' = Before /\ config' = config /\ ~Under(w) /\ op.pc # "ended"
    BY <1>3 DEF Reload, RestoreNow, FilesTold, Before, OpTold, Under
  <2> QED BY <2>1 DEF NewTold
<1>4. CASE AllRestarted /\ op.pc = "next" /\ op.stage = "apply" /\ op.todo = {}
  <2>1. layer' = layer /\ config' = config /\ layer = "new"
    BY <1>4 DEF AllRestarted, files, FilesTold, Restarting
  <2>2. CASE w \in op.restarted
    BY <2>1, <2>2 DEF UnderTold, Under
  <2>3. CASE w \notin op.restarted
    BY <1>4, <2>1, <2>3 DEF SkippedTold, At, Restarting, Alive
  <2> QED BY <2>2, <2>3
<1>5. CASE RolledBack /\ op.pc = "next" /\ op.stage = "again"
  <2>1. layer' = layer /\ config' = config /\ layer # "new" /\ op.pc # "ended"
    BY <1>5 DEF RolledBack, files, FilesTold, Restarting
  <2> QED BY <2>1 DEF NewTold, Before
<1> QED BY <1>1, <1>2, <1>3, <1>4, <1>5, OverBy

(* What the workers run under. *)
ConfigTold ==
    ~shutting_down =>
        \A w \in Workers :
            NewTold(w) /\ UnderTold(w) /\ TakenTold(w) /\ SkippedTold(w) /\ OverTold(w)

(* Every step keeps that, with the two windows shut. *)
LEMMA ConfigToldStep ==
    ASSUME ApplyTypes, ApplyInv, ConfigTold, [ApplyNext]_applyVars, OnlyApplyStarts, TakenInTime
    PROVE  ConfigTold'
<1> SUFFICES ASSUME ~shutting_down', NEW w \in Workers
             PROVE  (NewTold(w) /\ UnderTold(w) /\ TakenTold(w) /\ SkippedTold(w) /\ OverTold(w))'
  BY DEF ConfigTold
<1>1. ~shutting_down
  BY ShutBy
<1> QED BY <1>1, NewToldStep, UnderToldStep, TakenToldStep, SkippedToldStep, OverToldStep DEF ApplyInv, ConfigTold

----------------------------------------------------------------------------
(* Nobody plays while it matters: the pauses, and who may still hold a      *)
(* ticket.                                                                  *)
LeftRestarting(w) ==
    /\ op.stage = "apply" /\ op.pc \in Restarting \cup {"rollback"}
    /\ w \notin op.restarted

(* When the lanes are about to be resized for the new file, ... *)
Resizes == op.pc \in {"write", "reload"} \/ (op.pc = "resize" /\ op.stage = "apply")

(* ... when every story is paused, ... *)
PausedWhole == (op.stage = "take" /\ op.pc \in {"next", "down"}) \/ op.pc = "resize"

(* ... and when only a worker already restarted may hold a ticket. *)
MayHold == (op.stage # "again" /\ op.pc \in Restarting \cup {"rollback"}) \/ op.pc = "resize"

(* The pauses and the tickets, at those places. *)
Quiet ==
    /\ op.pc = "draining" => pausedAll
    /\ Resizes => pausedAll /\ held = {}
    /\ PausedWhole => pausedAll
    /\ MayHold => held \subseteq op.restarted
    /\ \A w \in Workers : LeftRestarting(w) =>
          w \in paused \/ (~Alive(w) /\ (op.pc # "rollback" => w \notin op.todo /\ ~At(w)))

(* A ticket is taken only by a live worker whose story is not paused. *)
LEMMA HeldBy ==
    ASSUME ApplyTypes, [ApplyNext]_applyVars
    PROVE  \/ held' = held
           \/ /\ UNCHANGED <<op, pauses>>
              /\ \/ held' \subseteq held
                 \/ \E w \in Workers : Alive(w) /\ ~IsPaused(w) /\ held' = held \cup {w}
<1>1. CASE Apply
  BY <1>1 DEF Apply, Validate, Drain, DrainTimesOut, Drained, Write, WriteFails, Reload, Resize,
       Skip, Claim, ClaimTimesOut, Again, TakeDown, TakeDownFails, BringUp, StartFails, Booted, BootFails,
       AllRestarted, RollbackBegins, Restore, RestoreFails, RolledBack, Finally, ReleaseAll
<1>2. CASE ~Apply
  BY <1>2 DEF ApplyNext, Worker, TurnStarts, TurnEnds, ReadsConfig, Dies, TickCrash, Reap, TickRespawn,
       TickReady, ShutdownAsked, applyVars, pauses
<1> QED BY <1>1, <1>2

(* Every step of the apply moves it. *)
LEMMA OpDiffers ==
    ASSUME ApplyTypes, Apply
    PROVE  op' # op
<1>1. Moves
  BY MovesBy
<1> QED BY <1>1 DEF Moves, OpBecomes, OpGoes, OpEnds, OpFails, Less, TakeDown, StartFails, BootFails

(* While the apply does not move, neither do the files, the pauses and the   *)
(* claims.                                                                   *)
LEMMA StillBy ==
    ASSUME ApplyTypes, [ApplyNext]_applyVars, UNCHANGED op
    PROVE  /\ UNCHANGED <<layer, prev, loaded, sizes>> /\ UNCHANGED <<pausedAll, paused, closing>> /\ UNCHANGED claimed
           /\ \/ held' \subseteq held
              \/ \E w \in Workers : Alive(w) /\ ~IsPaused(w) /\ held' = held \cup {w}
<1>1. ~Apply
  BY OpDiffers
<1>2. UNCHANGED <<op, files, pauses, claimed>>
  BY <1>1, OpBy
<1> QED BY <1>2, HeldBy DEF files, pauses

(* Every step keeps the stories paused. *)
LEMMA PausedToldStep ==
    ASSUME ApplyTypes, OpTold, Quiet, [ApplyNext]_applyVars
    PROVE  /\ op'.pc = "draining" => pausedAll'
           /\ Resizes' => pausedAll' /\ held' = {}
           /\ PausedWhole' => pausedAll'
<1>1. CASE UNCHANGED op
  <2>1. UNCHANGED pausedAll /\ (held' \subseteq held \/ \E w \in Workers : ~IsPaused(w) /\ held' = held \cup {w})
    BY <1>1, StillBy
  <2> QED BY <1>1, <2>1 DEF Quiet, Resizes, PausedWhole, IsPaused
<1>2. CASE Apply /\ Moves
  <2>0. held' = held
    BY <1>2, OpDiffers, HeldBy
  <2>1. ASSUME op'.pc = "draining" PROVE pausedAll'
    <3>1. Drain
      BY <1>2, <2>1 DEF Moves, OpBecomes, OpGoes, OpEnds, OpFails, TakeDown
    <3> QED BY <3>1 DEF Drain, PauseAll
  <2>2. ASSUME Resizes' PROVE pausedAll' /\ held' = {}
    <3>1. \/ Drained /\ op.pc = "draining"
          \/ Write /\ op.pc = "write"
          \/ Reload /\ op.pc = "reload"
      BY <1>2, <2>2 DEF Moves, OpBecomes, OpGoes, OpEnds, OpFails, TakeDown, Resizes
    <3>2. pausedAll' = pausedAll
      BY <3>1 DEF Drained, Write, Reload, pauses
    <3> QED BY <2>0, <3>1, <3>2 DEF Quiet, Resizes, Drained
  <2>3. ASSUME PausedWhole' PROVE pausedAll'
    <3>1. CASE RollbackBegins
      BY <3>1 DEF RollbackBegins, PauseAll
    <3>2. CASE Reload \/ Restore
      <4>1. pausedAll' = pausedAll
        BY <3>2 DEF Reload, Restore, pauses
      <4> QED BY <3>2, <4>1 DEF Reload, Restore, Quiet, Resizes, PausedWhole
    <3>3. CASE ~RollbackBegins /\ ~Reload /\ ~Restore
      <4>0. Moves /\ ~RollbackBegins /\ ~Reload /\ ~Restore
        BY <1>2, <3>3
      <4>1. op'.pc # "resize"
        BY <4>0 DEF Moves, OpBecomes, OpGoes, OpEnds, OpFails, TakeDown
      <4>2. op'.stage = "take" /\ op'.pc \in {"next", "down"}
        BY <2>3, <4>1 DEF PausedWhole
      <4>3. op.stage = "take"
        BY <4>0, <4>2 DEF Moves, OpBecomes, OpGoes, OpEnds, OpFails
      <4>4. op.pc \notin Early \cup {"reload", "rollback", "up", "booting", "resize"}
        BY <4>3 DEF OpTold
      <4>5. op.pc \notin Over
        <5> SUFFICES ASSUME op.pc \in Over PROVE FALSE
          OBVIOUS
        <5>1. op.pc \notin {"queued", "drain", "draining", "write", "reload", "resize", "rollback", "next", "down",
                           "up", "booting"}
          BY DEF Over
        <5>2. ~StartFails /\ ~BootFails
          BY <5>1 DEF StartFails, BootFails
        <5>3. Finally \/ ReleaseAll
          BY <4>0, <5>1, <5>2 DEF Moves
        <5> QED BY <4>2, <5>3 DEF Finally, ReleaseAll, Goes, ApplyTypes, Applies
      <4>6. op.pc \in {"next", "down"}
        BY <4>4, <4>5 DEF ApplyTypes, Applies, ApplyPcs, Restarting
      <4>7. ~StartFails /\ ~BootFails /\ ~Finally
        BY <4>6 DEF StartFails, BootFails, Finally
      <4>8. \/ TakeDown \/ AllRestarted \/ RolledBack \/ RestoreFails \/ TakeDownFails
            \/ \E w \in Workers : Skip(w) \/ Claim(w) \/ ClaimTimesOut(w) \/ Again(w)
        BY <4>0, <4>6, <4>7 DEF Moves
      <4>9. ~AllRestarted /\ ~RolledBack /\ ~RestoreFails /\ ~TakeDownFails
        BY <4>2, <4>3, EndsIs DEF AllRestarted, RolledBack, RestoreFails, TakeDownFails, Failure, Ends, ApplyTypes, Applies
      <4>10. pausedAll' = pausedAll
        BY <4>3, <4>8, <4>9 DEF TakeDown, Skip, Claim, ClaimTimesOut, Again, pauses
      <4> QED BY <4>3, <4>6, <4>10 DEF Quiet, PausedWhole
    <3> QED BY <3>1, <3>2, <3>3
  <2> QED BY <2>1, <2>2, <2>3
<1> QED BY <1>1, <1>2, OpBy

(* While the lanes await their new sizes, who holds a ticket was restarted. *)
LEMMA MayHoldStep ==
    ASSUME ApplyTypes, OpTold, Quiet, [ApplyNext]_applyVars, MayHold'
    PROVE  held' \subseteq op'.restarted
<1>1. CASE UNCHANGED op
  <2>1. held \subseteq op.restarted
    BY <1>1 DEF Quiet, MayHold
  <2>2. ASSUME NEW w \in Workers, Alive(w), ~IsPaused(w) PROVE w \in op.restarted
    <3>1. ~pausedAll /\ w \notin paused
      BY <2>2 DEF IsPaused
    <3>2. op.pc # "resize" /\ ~(op.stage = "take" /\ op.pc \in {"next", "down"})
      BY <3>1 DEF Quiet, PausedWhole
    <3>3. op.stage = "apply" /\ op.pc \in Restarting \cup {"rollback"}
      BY <1>1, <3>2 DEF MayHold, OpTold, Restarting, ApplyTypes, Applies
    <3> QED BY <2>2, <3>1, <3>3 DEF Quiet, LeftRestarting
  <2> QED BY <1>1, <2>1, <2>2, StillBy
<1>2. CASE Apply /\ Moves
  <2>0. held' = held
    BY <1>2, OpDiffers, HeldBy
  <2>1. op.restarted \subseteq op'.restarted
    BY <1>2 DEF Moves, OpBecomes, OpGoes, OpEnds, OpFails
  <2>2. MayHold \/ Resizes
    BY <1>2 DEF Moves, OpBecomes, OpGoes, OpEnds, OpFails, MayHold, Resizes, Restarting, TakeDown, StartFails, BootFails,
           TakeDownFails, OpTold
  <2> QED BY <2>0, <2>1, <2>2 DEF Quiet
<1> QED BY <1>1, <1>2, OpBy

(* A story of a worker not restarted yet stays paused, or its worker down.  *)
LEMMA LeftStep ==
    ASSUME ApplyTypes, OpTold, FilesTold, Quiet, [ApplyNext]_applyVars, OnlyApplyStarts,
           NEW w \in Workers, LeftRestarting(w)'
    PROVE  w \in paused' \/ (~Alive(w)' /\ (op'.pc # "rollback" => w \notin op'.todo /\ ~At(w)'))
<1>1. CASE Resize
  BY <1>1 DEF Resize, NarrowPause
<1>2. CASE ~Resize
  <2>1. /\ op.stage = "apply" /\ op.pc \in Restarting \cup {"rollback"} /\ w \notin op.restarted
        /\ op.pc = "rollback" => op'.pc = "rollback"
        /\ op'.pc # "rollback" => op'.todo \subseteq op.todo
        /\ At(w)' => At(w) \/ Claim(w)
    <3>1. CASE UNCHANGED op
      BY <3>1 DEF LeftRestarting, At
    <3>2. CASE Moves
      BY <1>2, <3>2 DEF Moves, OpBecomes, OpGoes, OpEnds, OpFails, Less, LeftRestarting, Restarting, OpTold, At, TakeDown,
             BringUp, StartFails, BootFails, Again
    <3> QED BY <3>1, <3>2, OpBy
  <2>2. LeftRestarting(w)
    BY <2>1 DEF LeftRestarting
  <2>3. CASE w \in paused /\ w \notin paused'
    <3>1. ~UNCHANGED op
      BY <2>3, StillBy
    <3>2. Apply
      BY <3>1, OpBy
    <3>3. Skip(w) \/ (Booted /\ op.on = w)
      <4>1. op'.pc \in Restarting \cup {"rollback"} /\ op'.stage = "apply" /\ Moves
        BY <3>2, MovesBy DEF LeftRestarting
      <4>2. ~Finally /\ ~DrainTimesOut /\ ~AllRestarted /\ ~RolledBack
        BY <4>1 DEF Finally, DrainTimesOut, AllRestarted, RolledBack, Goes, Ends, Restarting, ApplyTypes, Applies
      <4>3. \/ UNCHANGED paused \/ Booted \/ StartFails \/ BootFails
            \/ \E v \in Workers : Skip(v) /\ Resume(v)
        BY <1>2, <3>2, <4>2
           DEF Apply, Validate, Drain, Drained, Write, WriteFails, Reload,
             Skip, Claim, ClaimTimesOut, Again, TakeDown, TakeDownFails, BringUp, Booted,
             RollbackBegins, Restore, RestoreFails, ReleaseAll, pauses, PauseAll
      <4>4. ASSUME StartFails \/ BootFails PROVE UNCHANGED paused
        BY <2>1, <4>4 DEF StartFails, BootFails, BootFailed, pauses
      <4>5. Booted => paused' = paused \ {op.on}
        BY DEF Booted, Resume
      <4>6. \A v \in Workers : Resume(v) => paused' = paused \ {v}
        BY DEF Resume
      <4> QED BY <2>3, <4>3, <4>4, <4>5, <4>6
    <3>4. CASE Booted /\ op.on = w
      <4>1. w \in op'.restarted
        BY <2>1, <3>4 DEF Booted, ApplyTypes, Applies
      <4> QED BY <4>1 DEF LeftRestarting
    <3>5. CASE Skip(w)
      <4>1. op' = [op EXCEPT !.todo = @ \ {w}] /\ config' = config /\ config[w] = "down" /\ op.pc = "next"
        BY <3>5 DEF Skip, NotRunning, Alive, Looks
      <4>2. op'.pc = "next" /\ w \notin op'.todo
        BY <4>1 DEF ApplyTypes, Applies
      <4> QED BY <4>1, <4>2 DEF Alive, At
    <3> QED BY <3>3, <3>4, <3>5
  <2>4. CASE w \notin paused
    <3>1. ~Alive(w) /\ (op.pc # "rollback" => w \notin op.todo /\ ~At(w))
      BY <2>2, <2>4 DEF Quiet
    <3>2. ~Claim(w) \/ op'.pc = "rollback"
      BY <2>1, <3>1 DEF Claim, Looks
    <3>3. op'.pc # "rollback" => w \notin op'.todo /\ ~At(w)'
      BY <2>1, <3>1, <3>2
    <3>4. layer = "new" /\ op.pc # "ended"
      BY <2>1 DEF FilesTold, Restarting
    <3>5. ~(op'.pc = "booting" /\ op'.on = w)
      BY <3>3 DEF At
    <3>6. config'[w] \in {config[w], "down"}
      BY <2>1, <3>4, <3>5 DEF OnlyApplyStarts
    <3> QED BY <3>1, <3>3, <3>6 DEF Alive
  <2> QED BY <2>3, <2>4
<1> QED BY <1>1, <1>2

(* Every step keeps all of it. *)
LEMMA QuietStep ==
    ASSUME ApplyTypes, OpTold, FilesTold, Quiet, [ApplyNext]_applyVars, OnlyApplyStarts
    PROVE  Quiet'
BY PausedToldStep, MayHoldStep, LeftStep DEF Quiet, Alive

(* The lanes' sizes are from the layer in force, once the apply has read it. *)
SizesTold ==
    ~shutting_down =>
        /\ op.pc \in Early \cup {"reload"} => sizes = Before
        /\ op.pc \in Restarting /\ op.stage # "take" => sizes = layer
        /\ op.pc \in Over /\ op.outcome # "failed" => sizes = layer

(* No ticket is held when the lanes are resized, so they are. *)
LEMMA ResizedIs ==
    ASSUME ApplyTypes, ApplyInv, Quiet, ConfigTold, TicketsFreed, ~shutting_down, Resize
    PROVE  sizes' = layer /\ layer' = layer
<1>1. op.pc = "resize" /\ layer' = layer
  BY DEF Resize
<1>2. pausedAll /\ loaded = layer
  BY <1>1 DEF Quiet, PausedWhole, ApplyInv, FilesTold
<1>3. held = {}
  <2>1. CASE op.stage = "apply"
    BY <1>1, <2>1 DEF Quiet, Resizes
  <2>2. CASE op.stage = "again"
    <3>1. held \subseteq op.restarted /\ held \subseteq Workers
      BY <1>1 DEF Quiet, MayHold, ApplyTypes
    <3>2. \A w \in held : Alive(w) /\ Taken(w) /\ TakenTold(w)
      BY <1>1, <2>2, <3>1 DEF TicketsFreed, Taken, ConfigTold
    <3> QED BY <3>2 DEF TakenTold
  <2> QED BY <1>1, <2>1, <2>2 DEF ApplyInv, OpTold, ApplyTypes, Applies
<1> QED BY <1>1, <1>2, <1>3 DEF Resize

(* Every step keeps the sizes so. *)
LEMMA SizesToldStep ==
    ASSUME ApplyTypes, ApplyInv, Quiet, ConfigTold, SizesTold, [ApplyNext]_applyVars, TicketsFreed
    PROVE  SizesTold'
<1> SUFFICES ASSUME ~shutting_down' PROVE SizesTold'
  BY DEF SizesTold
<1>0. ~shutting_down /\ Before' = Before /\ FilesTold /\ OpTold
  BY ShutBy, BeforeStays DEF ApplyInv
<1>1. CASE Resize
  <2>1. sizes' = layer /\ layer' = layer
    BY <1>0, <1>1, ResizedIs
  <2>2. op'.pc = "next"
    BY <1>1 DEF Resize, Goes, ApplyTypes, Applies
  <2> QED BY <2>1, <2>2 DEF SizesTold, Early, Over
<1>2. CASE ~Resize
  <2>0. sizes' = sizes
    BY <1>2, FilesBy DEF Write, WriteFails, Reload, Restore, RestoreNow
  <2>1. UNCHANGED op \/ Moves
    BY OpBy
  <2>2. ASSUME op'.pc \in Early \cup {"reload"} PROVE sizes' = Before'
    <3>1. op.pc \in Early \cup {"reload"}
      BY <2>1, <2>2 DEF Moves, OpBecomes, OpGoes, OpEnds, OpFails, TakeDown, Early
    <3> QED BY <1>0, <2>0, <3>1 DEF SizesTold
  <2>3. ASSUME op'.pc \in Restarting, op'.stage # "take" PROVE sizes' = layer'
    <3>1. op.pc \in Restarting /\ op.stage # "take"
      BY <1>2, <2>1, <2>3 DEF Moves, OpBecomes, OpGoes, OpEnds, OpFails, Restarting, StartFails, BootFails
    <3>2. layer' = layer
      BY <1>0, <2>3, LayerBy DEF Restarting
    <3> QED BY <1>0, <2>0, <3>1, <3>2 DEF SizesTold
  <2>4. ASSUME op'.pc \in Over, op'.outcome # "failed" PROVE sizes' = layer'
    <3>1. CASE op.pc \in Over /\ op'.outcome = op.outcome
      <4>1. layer' = layer
        BY <1>0, <3>1, LayerBy DEF Over
      <4> QED BY <1>0, <2>0, <2>4, <3>1, <4>1 DEF SizesTold
    <3>2. CASE (Validate \/ DrainTimesOut \/ WriteFails) /\ op.pc \in Early
      <4>1. layer' = layer /\ layer # "new"
        BY <1>0, <3>2 DEF Validate, DrainTimesOut, WriteFails, files, FilesTold
      <4> QED BY <1>0, <2>0, <3>2, <4>1 DEF SizesTold, Before
    <3>3. CASE Reload /\ op.pc = "reload" /\ RestoreNow
      BY <1>0, <2>0, <3>3 DEF SizesTold, RestoreNow, FilesTold, Before
    <3>4. CASE (AllRestarted /\ op.pc = "next" /\ op.stage = "apply") \/ (RolledBack /\ op.pc = "next" /\ op.stage = "again")
      <4>1. layer' = layer
        BY <3>4 DEF AllRestarted, RolledBack, files
      <4> QED BY <1>0, <2>0, <3>4, <4>1 DEF SizesTold, Restarting
    <3> QED BY <1>0, <2>4, <3>1, <3>2, <3>3, <3>4, OverBy
  <2> QED BY <2>2, <2>3, <2>4 DEF SizesTold
<1> QED BY <1>1, <1>2

----------------------------------------------------------------------------
(* All the apply keeps while its windows are shut.                          *)
WholeInv == ConfigTold /\ Quiet /\ SizesTold

(* It holds at the start ... *)
LEMMA WholeInitInv == ApplyInit => WholeInv
<1> SUFFICES ASSUME ApplyInit PROVE WholeInv
  OBVIOUS
<1>1. /\ op.pc = "queued" /\ op.stage = "apply" /\ op.restarted = {}
      /\ layer # "new" /\ sizes = layer
      /\ \A w \in Workers : config[w] \in {"down", layer}
  BY DEF ApplyInit
<1>2. Before = layer
  BY <1>1 DEF Before
<1>3. \A w \in Workers : NewTold(w) /\ UnderTold(w) /\ TakenTold(w) /\ SkippedTold(w) /\ OverTold(w)
  BY <1>1, <1>2 DEF NewTold, UnderTold, TakenTold, Taken, SkippedTold, OverTold, Restarting, Over
<1>4. Quiet
  BY <1>1 DEF Quiet, Resizes, PausedWhole, MayHold, LeftRestarting, Restarting
<1>5. SizesTold
  BY <1>1, <1>2 DEF SizesTold, Restarting, Over
<1> QED BY <1>3, <1>4, <1>5 DEF WholeInv, ConfigTold

(* ... and every step keeps it. *)
LEMMA WholeStep == ApplyTypes /\ ApplyInv /\ WholeInv /\ [ApplyNext]_applyVars /\ [Undivided]_applyVars => WholeInv'
<1> SUFFICES ASSUME ApplyTypes, ApplyInv, WholeInv, [ApplyNext]_applyVars, [Undivided]_applyVars PROVE WholeInv'
  OBVIOUS
<1>1. CASE Undivided
  <2>1. OnlyApplyStarts /\ TakenInTime /\ TicketsFreed /\ OpTold /\ FilesTold
    BY <1>1 DEF Undivided, ApplyInv
  <2> QED BY <2>1, ConfigToldStep, QuietStep, SizesToldStep DEF WholeInv
<1>2. CASE UNCHANGED applyVars
  BY <1>2 DEF applyVars, WholeInv, ConfigTold, NewTold, UnderTold, TakenTold, Taken, At, Under, SkippedTold, OverTold,
         Quiet, Resizes, PausedWhole, MayHold, LeftRestarting, SizesTold, Before, Restored, Alive
<1> QED BY <1>1, <1>2

(* The workers, the pauses and the sizes, under the three windows. *)
THEOREM WholeInvHolds == ApplySpec /\ [][Undivided]_applyVars => []WholeInv
BY WholeInitInv, WholeStep, ApplyTypesHold, ApplyInvHolds, PTL DEF ApplySpec

(* The settings are applied whole or not at all: the file, this process, the *)
(* lanes and every worker that runs are under one and the same layer when an *)
(* apply is over, and nothing is held back (llm.py, perform). For any        *)
(* workers, crashes and restarts, while the three windows are shut.          *)
THEOREM ApplyIsWholeHolds == ApplySpec /\ [][Undivided]_applyVars => []ApplyIsWhole
<1>1. ApplyInv /\ WholeInv => OneConfig
  <2> SUFFICES ASSUME ApplyInv, WholeInv, op.pc = "ended", op.outcome # "failed" PROVE OneConfig
    BY DEF OneConfig
  <2>1. op.pc \in Over
    BY DEF Over
  <2>2. layer \in InForce(op.outcome) /\ loaded = layer
    BY <2>1 DEF ApplyInv, FilesTold
  <2>3. ~shutting_down => sizes = layer /\ \A w \in Workers : config[w] \in {"down", "unread", layer}
    BY <2>1 DEF WholeInv, SizesTold, ConfigTold, OverTold
  <2> QED BY <2>2, <2>3 DEF OneConfig
<1> QED BY <1>1, ApplyInvHolds, WholeInvHolds, NothingHeldBackHolds, PTL DEF ApplyIsWhole
=============================================================================
