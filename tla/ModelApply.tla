------------------------------- MODULE ModelApply -------------------------------
(***************************************************************************)
(* A change of the model settings, engine/hosting/supervisor/llm.py          *)
(* (perform): every story drained, the admin layer written, the workers      *)
(* restarted one at a time under it, and all of that undone when one does    *)
(* not boot.  Beside the operations thread: the workers, which read the      *)
(* layer while they start, crash and run turns, and the main thread and the  *)
(* reaper, which restart what crashed (server.py).                           *)
(*                                                                          *)
(* Times (drain_seconds, boot_seconds, the claim's deadline, the backoff)    *)
(* may pass at any moment.  A definition commented `Slip:' is no part of the *)
(* model: it is a likely mistake in the one after it, kept to show which     *)
(* property would notice.                                                    *)
(***************************************************************************)
EXTENDS Naturals, FiniteSets

CONSTANTS
    Workers,      \* the stories' workers, a story each
    NoWorker,     \* the apply is at no worker
    MaxRestarts,  \* hosting.supervisor.max_restarts
    MaxCrashes    \* bound: processes that die unasked

ASSUME ApplyConstants ==
    /\ NoWorker \notin Workers
    /\ MaxRestarts \in Nat \ {0} /\ MaxCrashes \in Nat

VARIABLES
    layer,     \* admin.yaml: none, old, or the new one
    prev,      \* admin.yaml.prev
    loaded,    \* the layer this process's config was read from
    sizes,     \* the layer the lanes' sizes are from
    child,     \* what the supervisor knows of each worker
    config,    \* the layer a worker's process runs under: unread while it
               \* starts, down when there is no process
    held,      \* the workers whose connection holds a lane ticket
    pausedAll, paused, closing,   \* the pauses, to the stories
    op,        \* the apply
    claimed,   \* ModelServer._claimed
    crashes,   \* processes that died so far
    shutting_down

applyVars == <<layer, prev, loaded, sizes, child, config, held, pausedAll, paused,
          closing, op, claimed, crashes, shutting_down>>

files == <<layer, prev, loaded, sizes>>
pauses == <<pausedAll, paused, closing>>
rest == <<crashes, shutting_down>>

Alive(w) == config[w] # "down"
IsPaused(w) == pausedAll \/ w \in paused \/ w \in closing

ApplyInit ==
    /\ layer \in {"none", "old"} /\ prev \in {"none", "stale"}
    /\ loaded = layer /\ sizes = layer
    /\ \E down \in SUBSET Workers :
          /\ child = [w \in Workers |->
                        [state |-> IF w \in down THEN "stopped" ELSE "up",
                         stopping |-> FALSE, applying |-> FALSE, crashed |-> 0]]
          /\ config = [w \in Workers |-> IF w \in down THEN "down" ELSE layer]
    /\ held = {} /\ pausedAll = FALSE /\ paused = {} /\ closing = {}
    /\ op = [pc |-> "queued", stage |-> "apply", todo |-> Workers, on |-> NoWorker,
             restarted |-> {}, had_prev |-> FALSE, outcome |-> "none"]
    /\ claimed = {} /\ crashes = 0 /\ shutting_down = FALSE

----------------------------------------------------------------------------
(* The workers: a turn takes and gives back a lane ticket; a closed          *)
(* connection frees its tickets when the bus notices, after the process is   *)
(* gone.                                                                     *)
TurnStarts(w) ==
    /\ child[w].state = "up" /\ Alive(w) /\ ~IsPaused(w) /\ w \notin held
    /\ held' = held \cup {w}
    /\ UNCHANGED <<files, child, config, pauses, op, claimed, rest>>

TurnEnds(w) ==
    /\ w \in held
    /\ held' = held \ {w}
    /\ UNCHANGED <<files, child, config, pauses, op, claimed, rest>>

ReadsConfig(w) ==
    /\ config[w] = "unread"
    /\ config' = [config EXCEPT ![w] = layer]
    /\ UNCHANGED <<files, child, held, pauses, op, claimed, rest>>

Dies(w) ==
    /\ Alive(w) /\ crashes < MaxCrashes
    /\ config' = [config EXCEPT ![w] = "down"] /\ crashes' = crashes + 1
    /\ UNCHANGED <<files, child, held, pauses, op, claimed, shutting_down>>

----------------------------------------------------------------------------
(* The restart policy (_apply_policy). *)
AfterCrash(r) ==
    IF shutting_down THEN [r EXCEPT !.state = "stopped", !.stopping = FALSE]
    ELSE IF r.crashed >= MaxRestarts THEN [r EXCEPT !.state = "held_down", !.stopping = FALSE]
    ELSE [r EXCEPT !.state = "restarting", !.stopping = FALSE, !.crashed = @ + 1]

Ours(w) == child[w].stopping \/ child[w].applying

(* _tick_one: a crash goes to the reaper ... *)
TickCrash(w) ==
    /\ ~Ours(w) /\ child[w].state \in {"starting", "up"} /\ ~Alive(w) /\ ~shutting_down
    /\ child' = [child EXCEPT ![w].stopping = TRUE]
    /\ UNCHANGED <<files, config, held, pauses, op, claimed, rest>>

Reap(w) ==
    /\ child[w].stopping /\ ~child[w].applying /\ w \notin claimed
    /\ child[w].state \in {"starting", "up"} /\ ~Alive(w)
    /\ child' = [child EXCEPT ![w] = AfterCrash(@)]
    /\ UNCHANGED <<files, config, held, pauses, op, claimed, rest>>

(* ... one due starts again, and a passing check makes it ready. *)
Spawned(w) ==
    /\ child' = [child EXCEPT ![w].state = "starting", ![w].stopping = FALSE]
    /\ config' = [config EXCEPT ![w] = "unread"]

TickRespawn(w) ==
    /\ ~Ours(w) /\ child[w].state = "restarting" /\ ~shutting_down
    /\ Spawned(w)
    /\ UNCHANGED <<files, held, pauses, op, claimed, rest>>

TickReady(w) ==
    /\ ~Ours(w) /\ child[w].state = "starting" /\ config[w] \notin {"down", "unread"}
    /\ child' = [child EXCEPT ![w].state = "up"]
    /\ UNCHANGED <<files, config, held, pauses, op, claimed, rest>>

ShutdownAsked ==
    /\ ~shutting_down /\ shutting_down' = TRUE
    /\ child' = [w \in Workers |-> [child[w] EXCEPT !.stopping = TRUE]]
    /\ UNCHANGED <<files, config, held, pauses, op, claimed, crashes>>

----------------------------------------------------------------------------
(* The queue's operations. *)
PauseAll == pausedAll' = TRUE /\ UNCHANGED <<paused, closing>>
NarrowPause == pausedAll' = FALSE /\ paused' = paused \cup Workers /\ UNCHANGED closing
ResumeAll == pausedAll' = FALSE /\ paused' = {} /\ closing' = {}
Resume(w) == paused' = paused \ {w} /\ closing' = closing \ {w} /\ UNCHANGED pausedAll

Goes(pc) == op' = [op EXCEPT !.pc = pc]
Ends(outcome) == op' = [op EXCEPT !.pc = "finally", !.outcome = outcome]

(* Steps 1 and 2 (the form, the changes, the new server): nothing is changed *)
(* by a refusal.                                                             *)
Validate ==
    /\ op.pc = "queued"
    /\ \/ Ends("refused")
       \/ ~shutting_down /\ Goes("drain")
    /\ UNCHANGED <<files, child, config, held, pauses, claimed, rest>>

(* Step 3: no new turn in any story, and a wait for the tickets held. *)
Drain ==
    /\ op.pc = "drain"
    /\ PauseAll /\ Goes("draining")
    /\ UNCHANGED <<files, child, config, held, claimed, rest>>

DrainTimesOut ==
    /\ op.pc = "draining" /\ held # {}
    /\ ResumeAll /\ Ends("refused")
    /\ UNCHANGED <<files, child, config, held, claimed, rest>>

Drained ==
    /\ op.pc = "draining" /\ held = {}
    /\ Goes("write")
    /\ UNCHANGED <<files, child, config, held, pauses, claimed, rest>>

(* Step 4: the file in force is kept as .prev (a stale one removed when      *)
(* there is none), then the new one is in force; or either cannot be written. *)
Write ==
    /\ op.pc = "write"
    /\ prev' = layer /\ layer' = "new"
    /\ op' = [op EXCEPT !.pc = "reload", !.had_prev = layer # "none"]
    /\ UNCHANGED <<loaded, sizes, child, config, held, pauses, claimed, rest>>

WriteFails ==
    /\ op.pc = "write"
    /\ prev' \in {prev, layer}
    /\ Ends("refused")
    /\ UNCHANGED <<layer, loaded, sizes, child, config, held, pauses, claimed, rest>>

(* _restore, and the config re-read. *)
Restored == IF op.had_prev /\ prev # "none" THEN prev ELSE "none"

RestoreNow == layer' = Restored /\ loaded' = Restored /\ UNCHANGED <<prev, sizes>>

Reload ==
    /\ op.pc = "reload"
    /\ \/ loaded' = layer /\ Goes("resize") /\ UNCHANGED <<layer, prev, sizes>>
       \/ RestoreNow /\ Ends("refused")
    /\ UNCHANGED <<child, config, held, pauses, claimed, rest>>

(* _resize, refused while a ticket is held; then each story is paused on its *)
(* own.                                                                      *)
Resize ==
    /\ op.pc = "resize"
    /\ sizes' = IF pausedAll /\ held = {} THEN loaded ELSE sizes
    /\ NarrowPause
    /\ Goes("next")
    /\ UNCHANGED <<layer, prev, loaded, child, config, held, claimed, rest>>

----------------------------------------------------------------------------
(* Step 5, a worker at a time (_restart): it is taken from the main thread   *)
(* (_claim); one that is stopped or held down is left as it is ...           *)
NotRunning(w) == child[w].state \in {"stopped", "held_down"} /\ ~Alive(w)

Looks(w) ==
    /\ op.pc = "next" /\ op.stage # "again" /\ w \in op.todo

Skip(w) ==
    /\ Looks(w) /\ ~child[w].stopping /\ NotRunning(w)
    /\ op' = [op EXCEPT !.todo = @ \ {w}]
    /\ IF op.stage = "apply" THEN Resume(w) ELSE UNCHANGED pauses
    /\ UNCHANGED <<files, child, config, held, claimed, rest>>

Claim(w) ==
    /\ Looks(w) /\ ~child[w].stopping /\ ~NotRunning(w)
    /\ child' = [child EXCEPT ![w].stopping = TRUE, ![w].applying = TRUE]
    /\ claimed' = claimed \cup {w}
    /\ op' = [op EXCEPT !.pc = "down", !.todo = @ \ {w}, !.on = w]
    /\ UNCHANGED <<files, config, held, pauses, rest>>

(* What a failure after the write leads to: the settings are put back, or,   *)
(* in a shutdown, kept for the next start.  Nothing catches one on the way   *)
(* back.                                                                     *)
Failure ==
    IF op.stage # "apply" THEN Ends("failed")
    ELSE IF shutting_down THEN Ends("next_start")
    ELSE op' = [op EXCEPT !.pc = "rollback", !.on = NoWorker]

ClaimTimesOut(w) ==
    /\ Looks(w) /\ child[w].stopping
    /\ IF op.stage = "apply" THEN Failure ELSE op' = [op EXCEPT !.todo = @ \ {w}]
    /\ UNCHANGED <<files, child, config, held, pauses, claimed, rest>>

(* ... its waiting turns answered busy, its requests let finish, stopped     *)
(* (_take_down) ...                                                          *)
TakeDown ==
    /\ op.pc = "down"
    /\ closing' = closing \cup {op.on} /\ UNCHANGED <<pausedAll, paused>>
    /\ child' = [child EXCEPT ![op.on].state = "stopped"]
    /\ config' = [config EXCEPT ![op.on] = "down"]
    /\ Goes(IF op.stage = "apply" THEN "up" ELSE "next")
    /\ UNCHANGED <<files, held, claimed, rest>>

TakeDownFails ==
    /\ op.pc = "down"
    /\ closing' = closing \cup {op.on} /\ UNCHANGED <<pausedAll, paused>>
    /\ Failure
    /\ UNCHANGED <<files, child, config, held, claimed, rest>>

(* ... started (_bring_up; a start that fails is a failed boot) ...          *)
BringUp ==
    /\ op.pc = "up"
    /\ Spawned(op.on) /\ Goes("booting")
    /\ UNCHANGED <<files, held, pauses, claimed, rest>>

(* On the way back a worker that does not start is left to the end.          *)
BootFailed ==
    IF op.stage = "again" THEN Resume(op.on) /\ Goes("next")
                          ELSE Failure /\ UNCHANGED pauses

StartFails ==
    /\ op.pc = "up"
    /\ child' = [child EXCEPT ![op.on].state = "stopped", ![op.on].stopping = TRUE]
    /\ BootFailed
    /\ UNCHANGED <<files, config, held, claimed, rest>>

(* ... and, once ready, given back to the main thread (_release) and its     *)
(* story's turns admitted again; or stopped, when it exits or takes too long. *)
Booted ==
    /\ op.pc = "booting" /\ config[op.on] \notin {"down", "unread"} /\ ~shutting_down
    /\ child' = [child EXCEPT ![op.on].state = "up", ![op.on].applying = FALSE,
                              ![op.on].stopping = FALSE]
    /\ claimed' = claimed \ {op.on}
    /\ Resume(op.on)
    /\ op' = [op EXCEPT !.pc = "next",
                        !.restarted = IF op.stage = "apply" THEN @ \cup {op.on} ELSE @]
    /\ UNCHANGED <<files, config, held, rest>>

BootFails ==
    /\ op.pc = "booting"
    /\ child' = [child EXCEPT ![op.on].state = "stopped", ![op.on].stopping = TRUE]
    /\ config' = [config EXCEPT ![op.on] = "down"]
    /\ BootFailed
    /\ UNCHANGED <<files, held, claimed, rest>>

AllRestarted ==
    /\ op.pc = "next" /\ op.stage = "apply" /\ op.todo = {}
    /\ ResumeAll /\ Ends("done")
    /\ UNCHANGED <<files, child, config, held, claimed, rest>>

----------------------------------------------------------------------------
(* Slip: the workers restarted already keep running under the new file. *)
RollbackBeginsFailedOnly ==
    /\ op.pc = "rollback"
    /\ PauseAll
    /\ op' = [op EXCEPT !.pc = "next", !.stage = "take", !.todo = {}]
    /\ UNCHANGED <<files, child, config, held, claimed, rest>>

(* _rollback: the drain again (its result is not looked at), the workers     *)
(* this apply restarted taken down ...                                       *)
RollbackBegins ==
    /\ op.pc = "rollback"
    /\ PauseAll
    /\ op' = [op EXCEPT !.pc = "next", !.stage = "take", !.todo = op.restarted]
    /\ UNCHANGED <<files, child, config, held, claimed, rest>>

(* ... the file put back, the config re-read, and those and the one that     *)
(* failed started again.                                                     *)
Restore ==
    /\ op.pc = "next" /\ op.stage = "take" /\ op.todo = {}
    /\ RestoreNow
    /\ op' = [op EXCEPT !.pc = "resize", !.stage = "again",
                        !.todo = {w \in claimed : ~Alive(w)}]
    /\ UNCHANGED <<child, config, held, pauses, claimed, rest>>

RestoreFails ==
    /\ op.pc = "next" /\ op.stage = "take" /\ op.todo = {}
    /\ Ends("failed")
    /\ UNCHANGED <<files, child, config, held, pauses, claimed, rest>>

Again(w) ==
    /\ op.pc = "next" /\ op.stage = "again" /\ w \in op.todo
    /\ op' = [op EXCEPT !.pc = "up", !.on = w, !.todo = @ \ {w}]
    /\ UNCHANGED <<files, child, config, held, pauses, claimed, rest>>

RolledBack ==
    /\ op.pc = "next" /\ op.stage = "again" /\ op.todo = {}
    /\ ResumeAll /\ Ends("rolled_back")
    /\ UNCHANGED <<files, child, config, held, claimed, rest>>

(* The finally clause: nothing left paused, nothing left claimed             *)
(* (_release_all: what is not running goes through the restart policy).      *)
Finally ==
    /\ op.pc = "finally"
    /\ ResumeAll /\ Goes("release")
    /\ UNCHANGED <<files, child, config, held, claimed, rest>>

LetGo(w) ==
    LET r == [child[w] EXCEPT !.applying = FALSE]
    IN  IF ~Alive(w) /\ r.state = "stopped" /\ ~shutting_down THEN AfterCrash(r)
        ELSE [r EXCEPT !.stopping = FALSE]

ReleaseAll ==
    /\ op.pc = "release"
    /\ child' = [w \in Workers |-> IF w \in claimed THEN LetGo(w) ELSE child[w]]
    /\ claimed' = {}
    /\ Goes("ended")
    /\ UNCHANGED <<files, config, held, pauses, rest>>

----------------------------------------------------------------------------
Apply ==
    \/ Validate \/ Drain \/ DrainTimesOut \/ Drained \/ Write \/ WriteFails
    \/ Reload \/ Resize
    \/ \E w \in Workers : Skip(w) \/ Claim(w) \/ ClaimTimesOut(w) \/ Again(w)
    \/ TakeDown \/ TakeDownFails \/ BringUp \/ StartFails \/ Booted \/ BootFails
    \/ AllRestarted \/ RollbackBegins \/ Restore \/ RestoreFails \/ RolledBack
    \/ Finally \/ ReleaseAll

Worker(w) ==
    \/ TurnStarts(w) \/ TurnEnds(w) \/ ReadsConfig(w) \/ Dies(w)
    \/ TickCrash(w) \/ Reap(w) \/ TickRespawn(w) \/ TickReady(w)

ApplyNext == Apply \/ ShutdownAsked \/ \E w \in Workers : Worker(w)

ApplySpec == ApplyInit /\ [][ApplyNext]_applyVars

----------------------------------------------------------------------------
(* The settings are applied whole or not at all: when the apply is over, the *)
(* file in force is the one its outcome says, and every worker that runs,    *)
(* and the lanes, are under it, whatever crashed on the way.                 *)
InForce(outcome) ==
    IF outcome \in {"done", "next_start"} THEN {"new"} ELSE {"none", "old"}

OneConfig ==
    op.pc = "ended" /\ op.outcome # "failed" =>
        /\ layer \in InForce(op.outcome) /\ loaded = layer
        /\ ~shutting_down =>
              /\ sizes = layer
              /\ \A w \in Workers : config[w] \in {"down", "unread", layer}

(* However it ends, no story is left paused and no worker is left to nobody. *)
NothingHeldBack ==
    op.pc = "ended" =>
        /\ ~pausedAll /\ paused = {} /\ closing = {} /\ claimed = {}
        /\ ~shutting_down =>
              \A w \in Workers :
                  /\ ~child[w].applying
                  /\ child[w].stopping => child[w].state \in {"starting", "up"} /\ ~Alive(w)
                  /\ child[w].state = "stopped" => w \notin op.restarted

ApplyIsWhole == OneConfig /\ NothingHeldBack
=============================================================================
