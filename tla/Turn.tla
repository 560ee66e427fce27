----------------------------------- MODULE Turn -----------------------------------
(***************************************************************************)
(* One turn of a session, from the pressed choice to the next frame:        *)
(* engine/scenes/default_scene.py (the two doors, run_guarded,              *)
(* _run_world_turn), default_state.py (run_turn), agents/storyteller.py,    *)
(* agents/mechanics.py, agents/pipeline.py, game/transaction.py.            *)
(*                                                                          *)
(* What a turn does to the game is a set of effects, each named for the     *)
(* press it belongs to and the phase that applied it.  A definition         *)
(* commented `Slip:' is no part of the model: it is a likely mistake in the *)
(* one after it, kept to show which property would notice.                  *)
(***************************************************************************)
EXTENDS Naturals

CONSTANTS
    Presses,      \* presses of a choice: a socket event or a request each
    NoPress,      \* nobody holds a lock
    Voice,        \* a voicing pass in its call
    Tools,        \* tool calls a model may make in a turn's mechanics phase
    ChoiceIds,    \* of choices; every frame counts them from the first
    Frames, On,   \* On[f]: the ids that the frame f offers
    NoFrame,      \* a choice the frame does not hold
    MaxPhone,     \* frames after which the phone is left alone
    MaxRetries    \* StorytellerAgent.MAX_RETRIES

Phases == {"choice", "plan", "quest"} \cup Tools

ASSUME TurnConstants ==
    /\ NoPress \notin Presses \cup {Voice} /\ Voice \notin Presses
    /\ {"choice", "plan", "quest"} \cap Tools = {}
    /\ Frames \subseteq Nat /\ On \in [Frames -> SUBSET ChoiceIds] /\ NoFrame \notin Frames
    /\ MaxPhone \in Nat /\ MaxRetries \in Nat

VARIABLES
    gated,       \* session.narration_turnstile: the story has a phone
    frame,       \* session.last_turn
    phone_up,    \* the phone is in the player's hand
    turnLock,    \* session.lock
    stile,       \* the turnstile's holder: a press, or a voice call
    applied,     \* the GameState: the effects applied to it
    stage,       \* where each press is
    chosen,      \* its id, and the frames its sentence and its intent are of
    receipts,    \* what its narrator is told has happened
    flying,      \* its tool calls at work on the skills server's thread
    heard,       \* its receipts that came back in the stream
    before,      \* StateTransaction._snapshot
    tries        \* drafts rejected

doorVars == <<gated, frame, phone_up, turnLock, stile, chosen>>
playVars == <<applied, receipts, flying, heard, before, tries>>
pressVars == <<doorVars, playVars, stage>>

InTurn == {"locked", "acted", "negotiated", "tools", "drafting", "framed"}

TurnInit ==
    /\ gated \in BOOLEAN /\ frame = 0 /\ phone_up = FALSE
    /\ turnLock = NoPress /\ stile = NoPress
    /\ applied = {}
    /\ stage = [p \in Presses |-> "new"]
    /\ chosen = [p \in Presses |-> [id |-> NoFrame, sentence |-> NoFrame, intent |-> NoFrame]]
    /\ receipts = [p \in Presses |-> {}] /\ flying = [p \in Presses |-> {}]
    /\ heard = [p \in Presses |-> {}] /\ before = [p \in Presses |-> {}]
    /\ tries = [p \in Presses |-> 0]

To(p, there) == stage' = [stage EXCEPT ![p] = there]

(* _chosen: the option of this id in the frame of now. *)
OfFrame(id) == IF id \in On[frame] THEN frame ELSE NoFrame

----------------------------------------------------------------------------
(* The door, on_player_choice and api_choice, holding no lock: a phone in    *)
(* hand and a choice that is no longer on offer are refused, the second     *)
(* only while no turn runs; then the sentence is read, then the mechanic.   *)
Arrives(p) ==
    /\ stage[p] = "new" /\ ~phone_up
    /\ \E id \in ChoiceIds :
          /\ turnLock = NoPress => id \in On[frame]
          /\ chosen' = [chosen EXCEPT ![p].id = id]
    /\ To(p, "arrived")
    /\ UNCHANGED <<gated, frame, phone_up, turnLock, stile, playVars>>

ReadsSentence(p) ==
    /\ stage[p] = "arrived"
    /\ chosen' = [chosen EXCEPT ![p].sentence = OfFrame(chosen[p].id)]
    /\ To(p, "worded")
    /\ UNCHANGED <<gated, frame, phone_up, turnLock, stile, playVars>>

ReadsIntent(p) ==
    /\ stage[p] = "worded"
    /\ chosen' = [chosen EXCEPT ![p].intent = OfFrame(chosen[p].id)]
    /\ To(p, IF gated THEN "waits" ELSE "ready")
    /\ UNCHANGED <<gated, frame, phone_up, turnLock, stile, playVars>>

(* A phone story's world turn takes the turnstile first: the one wait, for a *)
(* voice call or for another world turn, which may outlast its patience.    *)
Turnstile(p) ==
    /\ stage[p] = "waits"
    /\ \/ stile = NoPress /\ stile' = p /\ To(p, "ready")
       \/ stile # NoPress /\ To(p, "done") /\ UNCHANGED stile
    /\ UNCHANGED <<gated, frame, phone_up, turnLock, chosen, playVars>>

FreesStile(p) == stile' = IF stile = p THEN NoPress ELSE stile

(* The turn lock is tried; under it the phone is looked at once more. *)
TriesLock(p) ==
    /\ stage[p] = "ready"
    /\ IF turnLock = NoPress /\ ~phone_up
       THEN turnLock' = p /\ To(p, "locked") /\ UNCHANGED stile
       ELSE To(p, "done") /\ FreesStile(p) /\ UNCHANGED turnLock
    /\ UNCHANGED <<gated, frame, phone_up, chosen, playVars>>

(* release_turn and the turnstile's release; what run_turn kept is gone. *)
LetsGo(p, there) ==
    /\ turnLock' = NoPress /\ FreesStile(p) /\ To(p, there)
    /\ heard' = [heard EXCEPT ![p] = {}] /\ before' = [before EXCEPT ![p] = {}]
    /\ tries' = [tries EXCEPT ![p] = 0]

(* No ticket in time, called off, or its player is gone: nothing has run. *)
NotAdmitted(p) ==
    /\ stage[p] = "locked" /\ LetsGo(p, "done")
    /\ UNCHANGED <<gated, frame, phone_up, chosen, applied, receipts, flying>>

----------------------------------------------------------------------------
Applies(p, phase) ==
    /\ applied' = applied \cup {<<p, phase>>}
    /\ receipts' = [receipts EXCEPT ![p] = @ \cup {<<p, phase>>}]

(* Admitted, the turn runs: execute_intent and what goes with it is done,   *)
(* with a receipt, or refused.                                              *)
Acts(p) ==
    /\ stage[p] = "locked"
    /\ \/ chosen[p].intent # NoFrame /\ Applies(p, "choice")
       \/ UNCHANGED <<applied, receipts>>
    /\ To(p, "acted")
    /\ UNCHANGED <<doorVars, flying, heard, before, tries>>

(* run_pipeline: the agents' effects together, or rolled back together. *)
Negotiates(p) ==
    /\ stage[p] = "acted"
    /\ Applies(p, "plan") \/ UNCHANGED <<applied, receipts>>
    /\ To(p, "negotiated")
    /\ UNCHANGED <<doorVars, flying, heard, before, tries>>

(* run_mechanics_phase: the model server is asked, and it calls the tools of *)
(* the skills server, whose thread applies them under no lock ...           *)
AsksTools(p) ==
    /\ stage[p] = "negotiated" /\ To(p, "tools")
    /\ UNCHANGED <<doorVars, playVars>>

CallsTool(p, t) ==
    /\ stage[p] = "tools" /\ <<p, t>> \notin applied /\ t \notin flying[p]
    /\ flying' = [flying EXCEPT ![p] = @ \cup {t}]
    /\ UNCHANGED <<doorVars, stage, applied, receipts, heard, before, tries>>

ToolLands(p, t) ==
    /\ t \in flying[p]
    /\ applied' = applied \cup {<<p, t>>}
    /\ flying' = [flying EXCEPT ![p] = @ \ {t}]
    /\ heard' = [heard EXCEPT ![p] = IF stage[p] = "tools" THEN @ \cup {<<p, t>>} ELSE @]
    /\ UNCHANGED <<doorVars, stage, receipts, before, tries>>

(* Slip: StateTransaction's snapshot is of before the mechanics phase. *)
ToolsAnsweredInside(p) ==
    /\ stage[p] = "tools" /\ flying[p] = {}
    /\ receipts' = [receipts EXCEPT ![p] = @ \cup heard[p]]
    /\ before' = [before EXCEPT ![p] = applied \ heard[p]]
    /\ To(p, "drafting")
    /\ UNCHANGED <<doorVars, applied, flying, heard, tries>>

(* ... until the stream ends, and its receipts are the narrator's; if it     *)
(* breaks, there are none.  Then StateTransaction takes its snapshot.       *)
ToolsAnswered(p) ==
    /\ stage[p] = "tools" /\ flying[p] = {}
    /\ receipts' = [receipts EXCEPT ![p] = @ \cup heard[p]]
    /\ before' = [before EXCEPT ![p] = applied]
    /\ To(p, "drafting")
    /\ UNCHANGED <<doorVars, applied, flying, heard, tries>>

ToolsFailed(p) ==
    /\ stage[p] = "tools"
    /\ before' = [before EXCEPT ![p] = applied]
    /\ To(p, "drafting")
    /\ UNCHANGED <<doorVars, applied, receipts, flying, heard, tries>>

(* A draft the evaluator rejects is rolled back and written again. *)
Redrafts(p) ==
    /\ stage[p] = "drafting" /\ tries[p] < MaxRetries
    /\ applied' = before[p]
    /\ tries' = [tries EXCEPT ![p] = @ + 1]
    /\ UNCHANGED <<doorVars, stage, receipts, flying, heard, before>>

(* The draft stands; what the companion and _evaluate_quests apply after it *)
(* is for the next turn's narrator; then last_turn.                         *)
Narrates(p) ==
    /\ stage[p] = "drafting" /\ frame + 1 \in Frames
    /\ applied' \in {applied, applied \cup {<<p, "quest">>}}
    /\ frame' = frame + 1 /\ To(p, "framed")
    /\ UNCHANGED <<gated, phone_up, turnLock, stile, chosen, receipts, flying, heard, before, tries>>

(* Memory, the autosave and the answer; somebody met on the way makes a     *)
(* frame of its own (_meet_if_here).                                        *)
TurnDone(p) ==
    /\ stage[p] = "framed" /\ LetsGo(p, "done")
    /\ frame' \in {frame} \cup (IF gated /\ frame < MaxPhone THEN {frame + 1} ELSE {})
    /\ UNCHANGED <<gated, phone_up, chosen, applied, receipts, flying>>

(* A turn that raises (_turn_failed) leaves what it did. *)
TurnRaises(p) ==
    /\ stage[p] \in InTurn \ {"tools"} /\ LetsGo(p, "failed")
    /\ UNCHANGED <<gated, frame, phone_up, chosen, applied, receipts, flying>>

(* A phone action between turns: the phone is picked up or put down, and    *)
(* the row of choices may be made anew (run_mechanics).                     *)
PhoneActs ==
    /\ gated /\ turnLock = NoPress /\ frame < MaxPhone
    /\ phone_up' \in BOOLEAN /\ frame' \in {frame, frame + 1}
    /\ UNCHANGED <<gated, turnLock, stile, stage, chosen, playVars>>

(* A voicing pass takes the turnstile for one call, when no world turn waits *)
(* (try_acquire_voice).                                                     *)
VoiceCalls ==
    /\ gated /\ stile = NoPress /\ \A p \in Presses : stage[p] # "waits"
    /\ stile' = Voice
    /\ UNCHANGED <<gated, frame, phone_up, turnLock, chosen, stage, playVars>>

VoiceAnswered ==
    /\ stile = Voice /\ stile' = NoPress
    /\ UNCHANGED <<gated, frame, phone_up, turnLock, chosen, stage, playVars>>

----------------------------------------------------------------------------
Comes(p) ==
    Arrives(p) \/ ReadsSentence(p) \/ ReadsIntent(p) \/ Turnstile(p) \/ TriesLock(p)

Runs(p) ==
    \/ NotAdmitted(p) \/ Acts(p) \/ Negotiates(p) \/ AsksTools(p)
    \/ \E t \in Tools : CallsTool(p, t) \/ ToolLands(p, t)
    \/ ToolsAnswered(p) \/ ToolsFailed(p) \/ Redrafts(p) \/ Narrates(p)
    \/ TurnDone(p) \/ TurnRaises(p)

TurnNext ==
    \/ PhoneActs \/ VoiceCalls \/ VoiceAnswered
    \/ \E p \in Presses : Comes(p) \/ Runs(p)

TurnSpec == TurnInit /\ [][TurnNext]_pressVars

----------------------------------------------------------------------------
Stages == {"new", "arrived", "worded", "waits", "ready", "done", "failed"} \cup InTurn

TurnTypeOK ==
    /\ gated \in BOOLEAN /\ phone_up \in BOOLEAN /\ frame \in Nat
    /\ turnLock \in Presses \cup {NoPress}
    /\ stile \in Presses \cup {NoPress, Voice}
    /\ applied \subseteq Presses \X Phases
    /\ stage \in [Presses -> Stages]
    /\ receipts \in [Presses -> SUBSET (Presses \X Phases)]
    /\ heard \in [Presses -> SUBSET (Presses \X Phases)]
    /\ before \in [Presses -> SUBSET (Presses \X Phases)]
    /\ flying \in [Presses -> SUBSET Tools]
    /\ tries \in [Presses -> 0..MaxRetries]

(* Whatever the narrator was told has happened: no rollback of a rejected   *)
(* draft, of this turn or a later one, takes it back, although tool calls   *)
(* land on another thread at any time (mechanics.py: "exactly as durable as *)
(* a resolved player intent").                                              *)
ToldIsKept == \A p \in Presses : receipts[p] \subseteq applied

(* A turn runs only a choice that the frame of now offers, sentence and     *)
(* intent alike (default_state.py, stale_choice; default_scene.py, "Both    *)
(* come from the same choice").                                             *)
ChosenIsOffered ==
    \A p \in Presses :
        stage[p] \in InTurn \ {"framed"} =>
            /\ chosen[p].id \in On[frame]
            /\ chosen[p].sentence = frame /\ chosen[p].intent = frame
=============================================================================
