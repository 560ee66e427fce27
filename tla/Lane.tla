---------------------------------- MODULE Lane ----------------------------------
(***************************************************************************)
(* What a lane of the inference gate promises (engine/llm/gate.py): no more *)
(* inside than it has slots, and the waiters served in the order in which   *)
(* they came, except that anyone may leave the line.                        *)
(***************************************************************************)
EXTENDS Naturals, Sequences, FiniteSets

CONSTANTS
    Threads,   \* whoever may ask
    Slots      \* the lane's size

VARIABLES
    line,      \* the waiters, the first to come first
    inside     \* whoever has a slot

laneVars == <<line, inside>>

Waiting == {line[i] : i \in DOMAIN line}
Free == Cardinality(inside) < Slots

(* The line without its i-th. *)
Without(i) == [j \in 1..(Len(line) - 1) |-> line[IF j < i THEN j ELSE j + 1]]

LaneInit == line = <<>> /\ inside = {}

(* A slot at once, only if one is free and nobody waits ... *)
Enter(t) ==
    /\ t \notin inside \cup Waiting /\ line = <<>> /\ Free
    /\ inside' = inside \cup {t} /\ UNCHANGED line

(* ... or a place at the back. *)
Queue(t) ==
    /\ t \notin inside \cup Waiting /\ ~(line = <<>> /\ Free)
    /\ line' = Append(line, t) /\ UNCHANGED inside

Serve ==
    /\ line # <<>> /\ Free
    /\ inside' = inside \cup {line[1]} /\ line' = Without(1)

Leave(i) ==
    /\ i \in DOMAIN line
    /\ line' = Without(i) /\ UNCHANGED inside

Exit(t) ==
    /\ t \in inside
    /\ inside' = inside \ {t} /\ UNCHANGED line

LaneNext ==
    \/ \E t \in Threads : Enter(t) \/ Queue(t) \/ Exit(t)
    \/ Serve \/ \E i \in DOMAIN line : Leave(i)

LaneSpec == LaneInit /\ [][LaneNext]_laneVars
=============================================================================
