--------------------------------- MODULE Promises ---------------------------------
(***************************************************************************)
(* The promises between the player and one person of a phone story:         *)
(* engine/social/promises.py, with what convo.py, messaging.py, voicer.py,  *)
(* matching.py and relationships.py do to them and to the person's queued   *)
(* events.  Persons share nothing here; dates are a phase of each window.   *)
(*                                                                          *)
(* An open promise is judged by the event, or by the due message, that      *)
(* names it: its carrier.  A definition commented `Slip:' is no part of the *)
(* model: it is a likely mistake in the one after it.                       *)
(***************************************************************************)
EXTENDS Naturals

CONSTANT MaxPromises    \* bounds counters["promise"]

ASSUME PromisesConstants == MaxPromises \in Nat

PromiseIds == 1..MaxPromises
NoPromise == 0

VARIABLES
    made,        \* state.social["counters"]["promise"]
    row,         \* state.social["promises"], and what will judge each
    asked,       \* the person's promise_asked: who is to keep it
    broken,      \* the person's broken_promise
    relation,    \* the relationship: live, faded (or expired), ended
    gone,        \* unmatched by either side, or blocked
    ghosted,     \* the person went quiet
    together,    \* the person is with the player: their texts are held
    dropped      \* history: those whose event an unmatch or an ending dropped

promisesVars == <<made, row, asked, broken, relation, gone, ghosted, together, dropped>>

QueueKinds == {"promise_due", "promise_close", "initiate"}   \* kinds of events
Carriers == QueueKinds \cup {"message", "none"}
Closed == {"kept", "broken", "void"}

Unmade == [status |-> "unmade", by |-> "person", phase |-> "before", carrier |-> "none"]

(* A fresh row and the event that will judge it: the person's by the        *)
(* message due in its window, the player's when the window and its grace    *)
(* are over.                                                                *)
NewRow(by) ==
    [status |-> "open", by |-> by, phase |-> "before",
     carrier |-> IF by = "person" THEN "promise_due" ELSE "promise_close"]

PromisesInit ==
    /\ made = 0 /\ row = [i \in PromiseIds |-> Unmade]
    /\ asked = "none" /\ broken = NoPromise
    /\ relation = "live" /\ gone = FALSE /\ ghosted = FALSE /\ together = FALSE
    /\ dropped = {}

Open(i, by) == row[i].status = "open" /\ row[i].by = by

(* An op that closes an open row leaves a closed one as it is. *)
Closes(r, status) == IF r.status = "open" THEN [r EXCEPT !.status = status] ELSE r

(* Judged for good: nothing names it any more. *)
Settles(i, status) == [row EXCEPT ![i] = [Closes(@, status) EXCEPT !.carrier = "none"]]

(* The promise_id'd events of theirs, of these kinds, are off the queue. *)
Cancelled(kinds) ==
    [i \in PromiseIds |-> IF row[i].carrier \in kinds THEN [row[i] EXCEPT !.carrier = "none"] ELSE row[i]]

(* make: one more row; or none, as its window is too far ahead, or an open  *)
(* promise of that side is the same one.                                    *)
MayMake(rows, sides) ==
    \/ made' = made /\ row' = rows
    \/ \E by \in sides :
          /\ made < MaxPromises /\ made' = made + 1
          /\ row' = [rows EXCEPT ![made + 1] = NewRow(by)]

----------------------------------------------------------------------------
(* The player wrote: each promise of theirs with an open window is kept. *)
Kept(rows) ==
    [i \in PromiseIds |-> IF rows[i].by = "player" /\ rows[i].phase = "inside"
                   THEN Closes(rows[i], "kept") ELSE rows[i]]

(* A message of the player's in an open thread, which may state a promise   *)
(* (on_player_message, note_player_text).                                   *)
PlayerWrites ==
    /\ ~gone
    /\ row' = Kept(row) /\ asked' \in {asked, "player", "person"}
    /\ UNCHANGED <<made, broken, relation, gone, ghosted, together, dropped>>

(* The chip "Talk later": the promise, new or the same as an open one, then *)
(* the player's line; a line that is refused makes the promise void.        *)
SignOff(by) ==
    /\ ~gone
    /\ \E i \in PromiseIds :
          /\ \/ i = made + 1 /\ made' = i
             \/ Open(i, by) /\ row[i].phase # "after" /\ made' = made
          /\ LET rows == IF i > made THEN [row EXCEPT ![i] = NewRow(by)] ELSE row
             IN  \/ row' = Kept(rows) /\ asked' = "none"
                 \/ row' = [rows EXCEPT ![i].status = "void"] /\ asked' = asked
    /\ UNCHANGED <<broken, relation, gone, ghosted, together, dropped>>

(* decide, for a reply: what the player asked for is accepted if it can be, *)
(* a sign-off may make a promise of their own, and a reply that ends        *)
(* nothing carries the broken promise, once.                                *)
Accepted == {"person", asked} \ {"none"}

Decides ==
    /\ ~gone /\ ~ghosted
    /\ MayMake(row, Accepted) /\ asked' = "none"
    /\ \/ broken' = broken
       \/ broken # NoPromise /\ row[broken].status # "forgotten" /\ broken' = NoPromise
    /\ UNCHANGED <<relation, gone, ghosted, together, dropped>>

(* A committed reply promised something, in its words or by its key         *)
(* (_apply_extras).                                                         *)
Adopts ==
    /\ ~gone /\ relation = "live"
    /\ MayMake(row, {"person"})
    /\ UNCHANGED <<asked, broken, relation, gone, ghosted, together, dropped>>

Passes(i) ==
    /\ row[i].status = "open" /\ row[i].phase # "after"
    /\ row' = [row EXCEPT ![i].phase = IF @ = "before" THEN "inside" ELSE "after"]
    /\ UNCHANGED <<made, asked, broken, relation, gone, ghosted, together, dropped>>

----------------------------------------------------------------------------
(* _on_promise_due: their promised message is decided, and queued for now;  *)
(* that decision too may make a promise.                                    *)
PromiseDue(i) ==
    /\ row[i].carrier = "promise_due" /\ (row[i].phase # "before" \/ row[i].status # "open")
    /\ IF row[i].status = "open" /\ ~gone /\ relation = "live"
       THEN MayMake([row EXCEPT ![i].carrier = "initiate"], Accepted) /\ asked' = "none"
       ELSE row' = Settles(i, "void") /\ UNCHANGED <<made, asked>>
    /\ UNCHANGED <<broken, relation, gone, ghosted, together, dropped>>

(* _on_due: held while they are with the player; it lands, unworded, or it  *)
(* cannot and its promise is void.  One that lands reopens what was over.   *)
Lands(i) ==
    /\ row[i].carrier = "initiate" /\ ~together
    /\ IF gone \/ ghosted
       THEN row' = Settles(i, "void") /\ UNCHANGED relation
       ELSE /\ row' = [row EXCEPT ![i].carrier = "message"]
            /\ relation' \in {relation, "live"}
    /\ UNCHANGED <<made, asked, broken, gone, ghosted, together, dropped>>

(* on_voiced: a promise is kept when its message gets its words, and void   *)
(* when the message is withdrawn because they left.                         *)
Left == gone \/ relation = "ended"

Voiced(i) ==
    /\ row[i].carrier = "message"
    /\ row' = Settles(i, IF Left THEN "void" ELSE "kept")
    /\ UNCHANGED <<made, asked, broken, relation, gone, ghosted, together, dropped>>

(* _on_promise_close: the player did not write. *)
PromiseClose(i) ==
    /\ row[i].carrier = "promise_close" /\ (row[i].phase = "after" \/ row[i].status # "open")
    /\ LET over == gone \/ relation # "live"
       IN  /\ row' = Settles(i, IF over THEN "void" ELSE "broken")
           /\ broken' = IF row[i].status = "open" /\ ~over THEN i ELSE broken
    /\ UNCHANGED <<made, asked, relation, gone, ghosted, together, dropped>>

(* forget_closed, at a save: a closed row that no reader needs. *)
Forgets(i) ==
    /\ row[i].status \in Closed /\ row[i].carrier = "none" /\ broken # i
    /\ row' = [row EXCEPT ![i].status = "forgotten"]
    /\ UNCHANGED <<made, asked, broken, relation, gone, ghosted, together, dropped>>

----------------------------------------------------------------------------
(* An unmatch or a block drops every event of theirs.  Their plans are      *)
(* called off there; their promises are left as they are.                   *)
Unmatch ==
    /\ ~gone /\ gone' = TRUE
    /\ row' = Cancelled(QueueKinds)
    /\ dropped' = dropped \cup {i \in PromiseIds : row[i].carrier \in QueueKinds}
    /\ UNCHANGED <<made, asked, broken, relation, ghosted, together>>

(* Either side ends it: DROPPED_AT_END names `initiate', no promise's own. *)
RelationEnds ==
    /\ ~gone /\ relation = "live" /\ relation' = "ended"
    /\ row' = Cancelled({"initiate"})
    /\ dropped' = dropped \cup {i \in PromiseIds : row[i].carrier = "initiate"}
    /\ UNCHANGED <<made, asked, broken, gone, ghosted, together>>

Fades ==
    /\ ~gone /\ relation = "live" /\ relation' = "faded"
    /\ UNCHANGED <<made, row, asked, broken, gone, ghosted, together, dropped>>

(* Another message of theirs lands: it may reopen what was over, and who    *)
(* went quiet is back with it.                                              *)
TheyWrite ==
    /\ ~gone /\ ~together
    /\ relation' \in {relation, "live"} /\ ghosted' = FALSE
    /\ UNCHANGED <<made, row, asked, broken, gone, together, dropped>>

(* Slip: _episode_start draws a ghost whatever they promised. *)
GhostsAnyway ==
    /\ ~gone /\ ~ghosted /\ ghosted' = TRUE
    /\ row' = Cancelled({"initiate"})
    /\ UNCHANGED <<made, asked, broken, relation, gone, together, dropped>>

(* A ghost is drawn only where no promise of theirs is open; it drops the   *)
(* reply family, the player's promise_close not (_ghost_protected).         *)
Ghosts ==
    /\ ~gone /\ ~ghosted /\ ghosted' = TRUE
    /\ \A i \in PromiseIds : ~Open(i, "person")
    /\ row' = Cancelled({"initiate"})
    /\ UNCHANGED <<made, asked, broken, relation, gone, together, dropped>>

MeetsOrParts ==
    /\ together' = ~together
    /\ UNCHANGED <<made, row, asked, broken, relation, gone, ghosted, dropped>>

----------------------------------------------------------------------------
Judges(i) ==
    Passes(i) \/ PromiseDue(i) \/ Lands(i) \/ Voiced(i) \/ PromiseClose(i) \/ Forgets(i)

PromisesNext ==
    \/ PlayerWrites \/ Decides \/ Adopts
    \/ \E by \in {"person", "player"} : SignOff(by)
    \/ \E i \in PromiseIds : Judges(i)
    \/ Unmatch \/ RelationEnds \/ Fades \/ TheyWrite \/ Ghosts \/ MeetsOrParts

PromisesSpec == PromisesInit /\ [][PromisesNext]_promisesVars

----------------------------------------------------------------------------
Rows == [status : {"unmade", "open", "forgotten"} \cup Closed, by : {"person", "player"},
         phase : {"before", "inside", "after"}, carrier : Carriers]

PromisesTypeOK ==
    /\ made \in 0..MaxPromises /\ row \in [PromiseIds -> Rows]
    /\ asked \in {"none", "person", "player"} /\ broken \in PromiseIds \cup {NoPromise}
    /\ relation \in {"live", "faded", "ended"}
    /\ gone \in BOOLEAN /\ ghosted \in BOOLEAN /\ together \in BOOLEAN
    /\ dropped \subseteq PromiseIds

(* Every open promise will be judged: an event in the queue or a due        *)
(* message names it, through holds, ghosts, fades and reunions, unless an   *)
(* unmatch or an ending dropped that event; and the broken promise that the *)
(* next reply is to carry is still on record, whatever a save forgot.       *)
PromisesStand ==
    /\ \A i \in PromiseIds :
          row[i].status = "open" => row[i].carrier # "none" \/ i \in dropped
    /\ broken # NoPromise => row[broken].status = "broken"
=============================================================================
