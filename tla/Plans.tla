----------------------------------- MODULE Plans -----------------------------------
(***************************************************************************)
(* The plans to meet one person of a phone story: engine/social/plans.py,   *)
(* with what scene.py, world.py, convo.py, relationships.py and matching.py *)
(* do to them, to the person's queued events and to the player's place.     *)
(* Somebody else has plans too: what they may do is part of each action.    *)
(*                                                                          *)
(* The clock moves only inside a verb of the player's: while `doing' is not *)
(* idle, due events run, and then the verb goes on from where it was.  A    *)
(* time is where a plan is in its course: their arrival, then the end of    *)
(* their patience.  The wedding, which stands in no other plan's way, is    *)
(* left out.  A definition commented `Slip:' is no part of the model: it is *)
(* a likely mistake in the one after it.                                    *)
(***************************************************************************)
EXTENDS FiniteSets

(* The player's flat, the person's home, the venue they plan for, and any   *)
(* other place, work included.                                              *)
Places == {"flat", "theirs", "venue", "else"}
Whens == {"soon", "timed"}      \* timed: `now' or `tonight'
PlanEvents == {"plan_arrive", "plan_lapse", "plan_flake"}

(* The world's `go' and the closers; the phone's `go', to a venue. *)
AppWays == {"app:venue", "app:else"}
Ways == Places \cup AppWays
EndOf == [way \in Ways |->
    CASE way = "app:venue" -> "venue" [] way = "app:else" -> "else" [] OTHER -> way]

VARIABLES
    plan,       \* their ordinary row in state.social["plans"], the last one
    asked_for,  \* the meet request pending, by either side
    queue,      \* their queued events that name either, and their read
    standing,   \* live; over: faded or expired; ended; gone: unmatched, blocked
    household,  \* they live with the player
    scene,      \* none; them; in: with them, at home or the morning after; other
    place,      \* state.location_id
    in_hand,    \* the phone is in the player's hand
    doing       \* what the clock runs for: a way somewhere, or else

plansVars == <<plan, asked_for, queue, standing, household, scene, place, in_hand, doing>>

Idle == {"idle", "missed"}
NoPlan == [status |-> "none"]
NoRequest == [from |-> "nobody", when |-> "soon"]
Ended == {"ended", "gone"}

PlansInit ==
    /\ plan = NoPlan /\ asked_for = NoRequest /\ queue = {}
    /\ standing = "live" /\ household = FALSE
    /\ scene = "none" /\ place = "flat" /\ in_hand = TRUE /\ doing = "idle"

Stands(p) == p.status = "open"
Soon(p) == Stands(p) /\ p.when = "soon"
Timed(p) == Stands(p) /\ p.when = "timed"

(* meet_if_here opens this plan's scene here. *)
Meetable(p, here) == Timed(p) /\ p.arrived /\ p.place = here

(* An open plan stands in the way of another, but a `soon' one gives way to *)
(* a `now' or `tonight' one (_blocked).                                     *)
Blocked(when) == Timed(plan) \/ (Soon(plan) /\ when = "soon")

(* Nothing names a plan that is over: its events, when due, change nothing. *)
PlanEnds(status) == plan' = [status |-> status] /\ queue' = queue \ PlanEvents

----------------------------------------------------------------------------
(* _schedule: the quiet close; and, for who did not come with the player,   *)
(* their arrival, and maybe their word that they cannot make it.            *)
Scheduled(when, with, by) ==
    IF when = "soon" THEN {{}}
    ELSE IF with THEN {{"plan_lapse"}}
    ELSE {{"plan_lapse", "plan_arrive"}}
             \cup (IF by = "player" THEN {PlanEvents} ELSE {})

(* make: a row and its events, or the `soon' row that stands made into it;  *)
(* never a plan at the old home of who lives here.  The queue is what the   *)
(* caller leaves of it.                                                     *)
Makes(q, at, when, with, by) ==
    /\ ~Blocked(when) /\ ~(at = "theirs" /\ household)
    /\ plan' = [status |-> "open", place |-> at, when |-> when, arrived |-> with,
                late |-> FALSE, over |-> FALSE, after |-> standing \in Ended]
    /\ \E events \in Scheduled(when, with, by) : queue' = q \cup events

Venues == {"venue", "flat", "theirs"}

(* A conversation with them ends: a `soon' plan may have waited for enough  *)
(* of them (on_episode_close).                                              *)
EpisodeEnds ==
    \/ UNCHANGED <<plan, queue>>
    \/ Soon(plan) /\ PlanEnds("closed")

(* meet_if_here, with nothing else open and the phone down: their plan's    *)
(* scene, or that of somebody else's plan made before it.                   *)
MeetsHere(here) ==
    \/ scene' = "other" /\ UNCHANGED <<plan, queue>>
    \/ Meetable(plan, here) /\ scene' = "them" /\ PlanEnds("closed")
    \/ ~Meetable(plan, here) /\ scene' = "none" /\ UNCHANGED <<plan, queue>>

----------------------------------------------------------------------------
(* The events, while the clock runs. *)
ClockRuns == doing \notin Idle

(* _on_plan_arrive records it, and opens nothing. *)
PlanArrive ==
    /\ ClockRuns /\ "plan_arrive" \in queue
    /\ plan' = [plan EXCEPT !.arrived = TRUE] /\ queue' = queue \ {"plan_arrive"}
    /\ UNCHANGED <<asked_for, standing, household, scene, place, in_hand, doing>>

PatienceEnds ==
    /\ ClockRuns /\ Timed(plan) /\ ~plan.over
    /\ queue \cap {"plan_arrive", "plan_flake"} = {}
    /\ plan' = [plan EXCEPT !.over = TRUE]
    /\ UNCHANGED <<asked_for, queue, standing, household, scene, place, in_hand, doing>>

(* _on_flake; _on_lapse of a plan nobody went to. *)
PlanGivenUp ==
    /\ ClockRuns
    /\ "plan_flake" \in queue \/ ("plan_lapse" \in queue /\ plan.over)
    /\ PlanEnds("closed")
    /\ UNCHANGED <<asked_for, standing, household, scene, place, in_hand, doing>>

(* _lapse_request: what they asked for, unanswered past its patience. *)
RequestLapses ==
    /\ ClockRuns /\ "request_lapse" \in queue
    /\ queue' = queue \ {"request_lapse"} /\ asked_for' = NoRequest
    /\ UNCHANGED <<plan, standing, household, scene, place, in_hand, doing>>

(* A read with an ask of the player's to answer, which a ghost leaves as it *)
(* is, as does an older ask of another kind; the answer may be a plan.      *)
Reads ==
    /\ ClockRuns /\ "read" \in queue
    /\ LET rest == queue \ {"read"}
       IN  \/ UNCHANGED <<plan, asked_for>> /\ queue' = rest
           \/ /\ asked_for.from = "player" /\ asked_for' = NoRequest
              /\ \/ UNCHANGED plan /\ queue' = rest
                 \/ \E at \in Venues : Makes(rest, at, asked_for.when, FALSE, "player")
    /\ UNCHANGED <<standing, household, scene, place, in_hand, doing>>

----------------------------------------------------------------------------
(* The phone: every verb picks it up. *)
Texts == in_hand' = TRUE /\ doing' = "texting" /\ UNCHANGED <<standing, household, scene, place>>

(* on_player_send: their read is queued, unless it is, or they went quiet.  *)
Sent(q) == {q, q \cup {"read"}}

(* A message, or waiting with the phone in hand.  "Running late" extends    *)
(* the patience of a plan still ahead, once; the quiet close moves with it. *)
Writes ==
    /\ doing \in Idle /\ Texts
    /\ \/ UNCHANGED <<plan, queue>>
       \/ standing # "gone" /\ UNCHANGED plan /\ queue' \in Sent(queue)
       \/ /\ standing # "gone" /\ Timed(plan) /\ ~plan.over /\ ~plan.late
          /\ plan' = [plan EXCEPT !.late = TRUE]
          /\ queue' \in Sent(queue \cup {"plan_lapse"})
    /\ UNCHANGED asked_for

(* ask {what: meet}, where ask_refusal allows it. *)
AsksToMeet(when) ==
    /\ doing \in Idle /\ Texts
    /\ standing = "live" /\ ~Blocked(when) /\ asked_for = NoRequest
    /\ asked_for' = [from |-> "player", when |-> when]
    /\ queue' \in Sent(queue)
    /\ UNCHANGED plan

(* A request of theirs answered; `later' leaves it.  A yes is judged again, *)
(* by their being there and free, not by how things stand with them.        *)
Answers ==
    /\ doing \in Idle /\ Texts
    /\ asked_for.from = "them" /\ standing # "gone"
    /\ \/ UNCHANGED <<plan, asked_for>> /\ queue' \in Sent(queue)
       \/ /\ asked_for' = NoRequest
          /\ \E q \in Sent(queue \ {"request_lapse"}) :
                \/ UNCHANGED plan /\ queue' = q
                \/ Makes(q, "venue", asked_for.when, FALSE, "person")

(* put_down: who arrived while the phone was up is met now. *)
PutsDown ==
    /\ doing \in Idle /\ in_hand /\ in_hand' = FALSE /\ doing' = "idle"
    /\ IF scene = "none" THEN MeetsHere(place) ELSE UNCHANGED <<plan, queue, scene>>
    /\ UNCHANGED <<asked_for, standing, household, place>>

----------------------------------------------------------------------------
(* The world's verbs, the phone down and nobody with the player. *)
Free == doing \in Idle /\ ~in_hand /\ scene = "none"

(* go: from a home, only home; to their home, only for a plan there. *)
GoesOut(to) ==
    /\ Free /\ (to # place \/ to = "else")
    /\ place = "theirs" => to = "flat"
    /\ to = "theirs" => Stands(plan) /\ plan.place = to
    /\ doing' = to
    /\ UNCHANGED <<plan, asked_for, queue, standing, household, scene, place, in_hand>>

(* places_go, from the phone, which goes down first. *)
GoesByPhone(way) ==
    /\ doing \in Idle /\ scene = "none" /\ (EndOf[way] # place \/ place = "else")
    /\ in_hand' = FALSE /\ doing' = way
    /\ UNCHANGED <<plan, asked_for, queue, standing, household, scene, place>>

(* The end of a way somewhere.  arrive: a plan there is stood up when their *)
(* patience is over, opens when they are there, waits when they are not.    *)
(* Somebody else's plan may come first: its scene opens, or they are stood  *)
(* up, and then only a turn of the world looks again who is here.           *)
TooLate(to) == Timed(plan) /\ plan.place = to /\ plan.over

GetsThere ==
    /\ doing \in Ways /\ place' = EndOf[doing]
    /\ \/ TooLate(place') /\ PlanEnds("stood_up") /\ scene' = "none" /\ doing' = "idle"
       \/ (~TooLate(place') \/ doing \in Places) /\ MeetsHere(place') /\ doing' = "idle"
       \/ scene' = "other" /\ UNCHANGED <<plan, queue>> /\ doing' = "idle"
       \/ doing \in AppWays /\ scene' = "none" /\ UNCHANGED <<plan, queue>> /\ doing' = "missed"
    /\ UNCHANGED <<asked_for, standing, household, in_hand>>

(* do, and "Wait for them": the clock runs, then whoever is here is met.    *)
(* Work is elsewhere, and its end leaves the player in the flat.            *)
Spends ==
    /\ Free /\ doing' = "spending"
    /\ place' \in {place} \cup (IF place = "flat" THEN {"else"} ELSE {})
    /\ UNCHANGED <<plan, asked_for, queue, standing, household, scene, in_hand>>

Spent ==
    /\ doing = "spending" /\ doing' = "idle"
    /\ place' \in {place} \cup (IF place = "else" THEN {"flat"} ELSE {})
    /\ MeetsHere(place')
    /\ UNCHANGED <<asked_for, standing, household, in_hand>>

(* "Go over to them": they are out by chance, with no timed plan; a `soon'  *)
(* plan with them is met.                                                   *)
Approaches ==
    /\ Free /\ place \in {"venue", "else"}
    /\ standing = "live" /\ ~household /\ ~Timed(plan)
    /\ scene' = "them" /\ doing' = "idle"
    /\ IF Soon(plan) THEN PlanEnds("closed") ELSE UNCHANGED <<plan, queue>>
    /\ UNCHANGED <<asked_for, standing, household, place, in_hand>>

AtHome ==
    /\ Free /\ place = "flat" /\ household /\ standing = "live"
    /\ scene' = "in" /\ doing' = "idle" /\ EpisodeEnds
    /\ UNCHANGED <<asked_for, standing, household, place, in_hand>>

WithAnother ==
    /\ Free /\ scene' = "other" /\ doing' = "idle"
    /\ UNCHANGED <<plan, asked_for, queue, standing, household, place, in_hand>>

----------------------------------------------------------------------------
(* A scene's verbs, the phone down. *)
Together == doing \in Idle /\ ~in_hand /\ scene # "none"

(* A moment, another round or a shared activity: the clock runs, and then   *)
(* they may be the one who ends it.                                         *)
Talks ==
    /\ Together /\ doing' = "talking"
    /\ UNCHANGED <<plan, asked_for, queue, standing, household, scene, place, in_hand>>

(* end_scene: the scene's conversation closes with it. *)
SceneEnds ==
    IF scene = "other" THEN UNCHANGED <<plan, queue>> ELSE EpisodeEnds

Talked ==
    /\ doing = "talking"
    /\ \/ doing' = "idle" /\ UNCHANGED <<plan, queue, scene>>
       \/ doing' = "ending" /\ SceneEnds /\ scene' = "none"
       \/ /\ scene = "other" \/ place = "theirs"      \* a morning there
          /\ doing' = "flat" /\ SceneEnds /\ scene' = "none"
    /\ UNCHANGED <<asked_for, standing, household, place, in_hand>>

(* ... and, where the player stays, whoever is here is met; so it is at the *)
(* end of every turn of the world.                                          *)
LooksRound ==
    /\ doing = "ending" /\ doing' = "idle"
    /\ MeetsHere(place)
    /\ UNCHANGED <<asked_for, standing, household, place, in_hand>>

(* "Say goodnight, and stay"; "see them out". *)
SaysGoodnight ==
    /\ Together /\ SceneEnds /\ scene' = "none" /\ doing' = "ending"
    /\ UNCHANGED <<asked_for, standing, household, place, in_hand>>

(* "Do it again soon" makes the plan first, then the scene ends: the player *)
(* goes home, or stays after the morning in the flat.                       *)
AgainSoon ==
    /\ Together /\ scene \in {"them", "in"}
    /\ \E at \in Venues : Makes(queue, at, "soon", FALSE, "player")
    /\ scene' = "none" /\ doing' = IF scene = "in" THEN "ending" ELSE "flat"
    /\ UNCHANGED <<asked_for, standing, household, place, in_hand>>

(* "Call it a night" goes home, wherever the scene was; "walk them home"    *)
(* takes its time first.                                                    *)
CallsItANight ==
    /\ \/ Together /\ scene \in {"them", "other"}
       \/ doing = "walking"
    /\ SceneEnds /\ scene' = "none" /\ doing' = "flat"
    /\ UNCHANGED <<asked_for, standing, household, place, in_hand>>

WalksThemHome ==
    /\ Together /\ place \in {"venue", "else"} /\ doing' = "walking"
    /\ UNCHANGED <<plan, asked_for, queue, standing, household, scene, place, in_hand>>

(* back_to_yours, back_to_theirs, go_somewhere_else: the scene ends, a plan *)
(* for now is made with who is here, and both go; or it cannot be made.     *)
GoesOn(to) ==
    /\ Together /\ to # place
    /\ \/ scene = "other" /\ to # "theirs" /\ doing' \in {to, "ending"} /\ UNCHANGED <<plan, queue>>
       \/ /\ scene = "them" /\ to \in Venues /\ doing' = to
          /\ Makes(queue, to, "timed", TRUE, "player")
       \/ scene = "them" /\ doing' = "ending" /\ EpisodeEnds
    /\ scene' = "none"
    /\ UNCHANGED <<asked_for, standing, household, place, in_hand>>

(* stay_the_night: a scene ends, the clock goes to the morning, and another *)
(* opens.                                                                   *)
StaysTheNight ==
    /\ Together /\ place \in {"flat", "theirs"} /\ SceneEnds
    /\ scene' = IF scene = "them" /\ place = "flat" THEN "in" ELSE scene
    /\ doing' = "talking"
    /\ UNCHANGED <<asked_for, standing, household, place, in_hand>>

----------------------------------------------------------------------------
(* What becomes of the two of them. *)

(* Their own ask, in a reply or as the day's invitation; one for `tonight'  *)
(* lapses unanswered.                                                       *)
TheyAsk(when) ==
    /\ standing = "live" /\ ~Timed(plan) /\ asked_for = NoRequest
    /\ asked_for' = [from |-> "them", when |-> when]
    /\ queue' = IF when = "timed" THEN queue \cup {"request_lapse"} ELSE queue
    /\ UNCHANGED <<plan, standing, household, scene, place, in_hand, doing>>

(* A chat of theirs closes. *)
ChatEnds ==
    /\ ClockRuns /\ EpisodeEnds
    /\ UNCHANGED <<asked_for, standing, household, scene, place, in_hand, doing>>

(* social_unmatch: every event of theirs is dropped, then their plans.      *)
TheyUnmatch ==
    /\ standing # "gone" /\ standing' = "gone" /\ household' = FALSE
    /\ queue' = {}
    /\ plan' = IF Stands(plan) THEN [status |-> "closed"] ELSE plan
    /\ UNCHANGED <<asked_for, scene, place, in_hand, doing>>

(* Slip: the ending drops every event of theirs, as an unmatch does. *)
TheyEndDroppingAll ==
    /\ standing = "live" /\ standing' = "ended" /\ household' = FALSE
    /\ queue' = {}
    /\ plan' = IF Stands(plan) THEN [status |-> "closed"] ELSE plan
    /\ UNCHANGED <<asked_for, scene, place, in_hand, doing>>

(* social_stage: ended by either side; DROPPED_AT_END names no event of a   *)
(* plan or a request, and their plans are called off.                       *)
TheyEnd ==
    /\ standing = "live" /\ standing' = "ended" /\ household' = FALSE
    /\ queue' = (IF Stands(plan) THEN queue \ PlanEvents ELSE queue) \ {"read"}
    /\ plan' = IF Stands(plan) THEN [status |-> "closed"] ELSE plan
    /\ UNCHANGED <<asked_for, scene, place, in_hand, doing>>

(* Faded or expired: plans lapse on their own. *)
TheyFade ==
    /\ standing = "live" /\ standing' = "over" /\ household' = FALSE
    /\ UNCHANGED <<plan, asked_for, queue, scene, place, in_hand, doing>>

(* A message of theirs reopens what was over. *)
Reconnects ==
    /\ standing \in {"over", "ended"} /\ standing' = "live"
    /\ UNCHANGED <<plan, asked_for, queue, household, scene, place, in_hand, doing>>

(* Moving in lapses a plan at their old home. *)
MovesIn ==
    /\ standing = "live" /\ ~household /\ household' = TRUE
    /\ IF Stands(plan) /\ plan.place = "theirs" THEN PlanEnds("closed")
       ELSE UNCHANGED <<plan, queue>>
    /\ UNCHANGED <<asked_for, standing, scene, place, in_hand, doing>>

----------------------------------------------------------------------------
PhoneVerbs ==
    \/ Writes \/ Answers \/ PutsDown
    \/ \E when \in Whens : AsksToMeet(when)
    \/ \E way \in AppWays : GoesByPhone(way)
WorldVerbs ==
    \/ \E to \in Places : GoesOut(to)
    \/ GetsThere \/ Spends \/ Spent \/ Approaches \/ AtHome \/ WithAnother
SceneVerbs ==
    \/ Talks \/ Talked \/ LooksRound \/ SaysGoodnight \/ AgainSoon \/ CallsItANight
    \/ WalksThemHome \/ StaysTheNight
    \/ \E to \in Places : GoesOn(to)
Texted ==
    /\ doing = "texting" /\ doing' = "idle"
    /\ UNCHANGED <<plan, asked_for, queue, standing, household, scene, place, in_hand>>

PlansNext ==
    \/ PlanArrive \/ PatienceEnds \/ PlanGivenUp \/ RequestLapses \/ Reads \/ ChatEnds
    \/ PhoneVerbs \/ Texted \/ WorldVerbs \/ SceneVerbs
    \/ \E when \in Whens : TheyAsk(when)
    \/ TheyUnmatch \/ TheyEnd \/ TheyFade \/ Reconnects \/ MovesIn

PlansSpec == PlansInit /\ [][PlansNext]_plansVars

----------------------------------------------------------------------------
PlanRows ==
    {[status |-> s] : s \in {"none", "closed", "stood_up"}}
        \cup [status : {"open"}, place : Venues, when : Whens, arrived : BOOLEAN,
              late : BOOLEAN, over : BOOLEAN, after : BOOLEAN]

PlansTypeOK ==
    /\ plan \in PlanRows
    /\ asked_for \in [from : {"nobody", "player", "them"}, when : Whens]
    /\ queue \subseteq PlanEvents \cup {"read", "request_lapse"}
    /\ standing \in {"live", "over"} \cup Ended /\ household \in BOOLEAN
    /\ scene \in {"none", "them", "in", "other"} /\ place \in Places /\ in_hand \in BOOLEAN
    /\ doing \in Idle \cup Ways \cup {"texting", "spending", "talking", "ending", "walking"}

(* A timed plan will end, and they will get there: it would stand in the    *)
(* way of every other plan with them for ever.                              *)
PlanComesToAnEnd ==
    Timed(plan) => /\ "plan_lapse" \in queue
                   /\ plan.arrived \/ "plan_arrive" \in queue

(* So does an ask of theirs for `tonight', unless they left. *)
AskComesToAnEnd ==
    asked_for.from = "them" /\ asked_for.when = "timed" =>
        "request_lapse" \in queue \/ standing = "gone"

(* Who left keeps no plan made before. *)
CalledOff == standing \in Ended /\ Stands(plan) => plan.after

(* Whoever waits where the player is, is met, once the phone is down. *)
MetHere == doing = "idle" /\ ~in_hand /\ scene = "none" => ~Meetable(plan, place)

PlansStand ==
    /\ PlanComesToAnEnd /\ AskComesToAnEnd /\ CalledOff /\ MetHere
    /\ Stands(plan) /\ plan.place = "theirs" => ~household

(* "While the player is at the place the person never stands them up,       *)
(* however long the phone or another scene kept them": patience is judged   *)
(* on arriving from elsewhere (meet_if_here).                               *)
NeverStoodUpHere ==
    [][Stands(plan) /\ plan'.status = "stood_up" => place # plan.place]_plansVars
=============================================================================
