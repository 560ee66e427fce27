--------------------------------- MODULE Relay ---------------------------------
(***************************************************************************)
(* A relayed WebSocket of the front door,                                    *)
(* engine/hosting/frontdoor/ws_relay.py: the handler thread (client to       *)
(* worker, and the one that ends the link), the relay thread (worker to      *)
(* client), and a revocation of the account's login, told by this process's  *)
(* listener or made by another process.  A send to a client that does not    *)
(* read blocks until its socket is shut or it goes away.  A definition       *)
(* commented `Slip:' is no part of the model: it is a likely mistake in the  *)
(* one after it, kept to show which property would notice.                   *)
(***************************************************************************)
EXTENDS FiniteSets

CONSTANT Links   \* upgrades asked for, one account's

VARIABLES
    live,     \* the account's login is live
    telling,  \* the listener was called and has not asked the links yet
    link      \* each connection

relayVars == <<live, telling, link>>

(* handler: where the handler thread is; sender: the relay thread; gone: the *)
(* client went away; reads: it reads what it is sent; shut: its socket was   *)
(* closed here; done, asked: the link's event and its end_asked.             *)
NewLink ==
    [handler |-> "door", sender |-> "none", gone |-> FALSE, reads |-> TRUE,
     shut |-> FALSE, done |-> FALSE, asked |-> FALSE]

RelayInit ==
    /\ live = TRUE /\ telling = FALSE
    /\ link = [l \in Links |-> NewLink]

Tracked(l) == link[l].handler \in {"relaying", "closing", "over", "joining"}

(* A send to the client does not block. *)
Takes(l) == link[l].reads \/ link[l].gone \/ link[l].shut

Set(l, r) == link' = [link EXCEPT ![l] = r] /\ UNCHANGED <<live, telling>>

----------------------------------------------------------------------------
(* _door: the login is checked ... *)
Admit(l) ==
    /\ link[l].handler = "door"
    /\ Set(l, [link[l] EXCEPT !.handler = IF live THEN "admitted" ELSE "out"])

(* ... then the worker's side opened, the link tracked and the relay thread  *)
(* started; or the worker refuses, and the place is given back.              *)
Track(l) ==
    /\ link[l].handler = "admitted"
    /\ Set(l, [link[l] EXCEPT !.handler = "relaying", !.sender = "waits"])

Refused(l) ==
    /\ link[l].handler = "admitted"
    /\ Set(l, [link[l] EXCEPT !.handler = "out"])

----------------------------------------------------------------------------
(* The login ends: users.json is written, here or by another process ... *)
Revoke(heard) ==
    /\ live
    /\ live' = FALSE /\ telling' = heard
    /\ UNCHANGED link

(* ... and this process's listener asks every link it tracks to close. *)
Tell ==
    /\ telling /\ telling' = FALSE
    /\ link' = [l \in Links |-> [link[l] EXCEPT !.asked = @ \/ Tracked(l)]]
    /\ UNCHANGED live

(* The client stops reading (for good: one that reads again is only slow),   *)
(* or goes away.                                                             *)
StopsReading(l) ==
    /\ Tracked(l) /\ link[l].reads
    /\ Set(l, [link[l] EXCEPT !.reads = FALSE])

GoesAway(l) ==
    /\ Tracked(l) /\ ~link[l].gone
    /\ Set(l, [link[l] EXCEPT !.gone = TRUE])

----------------------------------------------------------------------------
(* abort: the client's socket is shut, which wakes a send blocked on it.     *)
Aborted(r) == [r EXCEPT !.done = TRUE, !.shut = TRUE]

(* The handler's loop, each time it wakes (_inbound): the other side ended   *)
(* the link, or the client went away ...                                     *)
HandlerEnds(l) ==
    /\ link[l].handler = "relaying" /\ (link[l].done \/ link[l].gone)
    /\ Set(l, [link[l] EXCEPT !.handler = "over", !.done = TRUE])

(* ... or it was asked to end it (end_bounded: a client stuck in a send is   *)
(* cut, and so is one that does not take the close frame in time) ...        *)
HandlerAsked(l) ==
    /\ link[l].handler = "relaying" /\ ~link[l].done /\ link[l].asked
    /\ Set(l, IF link[l].sender = "sends" \/ ~Takes(l)
              THEN [Aborted(link[l]) EXCEPT !.handler = "over"]
              ELSE [link[l] EXCEPT !.handler = "over", !.done = TRUE])

(* Slip: the login is not re-read, only the listener's word is taken. *)
HandlerRechecksTold(l) ==
    /\ link[l].handler = "relaying" /\ ~link[l].done /\ telling
    /\ Set(l, [link[l] EXCEPT !.handler = "closing", !.done = TRUE])

(* ... or the login it re-reads is not live (end: the close frame's send     *)
(* has no bound) ...                                                         *)
HandlerRechecks(l) ==
    /\ link[l].handler = "relaying" /\ ~link[l].done /\ ~link[l].asked /\ ~live
    /\ Set(l, [link[l] EXCEPT !.handler = "closing", !.done = TRUE])

HandlerCloses(l) ==
    /\ link[l].handler = "closing" /\ Takes(l)
    /\ Set(l, [link[l] EXCEPT !.handler = "over"])

(* ... or the relay thread's send has blocked too long: the socket is shut.  *)
HandlerCuts(l) ==
    /\ link[l].handler = "relaying" /\ ~link[l].done /\ link[l].sender = "sends" /\ ~Takes(l)
    /\ Set(l, [Aborted(link[l]) EXCEPT !.handler = "over"])

(* The relay thread (_outbound): a message of the worker's to send ... *)
Sends(l) ==
    /\ link[l].sender = "waits" /\ ~link[l].done
    /\ Set(l, [link[l] EXCEPT !.sender = "sends"])

(* ... sent, or the client is gone; it ends once the link is done. *)
Sent(l) ==
    /\ link[l].sender = "sends" /\ Takes(l)
    /\ Set(l, IF link[l].gone \/ link[l].shut
              THEN [link[l] EXCEPT !.sender = "over", !.done = TRUE]
              ELSE [link[l] EXCEPT !.sender = "waits"])

SenderEnds(l) ==
    /\ link[l].sender = "waits" /\ link[l].done
    /\ Set(l, [link[l] EXCEPT !.sender = "over"])

(* The worker went away: the client is closed from this thread, a send like  *)
(* any other.                                                                *)
WorkerEnds(l) ==
    /\ link[l].sender = "waits"
    /\ Set(l, [link[l] EXCEPT !.sender = IF @ = "waits" /\ ~link[l].done THEN "closes" ELSE "over",
                              !.done = TRUE])

SenderCloses(l) ==
    /\ link[l].sender = "closes" /\ Takes(l)
    /\ Set(l, [link[l] EXCEPT !.sender = "over"])

(* _relay: the relay thread is waited for, cut if it is stuck, and the place *)
(* given back.                                                               *)
Joins(l) ==
    /\ link[l].handler = "over" /\ link[l].sender = "over"
    /\ Set(l, [link[l] EXCEPT !.handler = "out"])

JoinTimesOut(l) ==
    /\ link[l].handler = "over" /\ link[l].sender # "over"
    /\ Set(l, [Aborted(link[l]) EXCEPT !.handler = "joining"])

JoinsAgain(l) ==
    /\ link[l].handler = "joining"
    /\ Set(l, [link[l] EXCEPT !.handler = "out"])

(* The two threads of a link, and what the outside does to it. *)
Handler(l) ==
    \/ HandlerEnds(l) \/ HandlerAsked(l) \/ HandlerRechecks(l) \/ HandlerCloses(l)
    \/ HandlerCuts(l) \/ Joins(l) \/ JoinTimesOut(l) \/ JoinsAgain(l)

Sender(l) == Sent(l) \/ SenderEnds(l) \/ SenderCloses(l)

Outside(l) ==
    \/ Admit(l) \/ Track(l) \/ Refused(l) \/ Sends(l) \/ WorkerEnds(l)
    \/ StopsReading(l) \/ GoesAway(l)

RelayNext ==
    \/ Tell \/ \E heard \in BOOLEAN : Revoke(heard)
    \/ \E l \in Links : Handler(l) \/ Sender(l) \/ Outside(l)

RelaySpec == RelayInit /\ [][RelayNext]_relayVars

----------------------------------------------------------------------------
(* Both threads run (every wait of theirs but a send has a timeout), the     *)
(* listener is called, the worker's handshake is bounded, and a worker that  *)
(* is up pings its clients.                                                  *)
RelayFairness ==
    /\ WF_relayVars(Tell)
    /\ \A l \in Links :
          /\ WF_relayVars(Handler(l)) /\ WF_relayVars(Sender(l))
          /\ WF_relayVars(Track(l) \/ Refused(l)) /\ WF_relayVars(Sends(l))

FairRelaySpec == RelaySpec /\ RelayFairness

(* A connection whose login has ended is closed, and its place given back:   *)
(* the upgrade the revocation overtook, the change another process made, the *)
(* client that stopped reading.                                              *)
RevokedEnds ==
    \A l \in Links : ~live /\ Tracked(l) ~> ~Tracked(l)
=============================================================================
