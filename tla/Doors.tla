--------------------------------- MODULE Doors ---------------------------------
(***************************************************************************)
(* The places of the front door, engine/hosting/limits.py: LongHolds (a      *)
(* WebSocket, a poll or a turn holds a thread of the pool) and TurnSlots (a  *)
(* turn takes a slot, and then a place), as proxy.py and ws_relay.py take    *)
(* and give them back, each under a lock of its own.                         *)
(*                                                                          *)
(* A request is of one KIND, one account and, unless it is a turn, one       *)
(* Engine.IO session.  A definition commented `Slip:' is no part of the      *)
(* model: it is a likely mistake in the one after it, kept to show which     *)
(* property would notice.                                                    *)
(***************************************************************************)
EXTENDS Naturals, FiniteSets

CONSTANTS
    Requests,        \* requests in flight
    Accounts,
    Conns,           \* Engine.IO sessions
    NoConn,          \* a request that names none
    HoldLimit,       \* LongHolds.limit
    PerAccount,      \* hosting.max_connections_per_account
    TurnLimit,       \* TurnSlots.limit
    TurnsPerAccount  \* TurnSlots.per_account

ASSUME DoorsConstants ==
    /\ HoldLimit \in Nat \ {0} /\ PerAccount \in Nat \ {0}
    /\ TurnLimit \in Nat \ {0} /\ TurnsPerAccount \in Nat \ {0}
    /\ NoConn \notin Conns

VARIABLES
    inside,   \* LongHolds: places taken
    record,   \* LongHolds: each account's polls and sockets, by session
    turns,    \* TurnSlots: slots taken
    turnsOf,  \* TurnSlots: each account's
    request   \* where each request is

doorsVars == <<inside, record, turns, turnsOf, request>>

HoldKinds == {"poll", "socket"}
Out == [pc |-> "out"]
NoRecord == [polls |-> 0, sockets |-> 0, joined |-> FALSE]

DoorsInit ==
    /\ inside = 0 /\ turns = 0
    /\ record = [a \in Accounts |-> [c \in Conns \cup {NoConn} |-> NoRecord]]
    /\ turnsOf = [a \in Accounts |-> 0]
    /\ request = [q \in Requests |-> Out]

----------------------------------------------------------------------------
(* _count: a session's upgraded WebSocket and its poll are one connection.   *)
Count(c, r) ==
    r.polls + r.sockets
        - (IF c # NoConn /\ r.joined /\ r.polls >= 1 /\ r.sockets >= 1 THEN 1 ELSE 0)

(* The account's connections, session by session; their number is the sum.   *)
Connected(a) == UNION {{c} \X (1..Count(c, record[a][c])) : c \in Conns \cup {NoConn}}
Connections(a) == Cardinality(Connected(a))

(* Slip: every WebSocket that names a held session is free. *)
JoinsFreeAlways(a, c, kind) ==
    /\ kind = "socket" /\ c # NoConn
    /\ record[a][c].polls >= 1

(* A session's one WebSocket joins the poll it upgrades for free. *)
JoinsFree(a, c, kind) ==
    /\ kind = "socket" /\ c # NoConn
    /\ record[a][c].polls >= 1 /\ record[a][c].sockets = 0 /\ ~record[a][c].joined

(* What try_take notes of a session: one more of the kind, and its pairing. *)
Taken(r, kind, joins) ==
    IF kind = "poll" THEN [r EXCEPT !.polls = @ + 1]
                     ELSE [r EXCEPT !.sockets = @ + 1, !.joined = @ \/ joins]

(* try_take, of a poll or a WebSocket: a place, unless the account or the    *)
(* house is full; a refused request is answered and gone.                    *)
Holds(q, a, c, kind) ==
    /\ request[q] = Out
    /\ JoinsFree(a, c, kind) \/ Connections(a) < PerAccount
    /\ inside < HoldLimit
    /\ inside' = inside + 1
    /\ record' = [record EXCEPT ![a][c] = Taken(@, kind, JoinsFree(a, c, kind))]
    /\ request' = [request EXCEPT ![q] = [pc |-> "held", kind |-> kind, of |-> a, conn |-> c]]
    /\ UNCHANGED <<turns, turnsOf>>

(* give_back: the pairing of an upgrade is over once either side is gone.    *)
GivenBack(r, kind) ==
    LET left == IF kind = "socket" THEN [r EXCEPT !.sockets = @ - 1]
                                   ELSE [r EXCEPT !.polls = @ - 1]
    IN  [left EXCEPT !.joined = @ /\ left.polls # 0 /\ left.sockets # 0]

GivesBack(q) ==
    /\ request[q].pc = "held"
    /\ LET r == request[q]
       IN  record' = [record EXCEPT ![r.of][r.conn] = GivenBack(@, r.kind)]
    /\ inside' = inside - 1
    /\ request' = [request EXCEPT ![q] = Out]
    /\ UNCHANGED <<turns, turnsOf>>

----------------------------------------------------------------------------
(* try_enter, of a turn: a slot first ... *)
EntersSlot(q, a) ==
    /\ request[q] = Out
    /\ turnsOf[a] < TurnsPerAccount /\ turns < TurnLimit
    /\ turns' = turns + 1
    /\ turnsOf' = [turnsOf EXCEPT ![a] = @ + 1]
    /\ request' = [request EXCEPT ![q] = [pc |-> "slot", kind |-> "turn", of |-> a, conn |-> NoConn]]
    /\ UNCHANGED <<inside, record>>

(* ... then, its lock released, a place of the pool, or the slot is given    *)
(* back.                                                                     *)
EntersPool(q) ==
    /\ request[q].pc = "slot"
    /\ request' = [request EXCEPT ![q].pc = IF inside < HoldLimit THEN "turn" ELSE "refused"]
    /\ inside' = IF inside < HoldLimit THEN inside + 1 ELSE inside
    /\ UNCHANGED <<record, turns, turnsOf>>

(* leave, and a refusal's way out: the slot ... *)
LeavesSlot(q) ==
    /\ request[q].pc \in {"turn", "refused"}
    /\ turns' = turns - 1
    /\ turnsOf' = [turnsOf EXCEPT ![request[q].of] = @ - 1]
    /\ request' = [request EXCEPT ![q] =
                      IF @.pc = "turn" THEN [@ EXCEPT !.pc = "place"] ELSE Out]
    /\ UNCHANGED <<inside, record>>

(* ... then the place. *)
LeavesPool(q) ==
    /\ request[q].pc = "place"
    /\ inside' = inside - 1
    /\ request' = [request EXCEPT ![q] = Out]
    /\ UNCHANGED <<record, turns, turnsOf>>

DoorsNext ==
    \E q \in Requests :
        \/ GivesBack(q) \/ EntersPool(q) \/ LeavesSlot(q) \/ LeavesPool(q)
        \/ \E a \in Accounts : EntersSlot(q, a)
        \/ \E a \in Accounts, c \in Conns \cup {NoConn}, kind \in HoldKinds :
              Holds(q, a, c, kind)

DoorsSpec == DoorsInit /\ [][DoorsNext]_doorsVars

----------------------------------------------------------------------------
In(pcs) == {q \in Requests : request[q].pc \in pcs}

(* The counts are those of the requests in flight, wherever each was left:   *)
(* no place and no slot is lost, or given back twice.                        *)
CountsTrue ==
    /\ inside = Cardinality(In({"held", "turn", "place"}))
    /\ turns = Cardinality(In({"slot", "turn", "refused"}))
    /\ \A a \in Accounts :
          turnsOf[a] = Cardinality({q \in In({"slot", "turn", "refused"}) : request[q].of = a})

(* One account's connections stay within its cap, whatever order its polls   *)
(* and upgrades come and go in.                                              *)
CapKept ==
    \A a \in Accounts :
        /\ Connections(a) <= PerAccount
        /\ Cardinality({q \in In({"held"}) : request[q].of = a}) <= 2 * PerAccount

(* No one player, and no refusal, takes the places of the others. *)
PlacesKept == CountsTrue /\ CapKept
=============================================================================
