------------------------------ MODULE MCMoves ------------------------------
(* What must move, for TLC: small instances of the queue, the workers over  *)
(* it, the supervisor, the phone and a relayed link side by side.  A        *)
(* behaviour is one of the part chosen at its start; the others stay as     *)
(* they begin.                                                              *)
EXTENDS Relay, Naturals, TLC

CONSTANTS s1, s2, c1, c2, a1, narration, utility, NoTurn, door, m1, alice, v1, p1

VARIABLES
    part,
    (* the lane queue, of one worker and the narration lane *)
    q_issued, q_waiting, q_held, q_limit, q_pausedAll, q_paused, q_closing,
    q_stopping, q_reclaimed, q_closed, q_answers,
    (* two workers of a turn each, and the queue under them *)
    w_issued, w_waiting, w_held, w_limit, w_pausedAll, w_paused, w_closing,
    w_stopping, w_reclaimed, w_closed, w_answers, w_phase, w_ticketOf, w_late,
    w_withdrawing, w_alive, w_toSup, w_toWorker, w_pool, w_asking, w_wheld,
    w_wreclaimed,
    (* the supervisor, of the front door alone *)
    d_child, d_token, d_procs, d_checks, d_reaping, d_reclaims, d_paused,
    d_closing, d_turns, d_op, d_main, d_halt,
    (* a phone, of one message, one thread and one player *)
    p_alive, p_turnLock, p_holder, p_waits, p_message, p_gone, p_mark,
    p_inbox, p_pass, p_queue, p_flying, p_again, p_asked, p_worker,
    p_player, p_calloff

queueState == <<q_issued, q_waiting, q_held, q_limit, q_pausedAll,
                q_paused, q_closing, q_stopping, q_reclaimed, q_closed,
                q_answers>>
callState == <<w_issued, w_waiting, w_held, w_limit, w_pausedAll, w_paused,
               w_closing, w_stopping, w_reclaimed, w_closed, w_answers,
               w_phase, w_ticketOf, w_late, w_withdrawing, w_alive, w_toSup,
               w_toWorker, w_pool, w_asking, w_wheld, w_wreclaimed>>
doorState == <<d_child, d_token, d_procs, d_checks, d_reaping, d_reclaims,
               d_paused, d_closing, d_turns, d_op, d_main, d_halt>>
phoneState == <<p_alive, p_turnLock, p_holder, p_waits, p_message, p_gone,
                p_mark, p_inbox, p_pass, p_queue, p_flying, p_again,
                p_asked, p_worker, p_player, p_calloff>>

LQ == INSTANCE LaneQueue WITH
    Stories <- {s1}, Accounts <- {a1}, NoAccount <- "none", Conns <- {c1},
    StoryOf <- c1 :> s1, Lanes <- {narration}, NARRATION <- narration,
    InitialLimit <- narration :> 1, DEFAULT_LANE_LIMIT <- 1, Sizes <- {0, 2},
    MAX_RECLAIMED <- 1, MaxTickets <- 2,
    issued <- q_issued, waiting <- q_waiting, held <- q_held,
    limit <- q_limit, pausedAll <- q_pausedAll, paused <- q_paused,
    closing <- q_closing, stopping <- q_stopping, reclaimed <- q_reclaimed,
    closed <- q_closed, answers <- q_answers

WL == INSTANCE WorkerLanes WITH
    Stories <- {s1, s2}, Accounts <- {a1}, NoAccount <- "none",
    Conns <- {c1, c2}, StoryOf <- (c1 :> s1) @@ (c2 :> s2),
    Lanes <- {narration, utility}, NARRATION <- narration,
    InitialLimit <- (narration :> 1) @@ (utility :> 1), DEFAULT_LANE_LIMIT <- 1,
    Sizes <- {1}, MAX_RECLAIMED <- 1, MaxTickets <- 2,
    Calls <- {1, 2}, WorkerOf <- <<c1, c2>>, LaneOf <- <<narration, narration>>,
    AccountOf <- <<a1, "none">>, TurnOf <- <<NoTurn, NoTurn>>,
    issued <- w_issued, waiting <- w_waiting, held <- w_held,
    limit <- w_limit, pausedAll <- w_pausedAll, paused <- w_paused,
    closing <- w_closing, stopping <- w_stopping, reclaimed <- w_reclaimed,
    closed <- w_closed, answers <- w_answers,
    phase <- w_phase, ticketOf <- w_ticketOf, late <- w_late,
    withdrawing <- w_withdrawing, alive <- w_alive, toSup <- w_toSup,
    toWorker <- w_toWorker, pool <- w_pool, asking <- w_asking,
    wheld <- w_wheld, wreclaimed <- w_wreclaimed

FD == INSTANCE Supervisor WITH
    Workers <- {}, FrontDoor <- door, Children <- {door}, MaxRestarts <- 1,
    HealthFailures <- 1, CheckIds <- {1}, ReapIds <- {1}, MaxStarts <- 3,
    child <- d_child, token <- d_token, procs <- d_procs,
    checks <- d_checks, reaping <- d_reaping, reclaims <- d_reclaims,
    paused <- d_paused, closing <- d_closing, turns <- d_turns, op <- d_op,
    main <- d_main, halt <- d_halt

PH == INSTANCE Phone WITH
    Messages <- {m1}, PersonOf <- m1 :> alice, Faulty <- {}, Workers <- {v1},
    Players <- {p1}, Passes <- 1..4, MaxPerPass <- 1, MaxAttempts <- 1,
    alive <- p_alive, turnLock <- p_turnLock, holder <- p_holder,
    waits <- p_waits, message <- p_message, gone <- p_gone, mark <- p_mark,
    inbox <- p_inbox, pass <- p_pass, queue <- p_queue, flying <- p_flying,
    again <- p_again, asked <- p_asked, worker <- p_worker,
    player <- p_player, calloff <- p_calloff

----------------------------------------------------------------------------
(* The windows of the code that the README tells of are left out here, and  *)
(* only here.  The supervisor's as in MCSupervisor.                         *)
DoorNext ==
    LET due == {k \in d_checks : k.pc = "due"}
    IN  IF d_op.pc \in {"finally", "release"} /\ ~d_child[d_op.on].stopping
        THEN FD!OpFinally \/ FD!OpRelease
        ELSE IF due # {} THEN \E k \in due : FD!CheckBegins(k)
        ELSE FD!Next

(* The phone's as in MCPhone. *)
PhoneNext ==
    IF p_calloff.at = "judged" THEN PH!TakeOut
    ELSE IF p_calloff.at = "out" THEN PH!Fire
    ELSE IF p_worker[v1].at = "after" THEN PH!After(v1)
    ELSE IF ~p_alive THEN PH!Calls(v1)
    ELSE IF p_player[p1] \in {"asks", "told"} THEN PH!RequestIfDue(p1) \/ PH!WorldAsks(p1)
    ELSE PH!PhoneNext

(* No ticket is taken back here: the slots must come back without that.     *)
CallsNext == WL!Next /\ w_asking' = {}

(* The unbounded close does not meet a client that does not read. *)
Closes == \A l \in Links : link'[l].handler = "closing" => link'[l].reads \/ link'[l].gone

----------------------------------------------------------------------------
Parts == {"queue", "workers", "door", "phone", "relay"}

(* A supervisor that is over. *)
DoorClosed ==
    /\ d_main = "closed" /\ d_op = [pc |-> "idle"]
    /\ d_child = [c \in {door} |-> [FD!FreshChild(1, 0) EXCEPT !.stopping = TRUE]]
    /\ d_token = <<>> /\ d_procs = {<<door, 1>>} /\ d_halt = [c \in {door} |-> "none"]
    /\ d_checks = {} /\ d_reaping = {} /\ d_reclaims = {}
    /\ d_paused = {} /\ d_closing = {} /\ d_turns = {}

MovesInit ==
    /\ part \in Parts
    /\ LQ!QueueInit /\ WL!Init /\ PH!PhoneInit /\ RelayInit
    /\ IF part = "door" THEN FD!Init ELSE DoorClosed
    (* What may vary at the start does so in the part chosen. *)
    /\ part # "phone" => p_message[m1] = "due"

Others(p, state) == part # p => UNCHANGED state

MovesNext ==
    /\ part' = part
    /\ \/ part = "queue" /\ LQ!QueueNext
       \/ part = "workers" /\ CallsNext
       \/ part = "door" /\ DoorNext
       \/ part = "phone" /\ PhoneNext
       \/ part = "relay" /\ RelayNext /\ Closes
    /\ Others("queue", queueState) /\ Others("workers", callState)
    /\ Others("door", doorState)
    /\ Others("phone", phoneState) /\ Others("relay", relayVars)

movesVars == <<part, queueState, callState, doorState, phoneState, relayVars>>

(* A part's fairness asks nothing of it while another is chosen: nothing it *)
(* is fair to is enabled at its start.                                      *)
ClosingFairness ==
    /\ WF_relayVars(Tell)
    /\ \A l \in Links :
          /\ WF_relayVars(Handler(l) /\ Closes) /\ WF_relayVars(Sender(l) /\ Closes)
          /\ WF_relayVars(Track(l) \/ Refused(l)) /\ WF_relayVars(Sends(l) /\ Closes)

MovesSpec ==
    /\ MovesInit /\ [][MovesNext]_movesVars
    /\ LQ!QueueFairness /\ WL!WorkersFairness /\ FD!Fairness /\ PH!PhoneFairness /\ ClosingFairness

----------------------------------------------------------------------------
(* Nobody waits in the queue for ever, and no drain does: every waiter is   *)
(* admitted, refused, withdrawn or timed out, and a story that stays paused *)
(* becomes idle (queue.py, _deadlines, wait_until_idle).                    *)
QueueMoves == LQ!EveryWaitEnds /\ LQ!DrainEnds

(* Nobody waits for the bus for ever and every slot comes back, with no     *)
(* timeout needed for either (bus.py, lanes_remote.py).                     *)
CallsMove == WL!CallsMove

(* The supervisor comes to its end, whatever dies on the way: a crash is    *)
(* handled, a shutdown ends, and a front door held down ends the instance   *)
(* (server.py, tick, shutdown, _apply_policy).                              *)
SupervisorMoves == FD!EveryCrashHandled /\ FD!ShutdownEnds /\ FD!FrontDoorDownEnds

(* A world turn waits for one voice call at most (turnstile.py). *)
WorldTurnWaitEnds == PH!WorldTurnWaitEnds
=============================================================================
