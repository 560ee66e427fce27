# Clockwork Dark: a verification development of the hosted engine

This directory holds TLA+ models of the parts of *Clockwork Dark* where
threads, processes and messages meet: the hosted mode, in which one supervisor
runs a worker process per story and shares one model server among all players.
It holds the TLC configurations that check the models on small instances, and
theorems about them that TLAPS proves for instances of any size.

Paths below are relative to the repository's root (`engine/...`); in
`PROJECT.json` the same root is called `src/`.

## 1. Inventory

The repository is a text adventure engine (`engine/`) with a launcher, a web
UI, stories (`content/`, `games/`) and a hosted mode.

| Component | State it keeps | Operations | Talks to | What makes it hard |
|---|---|---|---|---|
| **Lane queue** `hosting/supervisor/queue.py` | lanes (waiters, holders, size), pauses, closing stories, reclaimed tickets | acquire, release, cancel, close_connection, pause, narrow_pause, resume, close_story, resize, close; a deadline thread | workers over the bus; the supervisor's operations | answers sent after the unlock, drains made of several calls, reclaiming from a hung holder, lost connections |
| **Worker lanes** `llm/gate.py`, `hosting/lanes_remote.py` | the tickets a worker holds, those reclaimed from it | admit a turn, take a slot, release, hear a reclaim, call off | the bus client; turn threads | an answer racing a timeout or a call-off; a late grant |
| **Bus** `hosting/bus.py` | credentials, connections, pending requests | mint, retire, hello, request, reply, give up, call off, close | both sides | deferred replies, two-step admission of a hello, links that die |
| **Supervisor** `hosting/supervisor/server.py`, `process.py`, `ops.py` | the story table, processes, operations, the shutdown | tick, reaper, health pool, operations thread, shutdown | queue, bus, operating system | five threads deciding about one child; time-outs; a crash in any window |
| **Model apply** `hosting/supervisor/llm.py` | the settings file, its backup, the children it claimed | apply, rollback | supervisor, queue | partial failure half way through the workers |
| **Sessions and turn guard** `session/store.py`, `scenes/default_scene.py` | live sessions, turn locks, ending marks | create, resume, end, sweep, run_guarded | gate, saves, sockets | one session per account; ending an account against a running turn |
| **Saves** `persistence/` | save.json, memory.json, an index | save, load, delete, reindex, migrate | sessions | three files, no common transaction; a row cap |
| **Game state, transactions** `game/transaction.py`, `state/` | the GameState and its snapshot | snapshot, commit, rollback | turns | a rollback puts back everything, what other threads wrote included |
| **A turn** `scenes/default_state.py`, `agents/` | the frame, the receipts, the draft | the choice's effect, negotiation, tool calls, drafts, the next frame | doors, turnstile, skills server | a choice read before a wait; tool calls on another thread |
| **Game rules** `game/` (threads, clocks, effects, quests, encounter, trade, evil ticker) | the GameState | the rules of a turn | transactions | boundaries and caps; sequential |
| **Social (the phone)** `social/` | due messages, marks, inboxes, dirty flags, the turnstile; promises, plans and the queue of events; the scene and the place | voicing passes, inbox drain, timed saves; make, keep, break, void, forget; ask, plan, go, meet, end | sessions, gate, media | results applied long after their snapshot; a row and the event that judges it, written by many handlers |
| **Accounts, limits, doors** `hosting/accounts.py`, `limits.py`, `sockets.py`, `frontdoor/` | accounts file, counters, sockets, relayed links | log in, take/give back a place, revoke, relay | everything public | counting on every path, revocation against a live link |
| **Media** `media/` | job queues and caps | submit, run, store, hand over | phone, scenes | a job handed to a rebuilt run |
| **Model clients, world, memory, content, lore, challenges, studio, telemetry** | text, caches, tables | build prompts, call models, simulate, load | turns | data-driven and sequential; little protocol |

How a turn flows: a player's action reaches a worker through the front door's
relay; `run_guarded` takes the session's lock and asks for a narration ticket
(`gate.admit_turn`, `RemoteLanes.acquire`, a bus request); the supervisor's
queue grants it; the turn's own model calls take utility tickets; at the end
everything is released. A drain (an operation or the shutdown) pauses the
story's new turns, waits until it holds no ticket, closes its line, asks the
worker to finish what it still answers, and only then stops the process.

The properties that make each part right:

- queue: lanes never over their size; one turn per account; arrival order; no
  free slot beside a waiter who may use it; nobody unanswered; a drain is final;
  a lost connection leaves nothing behind; waits and drains end.
- local lanes: first come, first served, and nobody forgotten beside a free slot.
- worker lanes: no slot belongs to nobody; no call waits for an answer that
  cannot come; no release of a ticket the supervisor does not know; a reclaim is
  heard; slots come back without the backstop.
- supervisor: one process per story; a child is shown ready only after its own
  `ready`; nothing left paused; no turn cut; a dead start's credential is
  dead; one worker at a time on a child; held down stays down; the shutdown ends,
  leaves nothing and starts nothing.
- model apply: the settings are applied everywhere or put back everywhere, and
  no story stays paused and no worker nobody's.
- sessions: one live run per account; an account that was ended is released by
  the turn it waited for; no save goes backwards; a purged folder stays gone.
- saves: a crash between any two file operations costs at most the save under
  way, never an older one.
- phone: one call words a message at a time; no request is lost; nothing is
  said for a run that is over; a world turn waits for one call at most; an open
  promise will be judged; a plan comes to an end and stands in nobody's way for
  ever; who waits where the player is, is met.
- a turn: what its narrator was told stays done; it runs the choice the player
  was offered.
- doors, relay, media: every place comes back; a revoked connection is closed;
  a finished job goes to the run that asked last.

## 2. Modules and the code

### LaneQueue (`queue.py`)

Every operation of the class runs under one condition variable, so one
operation is one action. `waiting`, `held` and `limit` are the lane table;
a lane's deque is the set of its entries ordered by ticket number, which is the
order they were appended in. `Grants` is `_grant`: the sets of waiters that a
grant pass may pick, which for the code's loop is exactly one set; every
operation that ends in `_grant` ends here in `GrantThenSend`, and those that do
not (pause, close_story, resize, expired waits) do not. The answers are
computed under the lock and sent after it is dropped: they wait in `answers`.
Time is abstracted: the deadline thread may find any set of waiters and
holders overdue. `Remembered` is the bounded memory of reclaimed tickets.
Counters, log lines and the queue's snapshot for the admin page are left out.

### WorkerLanes (`gate.py`, `lanes_remote.py`, the request half of `bus.py`)

Extends LaneQueue with the workers' threads, their bus clients and the two
message sequences of each connection. A *call* is one acquire and the slot it
brings; it may be made inside a turn (another call). Its thread's wait ends by
the answer, by the bus's timeout (`GiveUp`) or by the player leaving
(`CallOff`, then `Withdraw` with the bus's lock released); a later answer goes
to `_late`. A reclaim travels as a request of the supervisor, is read by the
reader thread and handled on the bus pool, so it may be overtaken by the
release. A worker may die (`Crash`) before or after the supervisor sees its link
close (`SeeClose`). A call-off that fires in the instant after the bus's
timeout is folded into `GiveUp`.

`QueueImplemented` (a refinement: `INSTANCE LaneQueue WITH` request numbers
renamed to ticket numbers) states that the composition makes only steps of the
queue checked alone: the properties of LaneQueue carry over.

### Lane, LocalLanes (`gate.py` without a supervisor)

`Lane` is what the gate promises of a lane: no more inside than slots, waiters
served in order of arrival, anyone may leave the line. `LocalLanes` is the
narration lane of a hosted worker on its own: `FifoSemaphore`, a condition over
a deque, one action per hold of the condition's lock. `notified` is the set of
waiters that `notify_all` woke and that have not looked yet; a waiter whose time
ran out looks once more before it leaves, one interrupted by an exception does
not. Admitted turns call the model from several threads, which share the turn's
one slot (`_Held.share`), and start no call past their deadline.
`LaneKept` is the refinement (`INSTANCE Lane WITH line <- waiters, inside <- Inside`).

### Supervisor (`server.py`, `process.py`, `ops.py`, credentials of `bus.py`)

The story table (`child`), the credentials of every start (`token`), the
processes that really run (`procs`), and where each thread is: `checks`
(health pool), `reaping` (reaper), `op` (operations thread), `main` and `halt`
(main thread, stopping threads). An action is what a thread does under one hold
of `_lock`, one call of the queue or one wait on a process. The queue appears
as what it promises: `paused`, `closing`, and `turns`, the starts holding a
ticket. `Ticked` is the guard of `_tick_one`; the tick is modelled child by
child. Every timeout may pass at any moment, so `boot_seconds`, backoffs and
drain times are choices. A crash count may lose any number of its oldest
entries (`restart_window_minutes`). A failed start (`FailedSpawns`) is either no
process or one killed at once; inside an operation it leaves the story
stopped, in a tick it counts as a crash, as in the code.

The main thread waits for the workers' stopping threads until a deadline, and
so may go on while they still work; the front door's stop runs on the main
thread itself, and a stop that raises is caught (`HaltStopFails`).

### ModelApply (`llm.py`, with what it meets of `server.py` and `queue.py`)

The operations thread's `perform` is a program counter (`op.pc`) through the
code's five steps, with `op.stage` saying whether it restarts (`apply`), takes
back (`take`) or starts again (`again`) the workers. `layer` and `prev` are the
two files, `loaded` the layer this process's config was read from, `sizes` the one the lanes
were sized from, `config` the one each worker's process read when it started
(`ReadsConfig`, which may come before or after the file changes). Beside it the
main thread and the reaper restart what crashed, each looking at `stopping` and
`applying` as the code does, and turns take and give back tickets. Every wait
may time out. The form and its validation are the choice between `refused` and
going on; the drain of a story is `paused` and `held`.

### Sessions (`session/store.py`, `default_scene.py`, `default_state.py`, `social/saves.py`, `hosting/admin/users.py`)

The live runs of one account in one worker. A *build* is one `GameSession`
object; resuming a run makes a new one. A turn is what a build's memory
gains, and what a save of it holds: `disk[r]` is the set of plays in the run's
save, so a save that loses progress is a set that is not larger. Each thread's
place (`thread[t].at`) is where it drops one lock or looks again at what others
may change: found its run, holds its turn lock, checks that the account is
open, writes, releases, runs the release hook. `lock[b] = Kept` is the lock a
release takes and never gives back (`_flush_taken`), so that nobody else saves that
build. The admin's request (`users_delete`: disable, end, remove, purge, look
again) is a sequence of its own between the others.

### Saves (`persistence/saves.py`, `atomic.py`)

One folder: three files per run and the index. A file's content is the time of
the save it belongs to. `write_json_atomic` is its observable steps (the old
file becomes the `.bak`, the new one takes its place), the index lock is held
where the code holds it, and a crash empties every thread at any step.

### Phone (`social/voicer.py`, `turnstile.py`, `inbox.py`, `away.py`)

A voicing pass from its request to its commit: joined, delayed, taken by a
scheduler thread, asked through the turnstile and the narration gate, worded
from a snapshot, and committed if the turn lock is free, parked in the inbox if
not; the marks (`session.voicing`) say which pass words which message. People
leave and come back, a reply may fail or fall back, the run may be rebuilt or released,
and a cancel judges passes and takes them out in two steps, as in the code.

### Promises (`social/promises.py`, and what touches a promise in `convo.py`, `messaging.py`, `voicer.py`, `matching.py`, `relationships.py`)

The promises between the player and one person (persons share no row, event or
message). `row[i].status` is the row's, and `row[i].carrier` is what will judge
it: the queued event of that kind whose `promise_id` names it, a due message
(its `message_id`), or nothing. Dates are abstracted to a phase: the window is
still to come, open, or over, and passes from one to the next at any moment, so every
event meets every phase it may. An action is one handler with the
effects it applies: the chip, a decision, a commit's adopted promise, the two
events, the landing of a message and its words, and the four ways a queue is cut: an
unmatch, an ending, a ghost, and a save's compaction of closed rows. How a person decides
(archetypes, draws, schedules) is a choice. `dropped` is history: the
promises whose event an unmatch or an ending took away (section 5).

### Plans (`social/plans.py`, with `scene.py`, `world.py`, and what touches a plan in `convo.py`, `relationships.py`, `matching.py`)

The plans to meet one person: `plan` is their last row (one is open at most,
`_blocked`), `queue` the queued events that name it or a request of theirs, and
their read. The engine's clock moves only inside a verb, so an action is
either a verb up to where it advances the clock (`doing` says what for), an
event that runs meanwhile, or the rest of the verb; `GetsThere` is `plans.arrive` and
the `meet_if_here` after it, `LooksRound` the one that follows a scene. Times are abstracted to where
a plan is in its course: they are on their way, there (`arrived`), or past their
patience (`over`), which may come at any moment of a verb. Which venue, what a
scene is worth and whether they are willing are choices. Somebody else may have
plans too: their scene may open, or they may be stood up, wherever the code
would look at their rows. `after` is history: the plan was made with
somebody who had left already (section 5). Left out: the wedding, which stands in no
plan's way, and being at work, which is a place here.

### Doors, Relay, MediaJobs

`Doors` is `LongHolds` and `TurnSlots` (`hosting/limits.py`) with every path a request
of the proxy may leave by. `Relay` is one upgrade in `frontdoor/ws_relay.py`:
the thread that reads the client and ends the link, the one that sends to it, and a
revocation told by this process or made by another. A send blocks while the
client does not read; only a shut socket wakes it. `MediaJobs` is
`media/comfy/jobs.py`: the queue, the pick (priority, account, age), one running job,
its hand-off to the newest submission, and a save's delete.

### Turn (`default_scene.py`, `default_state.py`, `agents/`, `game/transaction.py`)

One session's presses of a choice, from the socket or the API to the next frame.
The door holds no lock: it judges whether the choice is still offered
(`Arrives`), reads its sentence and then its mechanic (`ReadsSentence`,
`ReadsIntent`), waits at the turnstile in a phone story and only then tries the
turn lock. Frames are counted and `On[f]` says which ids the frame `f` offers;
every frame counts its choices from the first again, so an id of one frame is
mostly an id of the next too. Under the lock comes the turn in
`run_turn`'s order: the choice's own effect, the negotiation's commit, the
mechanics phase, the drafts and their rollbacks, the frame. The game is the set `applied` of
effects, each a press and a phase; `receipts[p]` is what `p`'s narrator is told
has happened, `before[p]` the snapshot of `StateTransaction`. A tool call is
`CallsTool` and, on the skills server's thread and under no lock, `ToolLands`:
after a stream that broke it may land during the drafts, after the turn, or in
the next one. A turn that raises leaves what it did. Left out: typed lines
(never stale), the background tick before the choice (its effects have no
receipt and precede everything), the companion and the text itself.

### The MC modules

`MCLaneQueue`, `MCWorkerLanes`, `MCSupervisor`, `MCSessions`, `MCPhone` and
`MCTurn` give the constants their values and define the restricted next-state
relations of section 3. `MCHosted` (the queue of `MCLaneQueue` and the store of
`MCSessions`), `MCParts` and `MCMoves` put several parts side by side: a
behaviour chooses one and runs it, the others stay as they begin, so one run
checks each of them whole (the states are the sum, not the product). `MCMoves`
instantiates the queue, the workers over it, the supervisor and the phone for
their liveness.

### Slips

A definition commented `Slip:` is not part of any model. It is a plausible
mistake in the definition right after it (a dropped guard, a forgotten
answer, a missing reset); replacing the real one by it breaks the property named
for it in `PROJECT.json`. They record what each property protects.

## 3. Runs

| Run | Instance | Shows |
|---|---|---|
| `hosted` | queue: 2 stories, 2 workers, 1 account and the empty one, 2 lanes, sizes 1 and 2, 3 tickets; store: 2 runs, 2 requests, 2 builds, 1 play, the saver and one background thread; 5.2 M states | the queue's safety against all operator calls and the deadline thread; one live run, no save lost, ends and purges final |
| `worker_lanes` | a turn with a utility call in one worker, a turn in another; 1.5 M states | the composition implements LaneQueue; every call has one answer; nothing orphaned, released twice or unheard, through time-outs, call-offs, reclaims and crashes |
| `supervisor` | 1 worker, 3 starts, 1 health check, 1 reaper job; 2.4 M states | operations, crashes, health, reclaims and a shutdown against each other |
| `phone` | 2 messages of 2 people, 2 scheduler threads, 1 player, 3 passes; 7.0 M states | marks, replies and requests through cancels, departures, rebuilds and releases |
| `moves` | the queue (1 worker, 2 tickets), two turns in two workers, the front door's supervisor (3 starts), a phone (1 message), a link; 0.16 M states | waits end, slots come back without reclaims, crashes are handled, shutdowns end, world turns get through, revoked links close |
| `parts` | apply: 2 workers, 1 crash; saves: 2 ids, 2 threads, 3 saves; doors: 5 requests of 2 accounts; media: 2 keys of 2 owners, 2 submissions each; lanes: 2 turns of 2 callers, 2 single calls, 2 slots; turn: 2 presses, 1 tool, 4 frames; promises: 2 of one person; plans: one person's, 4 places; 2.4 M states | each part's safety; a narrator is told only what stays done; the local lane implements `Lane`, forgets nobody and never calls more than its slots; an open promise will be judged; a plan or an ask comes to an end, who left has no plan, who waits here is met |
| `crash_during_operation`, `shutdown_during_drain`, `late_health_check`, `revoked_link`, `stale_press`, `stood_up_here` | the same constants, the windows left open (`stale_press`: no phone action, so that only turns make frames; `stood_up_here`: Plans as it is) | the findings of section 5 |

**Bounds.** `MaxTickets` 3 lets a holder, a waiter and a newcomer meet in one
lane (and a lane of size 2 with one waiting), which is what every rule of the
queue is about; ordering, one-per-account and pauses compare two entries. Two
workers are needed for one player's two windows. Symmetry swaps the workers
with their stories, the runs, or the requests (`MCHosted.MCSymmetry`).
`MAX_RECLAIMED` 1 makes the memory overflow in `hosted`; in `worker_lanes`
it is never full, as its 256 is not in practice. `MaxRestarts` 1 and
`HealthFailures` 1 make every threshold reachable within 3 starts: one that
crashes, one that replaces it, one that is held down and revived. The story
table has no action on two children at once except the shutdown, so one child
is enough for the others. `CheckIds` and `ReapIds` bound the jobs in flight.
`Sessions`: two builds are a run and its successor, or two runs' first; one play
tells a save with it from a save without; two requests beside the background
threads meet as any two do. `Phone`: two messages of two people are what a pass words
together, one thread is what the code runs and two what it allows; three passes
are one in flight, one parked in the inbox and one queued (an id nobody
refers to is used again). `ModelApply`: two workers are one restarted already
and one that fails. `Saves`: `MaxTime` 3 is a save, its successor over the
`.bak`, and another id's; `Limit` 2 and `Room` 1 are met. `Doors`: five requests meet
each limit with one over. `MediaJobs`: `MaxEpoch` 2 is a submission and its
resubmission, `Cap` 2 is reached. `LocalLanes`: four threads at two slots are
two inside and two in line, so that the first in line is passed a slot by
either holder, leaves, or is interrupted while the second waits behind it.
`Turn`: two presses are a turn and the one that waits for it, or a turn and one
whose late tool call lands in it; one tool call may be told or late, one retry rolls
one draft back. `Promises`: `MaxPromises` 2 is one that is judged, broken or forgotten while
another of either side is made and carried. `Plans` has no bound: one person, four
places, and every order of verbs and events.

**Restrictions, and why they are sound.** `MCLaneQueue.SendFirst` sends due answers
before the next operation: no operation reads `answers`, so the queue's states
are the same; delayed and reordered answers are checked in `worker_lanes`. The other
restrictions close windows of the code. They are in the MC modules only; the
proofs are about the unrestricted specifications (the theorems that need a window
closed name it as a hypothesis), and section 5 says what each window lets
through:

- `MCSupervisor.PromptNext`: the operations thread goes from the start it made
  to the end of its finally clause, and a submitted health job is begun, before
  anything else happens (findings 1 and 3). `SupervisorNext` bounds the instance: a
  shutdown comes while no reclaim is under way and no child was started more
  than twice.
- `MCSessions.StorePrompt`: a request looks at the store as soon as the gate let
  it in; a run's flush at its release is over before anybody else moves; an
  end that is refused and the mark that replaces it are one step; nothing is
  played on a run while it is resumed, and the flush before its load does not
  fail. A release with no end waiting changes nothing and goes at once; the
  timer and the flush before a stop are not both at work (`OneFlusher`: each holds
  the build's lock, so they meet only at different builds).
- `MCPhone.AtOnce`: a cancel is over before anybody else moves. A pass that
  cleared its marks is put away at once, the player's request follows what it
  is made for, and after a release only the calls under way go on. `Few` is a
  bound: both threads are at work only when one message at most is unsettled.
  No parked reply raises when it is applied (`Faulty = {}`).
- `MCParts.Undivided` (the model apply): only the apply starts a worker while it
  is open whether the new file stays; a crash leaves the reaper's hands within
  the claim's deadline; the tickets of the processes a rollback took down are freed
  before the lanes are resized.
- `MCTurn.PromptNext`: a press is read, and tries its lock, in one go, and who
  waits takes the turnstile as soon as it is free. (`stale_press` runs under it
  too: its finding needs neither.)
- `MCMoves.CallsNext`: no ticket is taken back, so that `CallsMove` says that
  slots come back without it.
- `MCMoves.Closes`: the unbounded close does not meet a client that does not
  read (finding 4).

**Deadlock** is not checked: the calls, tickets, starts, plays and saves are
bounded, and the supervisor does end. That nobody waits for ever is what the run
`moves` is for.

**Fairness.** Only weak fairness is used. Queue: the deadline thread loops while the
queue is open (`LaneQueue.start`), waits have a maximum, holds a `max_hold`.
Nothing is assumed of the workers. Workers: threads run, messages on an open link
arrive, a turn ends by its deadline (`turn_expired` refuses further calls), the
lifeline ends a worker whose link closed and the selector sees a dead worker's
link close; neither the bus timeout, a player's leaving nor the deadline thread is
assumed. Supervisor: the operations thread, the main thread, the reaper and the
health pool run, each of their waits having a timeout; `stop_event` set by a
held-down front door is seen by `run`. Phone: a call to the model ends
(`llm` timeouts), the scheduler's threads run, and a world turn waiting at
the turnstile is woken by whoever leaves it. Relay: both threads of a link
wake every `WAKE_SECONDS`, the listener is called, a worker that is up pings its
clients; nothing is assumed of the client. In `MCMoves` a part's fairness asks
nothing while another part is chosen: no action it is fair to is enabled at
its start.

## 4. Proofs

**`LaneQueueProofs`**: for any finite set of connections and any stories,
accounts, lanes, sizes and bound on the tickets, from `QueueConstants` alone:

- `TypeCorrect`, `CapacityHolds`, `OneTurnPerAccountHolds`,
  `WorkConservingHolds`, `ArrivalOrderHolds`, `ClosedLeaveNothingHolds`: each
  states `QueueSpec => []P`; `TypeCorrect` for the types, the others for an
  invariant `P` of the run `hosted`.
- `DrainIsFinalHolds`: the action property, i.e. the three calls of a drain are
  as good as one.
- `NoSilentDropHolds`: the action property, that a waiter that leaves the line is
  answered in the same step unless its connection is gone. It is a property of
  each step alone and needs no invariant.
- `AnsweredOnceHolds`: no ticket is answered twice or while it still waits, and an
  entry is in one place only (in line, in a slot, reclaimed). Inductive with `Numbered` (each ticket in use was issued): every
  step only passes tickets on (`PassesOn`), from the line to a slot or to an answer.

The argument. Every action is either *quiet* (it grants nothing: the waiters and
holders only shrink, and whoever is eligible was so before) or *granting*
(it ends in `GrantThenSend` with some remaining waiters and holders);
`StepShape` establishes the split once, action by action. The inductive
invariant `QueueInv` adds to the four properties what they need of each other
and of the numbering: the sets are finite and disjoint, every ticket is at most
`issued` (so a newcomer is younger than everybody, which `ArrivalOrder`
needs), `WorkConserving` (without it a newcomer could overtake an eligible
waiter), `OneTurnPerAccount` and `Capacity`. `QuietKeeps` treats the quiet steps; the lemmas
`GrantingCapacity`, `GrantingOneTurn`, `GrantingOrder` and `GrantingBounded` the
others, from what `Grants` guarantees. `ClosedLeaveNothing` is inductive
by itself (`ClosedStep`). `DrainIsFinal` follows from one step: a
paused story's entry is granted only beside its own narration holder, and it
has none.

**`SessionsProofs`**: for any runs, requests, builds and plays, from
`SessionConstants`, about the unrestricted `Spec`, first with no window closed:
`SessionsTypes`, `OneAtATimeHolds` (two threads never play, save or flush one
build at once), `OneLivePerAccountHolds` and `DirtyIsScheduledHolds`. `OneAtATime` is not inductive: a
thread may work under a lock it holds, or flush a build whose lock its release
kept, and a kept lock names nobody. `SessionsInv` adds which of the two it is
(`LockTold`), what a live run's entry is (`LiveTold`), that a build not made
yet is nobody's (`UnmadeTold`, so that the build a resume makes meets no
thread) and what each place knows (`Placed`). The step lemmas classify what a thread does to
the locks: nothing (`ThreadMoves`), takes a free one (`LockMoves`), gives it
back, or leaves it kept at a release. `OneLivePerAccount` needs one fact of the code:
only `_build` adds a run to the table, and it takes every other run of the account
out in the same hold of the guard (`OnlyBuildAdds`).

- `DirtyIsScheduledHolds` needs none of the restrictions of the run. The
  property speaks of a run whose lock is free; the invariant (`DirtyTold`) says who
  has the dirty state when it is not: the lock's holder, about to mark it or to
  save it. An account that was never opened has no runs (`NothingBegun`), so
  enabling one begins with nothing owed.
- `EndingHasATurnHolds` has one hypothesis, `[][MarkAtOnce]_vars`: an end that was
  refused and its mark are one step (`_end_when_done` beside `end`, section 5).
  Between the two the mark's run must still have its turn (`MarkTold`); after
  it, a mark outlives whoever holds the lock, because a lock is given back in
  `release_turn` alone (`KeepsLock`) and its hook ends the run or finds that
  somebody else has taken the lock.
- `PurgeIsFinalHolds` has one hypothesis, `[][DisablesQuietly]_vars`: at the
  instant of a disable no turn is between its admission and its look for its run, and
  no flush of a run that already left the store is past its question. TLC finds
  the property violated when either half is dropped (the second needs a resume
  let in beside the turn). It stands on two layers. `FreshInv`: a run that is being
  created is its creator's alone, so a failed create deletes nobody else's
  run (`FreshTold`), and each place tells what its thread was asked (`Told`). With it,
  what a thread points at is live, or its lock was kept by a release
  (`LiveOrKept`: `KeptForGood`, `LiveForGood`, `TurnsToLive`). `PurgeInv` then
  follows who may still write into a closed account (`Writes`): in a closed account
  nobody joins them (`QuietStep`); `end_owner` has each of them in its list, or
  says that a turn is busy (`EndSees`); and a purge goes on only when there
  are none (`PurgeWaits`).
- `SavesOnlyGrowHolds` has one hypothesis, `[][GrowWindow]_vars`, which is weaker
  than what `MCSessions` closes. It says: no resume loads a run while the flush of
  its release is under way (`LoadsFlushed`); and from the flush before a resume's
  load to its build, nobody else takes the lock of the run's live build, and that
  flush does not fail (`Resumed`). TLC finds the property violated when any of the
  three is dropped. `GrowInv` adds to `FreshInv` and `LiveOrKept` that a live run
  has what its save has (`LiveHas`), that so has what a resume loaded
  (`LoadedHas`), that a create finds no save (`CreatesAnew`), that a run being
  resumed is nobody else's and, once flushed, has nothing left to flush
  (`LoadsAlone`), and, for a run that its release took, that it is only flushed
  (`WorksHeld`) and that what such a flush may still write is no less than the
  save and nobody else's to write (`FlushTold`).

**`PhoneProofs`**: for any messages, scheduler threads, players and passes, from
`PhoneConstants`, about the unrestricted `PhoneSpec`: `PhoneTypes` and
`OneNarrationHolds`. The property speaks of two threads; it follows because
whoever is inside the turnstile is the thread it names (`HolderTold`), which
with the types is inductive. Three more properties of the run follow:

- `RequestKeptHolds`. Unrestricted, a pass is queued, in flight, being dropped
  or nobody's, and no two threads have the same one (`PassesApart`; with the
  types, `ApartInv`). `RequestKept` then holds where a cancel, once begun, is over
  before anybody else moves: the hypothesis `[][CancelAtOnce]_phoneVars` of the
  theorem, one of the windows `MCPhone.AtOnce` closes and the only one needed. Its
  invariant adds who a cancelled pass belongs to and that nothing asked
  outlives a cancel (`CancelsTold`). Without the hypothesis the property is
  false (section 5).
- `NothingAfterLeavingHolds` closes no window and lets any reply raise. What
  is said is said under the lock, by a session that is alive, of people who
  are not gone, whoever holds the lock and however the inbox is drained
  (`SaidInv`, `InTime`): a player in a turn keeps the run from being released
  (`TurnHeld`).
- `OneReplyEachHolds` closes no window either. Its hypothesis `Faulty = {}`, that
  no parked reply raises when it is applied, is the constant of the run `phone`,
  and is needed (section 5). `OneReplyEach` is not inductive alone: a mark that a call
  leaves behind is answered for only because a reply is marked by the pass that
  parked it and by no other reply (`RepliesMarked`), a pass that may run again
  knows what it parked, so that clearing its marks spares those (`ParkedNoted`),
  a call's words are in no reply (`WordsMarked`), and what is marked is worded, parked
  or about to be cleared (`MarksAnswered`). Every hold of the lock leaves a
  part of what was due, with the marks it had (`LessDue`).

The inbox is drained by a fold: `FoldExists` shows by the least length that
fails that the fold is the function its recursion describes, and `DrainGoesOn`
that what every item keeps the whole drain keeps.

**`LocalLanesProofs`**: for any finite set of threads, any callers and any number
of slots, from `LocalConstants`: `LocalInvariant`, `LaneImplemented` (the
refinement `LocalSpec => LaneKept`) and `LaneServesHolds` (the property of the
run `parts`). The inductive invariant relates what `gate.py` keeps twice: the
deque holds exactly the threads that wait, each once (`LineTold`), the counter
is the number of threads inside (`CountTold`), a call under way has its turn's
share and its turn is inside (`ShareTold`), and whoever is first beside a free
slot was notified (`NobodyForgotten`). Each action's lemma shows both that it
keeps the invariant and which action of `Lane` it is (`Kept`). `CallsBounded`
maps every call under way to the thread inside that it belongs to, one to one.

**`WorkerLanesProofs`**: for any finite set of workers, any stories, accounts,
turns, calls in them, tickets and sizes, about `WorkerLanes` and `LaneQueue`
composed and from their constants' assumptions: `NoOrphanTicketHolds`,
`OneAnswerEachHolds` and `ReclaimsAgreeHolds`, the invariants of the run
`worker_lanes`. None is inductive, because each
speaks of a call or a ticket wherever it happens to be. Three invariants follow
it:

- `TicketsInv` (in `LaneQueueProofs`): what the queue alone knows of its tickets.
  The step lemmas about the queue hold of `AnyNext`, one step of the queue with
  any request at all, and `QueueTakesPart` shows that each step of the
  composition is one or leaves the queue alone; so nothing about the queue is
  proved twice.
- `CallsInv`: a call is in one place at a time, and once: asked for on the link,
  in the line, in an answer not sent yet, in a reply on the link (`OnePlace`).
  Every message is its own worker's (`OwnersTold`), and nothing is under way to a
  living worker that it does not await, in its thread or in `_late` (`Expected`).
  `NoOrphanTicket` and `NoLostCall` are the two halves of it that matter, and
  are inductive only together with it.
- `SlotsInv`: a ticket on the workers' side is one the supervisor knows, by where
  it is (in an answer, in a reply, in a thread's hands, in a release on the link),
  and a ticket taken back from a living worker is news on its way to it
  (`NewsTold`), from the deadline thread to `_reclaimed`.

A ticket comes back once, because one release is under way at most, and the call
that sent it is spent. `ReclaimsAgreeHolds` has one hypothesis, `[]Roomy`: the
tickets held and taken back at one time are no more than `MAX_RECLAIMED` (1024 in
`queue.py:116`). Beyond it the queue drops the oldest entry it remembers, and the
late release of that one is unknown to it: the code accepts that, and the
property would be false. In the run the bound is the number of tickets, so the
hypothesis always holds there. The other theorems do without it.

The fourth, `QueueIsImplemented`, is the refinement `Spec => QueueImplemented`: the
queue the workers drive is `LaneQueue`, with each entry named by its ticket. An
acquire of any request maps to one of the next number, a cancel to one by
ticket, and a release finds only tickets that were issued. The mapping commutes
with what the queue does because tickets are one entry's each (`TicketsInv`,
`OfOneTicketEach`): then renaming keeps differences, lanes and how many there are
(`RenamedMinus`, `RenamedInLane`, `OneTicketEachFinite`), so the same waiters are
granted (`GrantsRenamed`). With it the properties of `LaneQueueProofs` that do
not speak of requests hold of the composition too.

**`SupervisorProofs`**: for any children and workers, any number of starts,
checks, crashes and reaper's jobs, from the assumptions of `Supervisor`: every
invariant of the run `supervisor`, and its action property.

With no window closed: `SupervisorTypes`, `OnlyOperationsPauseHolds` (until the
shutdown, a story is paused by the operation on its worker and by nothing else)
and `NothingRestartedHolds` (once a shutdown is asked for, nothing is started).
With the window of finding 1 closed, i.e. under the hypothesis
`[][ClaimedLast]_vars` (the tick notices no crash of the child of an operation in its
finally clause): `MarkedWhileWorkedHolds`, `OneStartHolds`,
`OperationsSpareTurnsHolds`, `NothingLeftRunningHolds`, `StaysDownHolds`. With that
of finding 3 closed too (`[][ChecksBegun]_vars`: a check that is due is begun before
its child is started again): `ReadyAfterReadyHolds`. Both are weaker than what
`MCSupervisor.PromptNext` closes, and TLC refutes each of these properties when
`ClaimedLast` is dropped, except the restart half of `StaysDown`; it refutes
`ReadyAfterReady` when either is dropped.

The argument. How a step can change a child's record, a token, the operation
and the shutdown's threads is stated once (`ChildIs`, `TokenIs`, `OpIs`,
`HaltIs`). The inductive invariant `SupervisorInv` is then a chain:

- `Claims`: a child is in one pair of hands at a time (an operation's between its
  claim and its finally clause, or the reaper's), and is marked while it is. This
  is the one part that needs `ClaimedLast`.
- `Halted` and `Dead`: therefore whoever starts a child again knows that its
  process is gone: a process belongs to its child's current start, and a child that is
  due to restart, that the reaper has stopped, whose old start an operation has
  stopped, or that the shutdown has killed, has none. `NothingLeftRunning` follows.
- `TokensTold`: tokens of later starts are not minted, those of earlier ones are
  dead, a connection is its start's, and an operation that retired a token finds it
  retired. `OneStart` follows.
- `TurnsTold`, `DrainTold`, `Spared`: a ticket held is a linked worker's; a child shown
  to players was linked; a story being drained is paused, so no turn begins in it; an
  operation that goes on to stop a healthy worker has seen its turns end.
  `OperationsSpareTurns` follows.
- `ChecksTold`: a check begun speaks of the connection of the start it was begun for,
  and what is shown as healthy said it was ready. `ReadyAfterReady` follows.

**`ApplyProofs`**: for any workers, any bound on restarts and any number of
crashes, from `ApplyConstants`. With no window closed: `ApplyTypesHold`,
`NothingHeldBackHolds` (the second conjunct of `ApplyIsWhole`) and
`FilesAsSaidHolds` (what the first says of the files). Their invariant `ApplyInv`
says at which place of the code which stage is possible (`OpTold`), which file is in
force there and that what was kept of the old one can be put back (`FilesTold`), and whose each
worker is (`ClaimsTold`: whatever the apply claimed is marked, whatever it is to
start again is its own and down, whatever is marked without being claimed is a
crash the reaper will see).

`ApplyIsWholeHolds` has the hypothesis `[][Undivided]_applyVars`, the three windows of
section 3; TLC refutes `OneConfig` when any one is dropped. `WholeInv` says:

- while the new file's fate is open, a worker that read it is one this apply
  started (`NewTold`), and one it started runs under nothing else (`UnderTold`);
- one the rollback is done with is down, and stays down until the old file is back,
  because it is claimed or in no state the tick starts (`TakenTold`); one the
  apply went past is down (`SkippedTold`). So at every end each worker that runs is under
  the file in force (`OverTold`);
- nobody plays in the way of it (`Quiet`): everybody is paused from the drain
  to the resize; after it a story whose worker was not restarted is paused
  or its worker is down; so a ticket is only held by a restarted worker;
- hence no ticket is held at either resize (`ResizedIs`): at the first because of
  the drain, at the rollback's because each holder was restarted, hence taken down,
  hence (the third window) its ticket is freed. The lanes' sizes are the file's (`SizesTold`).

**`PartsProofs`**: six more parts of the run `parts`, for any values of their constants.

- `SavesStayWhole`: for any threads, saves, cap and times, crashes and failures
  between any two file operations included. `SavesWhole` speaks of what lies on
  the disk at rest; `SavesInv` says how far each thread's work is and what it has
  written by then (`FolderTold`), that the index is touched by the holder of its lock
  (`IndexLocked`) and that its rows are what the folders hold (`RowTold`).
- `DoorsKeepPlaces`: for any finite set of requests, any accounts, sessions and
  caps. Each counter is the cardinality of the set of requests that count in it
  (`AllCounted`), and what an account holds are its connections and, once more, its
  pairings (`HoldsAdded`): a pairing turns two holds into one connection, so the
  count moves only if both its sides are there (`PairsWhole`).
- `MediaServesNewest`: for any keys, submissions and retries. What runs is the
  newest submission of its key unless that one waits behind it (`EpochsTold`), and
  each key asked for is on its way (`OnItsWay`).
- `TurnTypes` and `ToldIsKeptHolds`: for any presses, choices, frames, tools and
  retries, about the unrestricted `TurnSpec`. A rollback puts the snapshot back
  whole, so what any narrator was told must be in it (`ToldIsSnapped`). It is when the
  snapshot is taken, because what a stream told is applied when the stream ends
  (`HeardIsApplied`), and nobody is told more while it may be used, because one
  turn runs at a time (`OneTurn`).
- `PromisesTypes` and `PromisesStandHolds`: for any bound on the promises, about the
  unrestricted `PromisesSpec`. The inductive invariant says of each row that a number
  beyond the counter is unmade (so a new row overwrites none), that a
  person's promise is carried by `promise_due`, `initiate` or a message and the
  player's by `promise_close` only, that an open one is carried or was dropped, and
  that only a broken row is the one the next reply is to carry. A ghost drops no
  open promise because it drops `initiate` alone of the carriers, which only a
  person's promise has, and it is not drawn while one of those is open.
- `PlansTypes` and `PlansStandHolds`: about the unrestricted `PlansSpec`. `Plans` has
  no constants, so TLC's run already visits every state; the proof says why it
  holds. Every action leaves the plan, ends it with its events, makes one where none is
  in its way or takes a timed one further (`PlanBy`), so the events queued are a
  timed plan's (`EventsTold`), and a new plan finds none of an older one's. That
  nobody waits unmet needs that a message ends with the phone in hand and a talk
  with somebody there (`DoingTold`): every other way to be idle looks round first
  (`MetBy`), except after a way chosen on the phone that finds somebody else too late
  (`missed`), where the code looks round only after the next verb, as `MetHere` says.

What is not proved, and why.

- *Liveness and `ENABLED`*: out of the prover's reach. Every property with
  fairness stays with TLC.
- *Induction over data*: the library's induction theorems take an operator, which
  the installed provers cannot instantiate. What only needs a least element is
  within reach (`LeastNat`, from `NatLessThanWellFounded` and `WFMin`): the fold
  over the phone's inbox is treated so. Sums that a recursion would compute are
  stated as cardinalities (`Connected` in `Doors`). What a recursive function
  computes for every input, in general, is not.
- *What a window lets through*: a property that section 5 shows violated when a
  window of the code is open is proved with that window as a hypothesis (those of
  Supervisor, `ApplyIsWhole`, `RequestKept` of Phone, `EndingHasATurn`,
  `PurgeIsFinal` and `SavesOnlyGrow` of Sessions). No hypothesis asks for more
  than the MC modules close, and TLC finds each of these properties violated without it.

Of what the passing runs check, only the liveness of the run `moves` is left to TLC
alone.

## 5. Findings

1. **A crash counted twice** (`crash_during_operation`). `_perform`'s finally
   clause (`server.py:1184`) clears the child's mark after `_spawn` already did,
   with the lock dropped in between. A process that dies there is claimed by a
   tick, unclaimed by the finally clause and claimed again, against the
   module's own rule (`server.py:52-53`). From there the reaper and the
   operation's release act on one child: without the window closed TLC finds
   `OneStart`, `OperationsSpareTurns`, `NothingLeftRunning` and `StaysDown` violated
   too, two processes of one story among the results.
2. **A shutdown cuts a draining worker** (`shutdown_during_drain`).
   `shutdown.one` drains only ready or degraded workers (`server.py:1296`); one
   that an operation is draining is stopped at once, although
   `docs/HOSTING.md:1418` says every worker is drained.
3. **A late health check** (`late_health_check`). `_check` reads the connection
   when it runs (`server.py:1056`), not when it was submitted; begun after a
   respawn it makes a starting child degraded, whose own `ready` is then refused
   and which is restarted although healthy, against `docs/HOSTING.md:1289`.
4. **A revoked connection that never closes** (`revoked_link`). A link's own
   re-check of its login ends it with `link.end` (`ws_relay.py:512`), whose close
   frame may block on a client that stopped reading; the bound of `end_bounded`
   (the module's doc, `ws_relay.py:55-62`) covers only a revocation told by this
   process's listener.

5. **A stale press that runs** (`stale_press`). `stale_choice` judges no press
   while a turn runs, since "The turn guard answers it ``busy`` instead"
   (`default_state.py:772-773`), and the socket door says that a double-click
   "must not reach the engine" (`default_scene.py:897`). In a phone story a
   world turn waits at the turnstile before it tries the lock
   (`_run_world_turn`, `default_scene.py:508`), and the turn that runs holds the
   turnstile: the guard does not answer, the second press waits and then runs a
   turn of its own, with a sentence and a mechanic of a frame that is gone, or of
   none.

6. **Stood up without leaving** (`stood_up_here`). "While the player is at the
   place the person never stands them up, however long the phone or another scene
   kept them" (`plans.py:782-784`): `meet_if_here` judges nobody's patience, only
   an arrival does. A scene in the flat may end with the player going home
   (`end_scene`, `scene.py:760`), which is `world.go` from the flat to the flat:
   `plans.arrive` stands up whoever has waited there past their patience,
   although the player never left. `tests/test_social_arrival.py:278` has the
   case where the player stays; `PlansStand` holds with both.

Findings 1 to 3 are small windows between threads; 4 needs a client that stops
reading, 5 is as wide as a turn, and 6 needs two people in one evening. The passing runs hold outside these and
outside the following, which the MC modules close (section 3) or the property
excepts (promises):

- *Sessions.* An end refused because a turn runs marks the session afterwards
  (`_end_when_done`); a turn that ends in between has called its release hook
  already, and the session stays marked with nobody to end it
  (`store.py:1065`). A release takes the run out of the table before it
  flushes it, so a resume may load the save of before the flush
  (`store.py:649-662`), and a turn played between a resume's flush and its
  build is in neither. A request let in before a disable may look at the store after
  the last check of a purge, and a flush that asked whether the account is open
  before the disable may write after it: its run has left the table, so
  `end_owner` lists nothing.
- *Phone.* A cancel judges passes holding no lock (`voicer.py:1315`): a request
  that joins the judged pass before it is taken out goes with it. A parked
  reply that raises when it is drained has its marks popped
  (`voicer.py:716-724`), but a pass never forgets what it parked (`p.parked`,
  `:534`): when the same pass runs again it marks the messages again
  (`:410`), and if that call fails too, `_clear_marks` spares them (`:415-419`).
  A mark stays that nobody answers for, and `_voiceable` (`:294`) keeps such
  messages from every later pass and from the fallback too.
- *Model apply.* A worker that somebody else starts while the new file is in
  place and its fate open reads the new file, and a rollback of "ONLY the
  workers this apply stopped" (`llm.py:846-854`) leaves it there. A rollback's
  claim may time out on a child the reaper has. `_resize` is refused, and only
  logged, while the tickets of a worker that was just stopped still count.
- *Turn.* A tool call that landed before its stream broke is applied and never
  told: the phase returns no receipts (`mechanics.py:286-296`), although its
  doc has it that a failure costs tool calls and nothing else. A press reads its
  sentence, its mechanic and the lock one after the other, and a turn that ends
  between two of them leaves it two frames' halves.
- *Promises.* `promises.py:33-34` has a person's promise "withdrawn (``void``)
  only if they leave or the relationship ends", and `convo.py:501-503` that open
  promises are voided "through their OWN handlers (T4, T12), never by dropping
  their events here". An unmatch or a block drops every event of theirs
  (`matching.py:431`) and, unlike the plans beside it, voids no promise: its rows
  stay open for ever, and no save may forget an open row. (The test of it,
  `tests/test_social_promises.py:378`, sets `unmatched_by` itself and so keeps
  the events.) An ending drops `initiate` (`relationships.py:166`), which may
  be a promised message that is held, its `promise_due` spent. `PromisesStand`
  excepts exactly these, by `dropped`.
- *Plans.* `call_off` leaves who left without plans (`plans.py:694-697`), yet
  a new one can be made with them: an ask of either side outlives the ending, and
  the answer (at their next read, or the player's yes) is judged by `_why_not`,
  which asks for no live relationship (`plans.py:323-337`, `875-883`). `CalledOff`
  excepts such plans, by `after`.
- *Media.* `write_media` looks at the save folder and then writes: a delete in
  between leaves a file nobody lists. No property claims otherwise.

## 6. Not modelled, and why

The table in section 1 names the parts; `PROJECT.json` gives each a status and
a reason. Inside the modelled parts: the other local lanes (a bounded
semaphore each, no order) and the lanes' configuration, bus framing, sizes and backpressure,
audit rows and metrics, HTTP and password handling, log capture, save
migrations, and how the phone's people decide (schedules, archetypes, willingness). One hazard is excluded by a stated
timing assumption: `RemoteLanes.acquire` notes a ticket as held after its reply
was read, so a reclaim in that instant would be answered as unknown. It would
need a ticket held past `max_hold` (the turn's deadline plus 120 s) to be still
in its reader's hands; `LongHeld` rules it out.

Most of the repository's lines are not protocol: game rules, validation of
story files, prompts, simulations and tests of balance are sequential functions
of large data, read and written by one thread under a turn's lock. Their tests
reach them; what a model checker adds there is little.

## 7. Plan

Done: LaneQueue, WorkerLanes, Lane, LocalLanes, Supervisor, ModelApply, Sessions,
Saves, Phone, Promises, Plans, Doors, Relay, MediaJobs, Turn, their runs, and the proofs of section 4.
Left, in order of what matters most:

1. **A whole turn in a phone story**: Turn composed with Phone's passes and
   parked replies, which here share only the turnstile and the lock.
2. **Plans and promises in one queue**: what an ending, an unmatch or a save does to
   both at once, with the wedding beside them.
3. **Lanes**: WorkerLanes with LaneQueue shown to implement `Lane`, as LocalLanes is.
4. **Pure algorithms**: clocks, threads and the evil ticker.
