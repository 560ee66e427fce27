------------------------------- MODULE MediaJobs -------------------------------
(***************************************************************************)
(* The phone's media queue and its one worker thread,                        *)
(* engine/media/comfy/jobs.py (MediaJobWorker): jobs submitted by the runs,  *)
(* picked by priority and then account by account, run against ComfyUI with  *)
(* a retry, stored under the save, and handed off to the run that asked      *)
(* last.                                                                    *)
(*                                                                          *)
(* A job's KEY is its owner, save, media id and request; a resumed run       *)
(* submits the same key again under a later EPOCH.  A definition commented   *)
(* `Slip:' is no part of the model: it is a likely mistake in the one after  *)
(* it, kept to show which property would notice.                             *)
(***************************************************************************)
EXTENDS Naturals, Sequences, FiniteSets

CONSTANTS
    Keys,
    Owners,         \* 1..n, in the order of their names
    OwnerOf,        \* the account a key is charged to; it has one save here
    PriorityOf,       \* 0 thread media, 1 own photos, 2 portraits
    Cap,              \* phone_media.daily_job_cap
    Retries,          \* comfyui.retries
    MaxEpoch          \* bound: submissions of one key

ASSUME MediaConstants ==
    /\ Owners \subseteq Nat
    /\ OwnerOf \in [Keys -> Owners] /\ PriorityOf \in [Keys -> 0..2]
    /\ Cap \in Nat \ {0} /\ Retries \in Nat /\ MaxEpoch \in Nat \ {0}

VARIABLES
    jobs,     \* jobs not started, oldest first
    worker,    \* the thread and its job
    respec,    \* the epoch of a resubmission of the running job, or 0
    last,      \* the account served last, or 0
    spent,     \* each account's jobs today
    saves,     \* the accounts whose save folder exists
    stored,    \* the keys whose file is on disk
    newest,    \* each key's last accepted submission
    handed,    \* the epoch each key was last handed off to
    stopping   \* stop() was called

mediaVars == <<jobs, worker, respec, last, spent, saves, stored, newest, handed, stopping>>

WorkerIdle == [pc |-> "idle"]
Running(k) == worker.pc \notin {"idle", "ended", "handing"} /\ worker.key = k
Queued(k) == {i \in DOMAIN jobs : jobs[i].key = k}

MediaInit ==
    /\ jobs = <<>> /\ worker = WorkerIdle /\ respec = 0 /\ last = 0
    /\ spent = [a \in Owners |-> 0]
    /\ saves = Owners /\ stored = {}
    /\ newest = [k \in Keys |-> 0] /\ handed = [k \in Keys |-> 0]
    /\ stopping = FALSE

----------------------------------------------------------------------------
(* Slip: a resubmission of the running job is only acknowledged. *)
SubmitAgainDropped(k, e) ==
    \/ Running(k) /\ UNCHANGED <<jobs, respec>>
    \/ /\ ~Running(k) /\ Queued(k) # {}
       /\ jobs' = [i \in DOMAIN jobs |-> IF i \in Queued(k) THEN [jobs[i] EXCEPT !.epoch = e]
                                                              ELSE jobs[i]]
       /\ UNCHANGED respec

(* submit, of a job running or queued already: its result will be the later  *)
(* run's.                                                                    *)
SubmitAgain(k, e) ==
    \/ Running(k) /\ respec' = e /\ UNCHANGED jobs
    \/ /\ ~Running(k) /\ Queued(k) # {}
       /\ jobs' = [i \in DOMAIN jobs |-> IF i \in Queued(k) THEN [jobs[i] EXCEPT !.epoch = e]
                                                              ELSE jobs[i]]
       /\ UNCHANGED respec

(* submit: a new job is charged to its account, or refused over the cap (and *)
(* then nothing changes).                                                    *)
Submit(k) ==
    LET e == newest[k] + 1  a == OwnerOf[k] IN
    /\ e <= MaxEpoch /\ a \in saves
    /\ newest' = [newest EXCEPT ![k] = e]
    /\ \/ SubmitAgain(k, e) /\ UNCHANGED spent
       \/ /\ ~Running(k) /\ Queued(k) = {} /\ spent[a] < Cap
          /\ spent' = [spent EXCEPT ![a] = @ + 1]
          /\ jobs' = Append(jobs, [key |-> k, epoch |-> e])
          /\ UNCHANGED respec
    /\ UNCHANGED <<worker, last, saves, stored, handed, stopping>>

(* charge: a voice note counts too; a new day counts afresh. *)
Charge(a) ==
    /\ spent[a] < Cap
    /\ spent' = [spent EXCEPT ![a] = @ + 1]
    /\ UNCHANGED <<jobs, worker, respec, last, saves, stored, newest, handed, stopping>>

NewDay ==
    /\ spent' = [a \in Owners |-> 0] /\ spent' # spent
    /\ UNCHANGED <<jobs, worker, respec, last, saves, stored, newest, handed, stopping>>

----------------------------------------------------------------------------
(* _pick: the best priority, then the next account after the last one served *)
(* (the first, when none is), then the oldest.                               *)
Tier ==
    {i \in DOMAIN jobs :
        \A j \in DOMAIN jobs : PriorityOf[jobs[i].key] <= PriorityOf[jobs[j].key]}

Waiting == {OwnerOf[jobs[i].key] : i \in Tier}

Least(S) == CHOOSE a \in S : \A b \in S : a <= b

NextAccount ==
    LET after == {a \in Waiting : a > last}
    IN  Least(IF last \in Waiting /\ after # {} THEN after ELSE Waiting)

Chosen == Least({i \in Tier : OwnerOf[jobs[i].key] = NextAccount})

Pick ==
    /\ worker = WorkerIdle /\ jobs # <<>> /\ ~stopping
    /\ worker' = [pc |-> "picked", key |-> jobs[Chosen].key, epoch |-> jobs[Chosen].epoch,
                  attempts |-> 0, status |-> "none"]
    /\ last' = NextAccount
    /\ jobs' = [i \in 1..(Len(jobs) - 1) |-> jobs[IF i < Chosen THEN i ELSE i + 1]]
    /\ UNCHANGED <<respec, spent, saves, stored, newest, handed, stopping>>

Becomes(pc, status) ==
    /\ worker' = [worker EXCEPT !.pc = pc, !.status = status]
    /\ UNCHANGED <<jobs, respec, last, spent, saves, stored, newest, handed, stopping>>

(* _run_one: built, uploaded and submitted, or failed on the way ...         *)
SubmitPrompt ==
    /\ worker.pc = "picked"
    /\ worker' = [worker EXCEPT !.pc = "polling", !.attempts = @ + 1]
    /\ UNCHANGED <<jobs, respec, last, spent, saves, stored, newest, handed, stopping>>

RunFails == worker.pc \in {"picked", "polling", "collected"} /\ Becomes("ran", "failed")

(* ... polled: an execution error is resubmitted a bounded number of times,  *)
(* a stop abandons it, or its output is fetched ...                          *)
ExecutionError ==
    /\ worker.pc = "polling" /\ worker.attempts <= Retries
    /\ Becomes("picked", "none")

Abandon == worker.pc = "polling" /\ stopping /\ Becomes("ran", "abandoned")

Collect == worker.pc = "polling" /\ ~stopping /\ Becomes("collected", "none")

(* ... and stored, if its save is still there (write_media).                 *)
CheckSave ==
    /\ worker.pc = "collected"
    /\ IF OwnerOf[worker.key] \in saves THEN Becomes("writing", "none")
                                          ELSE Becomes("ran", "failed")

Store ==
    /\ worker.pc = "writing"
    /\ stored' = stored \cup {worker.key}
    /\ worker' = [worker EXCEPT !.pc = "ran", !.status = "ready"]
    /\ UNCHANGED <<jobs, respec, last, spent, saves, newest, handed, stopping>>

(* _loop: the job is over, its result the newer run's if one asked meanwhile; *)
(* an abandoned one ends the thread.                                         *)
RunOver ==
    /\ worker.pc = "ran"
    /\ worker' = IF worker.status = "abandoned" THEN [pc |-> "ended"]
                 ELSE [worker EXCEPT !.pc = "handing",
                                     !.epoch = IF respec # 0 THEN respec ELSE @]
    /\ respec' = 0
    /\ UNCHANGED <<jobs, last, spent, saves, stored, newest, handed, stopping>>

(* on_done *)
HandOff ==
    /\ worker.pc = "handing"
    /\ handed' = [handed EXCEPT ![worker.key] = worker.epoch]
    /\ worker' = WorkerIdle
    /\ UNCHANGED <<jobs, respec, last, spent, saves, stored, newest, stopping>>

----------------------------------------------------------------------------
(* stop(), and a delete of the account's save: its folder, then its media    *)
(* (SaveStore.delete).                                                       *)
Stop ==
    /\ ~stopping /\ stopping' = TRUE
    /\ UNCHANGED <<jobs, worker, respec, last, spent, saves, stored, newest, handed>>

DeleteSave(a) ==
    /\ a \in saves /\ saves' = saves \ {a}
    /\ UNCHANGED <<jobs, worker, respec, last, spent, stored, newest, handed, stopping>>

DeleteMedia(a) ==
    /\ a \notin saves /\ \E k \in stored : OwnerOf[k] = a
    /\ stored' = {k \in stored : OwnerOf[k] # a}
    /\ UNCHANGED <<jobs, worker, respec, last, spent, saves, newest, handed, stopping>>

WorkerStep ==
    \/ Pick \/ SubmitPrompt \/ RunFails \/ ExecutionError \/ Abandon \/ Collect
    \/ CheckSave \/ Store \/ RunOver \/ HandOff

MediaNext ==
    \/ WorkerStep \/ NewDay \/ Stop
    \/ \E k \in Keys : Submit(k)
    \/ \E a \in Owners : Charge(a) \/ DeleteSave(a) \/ DeleteMedia(a)

MediaSpec == MediaInit /\ [][MediaNext]_mediaVars

----------------------------------------------------------------------------
(* The run that asked last is the one answered: whenever it asked -- job     *)
(* queued, running, over but not yet handed off -- its request is on its way *)
(* or answered, unless the process was stopped over it; and no job runs      *)
(* twice at once.                                                            *)
NewestServed ==
    /\ \A k \in Keys :
          newest[k] # 0 =>
              \/ \E i \in Queued(k) : jobs[i].epoch = newest[k]
              \/ Running(k) /\ newest[k] = (IF respec # 0 THEN respec ELSE worker.epoch)
              \/ worker.pc = "handing" /\ worker.key = k /\ worker.epoch = newest[k]
              \/ handed[k] = newest[k]
              \/ worker.pc = "ended"
    /\ \A k \in Keys : Cardinality(Queued(k)) + (IF Running(k) THEN 1 ELSE 0) <= 1
=============================================================================
