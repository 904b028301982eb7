------------------------------ MODULE JobQueue ------------------------------
(***************************************************************************)
(* The durable job queue of the torrent worker: the rows of torrent_jobs   *)
(* (backend/app/jobs/torrent_jobs.py) and the worker processes that claim, *)
(* renew, finish and recover them (backend/app/jobs/worker.py).            *)
(*                                                                         *)
(* A worker runs up to `concurrency' executions at a time; each execution  *)
(* occupies a slot.  Every database transaction of the code is one step,   *)
(* so no row lock outlives a step and SKIP LOCKED skips nothing.           *)
(*                                                                         *)
(* Deadlines are countdowns: claim, timeout and avail hold the ticks left  *)
(* until claim_expires_at, timeout_at and available_at, and Tick lets one  *)
(* unit of time pass for all of them.  "now >= claim_expires_at" is        *)
(* claim = 0.  Time is therefore unbounded and the state space finite.     *)
(***************************************************************************)
EXTENDS Integers, FiniteSets

CONSTANTS
    Job,              \* job rows (UUIDs: an identifier is never reused)
    Kind,             \* job_type of each job
    MaxAttempts,      \* max_attempts of each job
    Worker,           \* worker_id of each process
    Slot,             \* execution slots of all workers
    WorkerOf,         \* the worker a slot belongs to
    ClaimTTL,         \* TorrentWorkerConfig.claim_ttl
    ExecutionTimeout, \* TorrentWorkerConfig.execution_timeout
    RecoveryDelay,    \* retry_delay of recover_expired_torrent_jobs
    RetryDelays,      \* delays the jittered backoff may draw
    WaitingBudget,    \* WAITING_RETRY_BUDGET
    NoJob, NoWorker   \* NULL references

Kinds == {"PURGE_TORRENT", "RECOVER", "ADD_TORRENT", "SYNC_TORRENT"}

ASSUME QueueAssumption ==
    /\ Kind \in [Job -> Kinds]
    /\ MaxAttempts \in [Job -> Nat \ {0}]
    /\ WorkerOf \in [Slot -> Worker]
    /\ NoJob \notin Job
    /\ NoWorker \notin Worker

\* TorrentWorkerConfig.__post_init__ refuses any other configuration.
ASSUME ConfigAssumption ==
    /\ ClaimTTL \in Nat \ {0}
    /\ ExecutionTimeout \in Nat \ {0}
    /\ ClaimTTL <= ExecutionTimeout
    /\ RecoveryDelay \in Nat
    /\ RetryDelays \subseteq Nat
    /\ WaitingBudget \in Nat

VARIABLES
    job,       \* the rows
    exec,      \* what each slot executes: TorrentJobSnapshot's id and attempt
    failures   \* history: executions that really failed or were abandoned

vars == <<job, exec, failures>>

Active == {"QUEUED", "RUNNING"}
Terminal == {"COMPLETED", "FAILED", "CANCELLED"}
\* "NONE": not inserted yet; "PRUNED": deleted by maintenance.
States == Active \cup Terminal \cup {"NONE", "PRUNED"}
Errors == {"none", "permanent", "transient", "claim_expired", "execution_timeout"}

Row == [state : States, attempt_count : Nat, claimed_by : Worker \cup {NoWorker},
        claim : Nat, timeout : Nat, avail : Nat, cancel : BOOLEAN, age : Nat,
        last_error : Errors]

Snapshot == [id : Job \cup {NoJob}, attempt_count : Nat]
Idle == [id |-> NoJob, attempt_count |-> 0]

TypeOK ==
    /\ job \in [Job -> Row]
    /\ exec \in [Slot -> Snapshot]
    /\ failures \in [Job -> Nat]

AbsentRow == [state |-> "NONE", attempt_count |-> 0, claimed_by |-> NoWorker,
              claim |-> 0, timeout |-> 0, avail |-> 0, cancel |-> FALSE,
              age |-> 0, last_error |-> "none"]

Init ==
    /\ job = [j \in Job |-> AbsentRow]
    /\ exec = [s \in Slot |-> Idle]
    /\ failures = [j \in Job |-> 0]

-----------------------------------------------------------------------------
(* Helpers                                                                 *)

\* max(0, n - 1)
Dec(n) == IF n > 0 THEN n - 1 ELSE 0

Lesser(a, b) == IF a <= b THEN a ELSE b

\* Mutated form: the worker is compared, the attempt is not.
OwnedByWorker(s) ==
    LET j == exec[s].id IN
    /\ j # NoJob
    /\ job[j].state = "RUNNING"
    /\ job[j].claimed_by = WorkerOf[s]

\* _owned_job: the row is still this execution's claim.
Owned(s) ==
    LET j == exec[s].id IN
    /\ j # NoJob
    /\ job[j].state = "RUNNING"
    /\ job[j].claimed_by = WorkerOf[s]
    /\ job[j].attempt_count = exec[s].attempt_count

\* _require_claim_owner: neither the claim nor the execution timeout passed.
ClaimLive(j) == job[j].claim > 0 /\ job[j].timeout > 0

\* _release_claim
Released(r) == [r EXCEPT !.claimed_by = NoWorker, !.claim = 0, !.timeout = 0]

\* _finish
Finished(r, final) == [Released(r) EXCEPT !.state = final]

Requeued(r, delay) == [Released(r) EXCEPT !.state = "QUEUED", !.avail = delay]

\* retry_torrent_job, after its claim check
Retried(r, max, delay, error) ==
    LET e == [r EXCEPT !.last_error = error] IN
    IF r.attempt_count >= max THEN Finished(e, "FAILED") ELSE Requeued(e, delay)

\* The attempt a waiting job gets back in _finish_failure
GivenBack(r) == [r EXCEPT !.attempt_count = Dec(r.attempt_count)]

\* The claim order: purges and recoveries, then additions, then syncs.
Priority(j) ==
    CASE Kind[j] \in {"PURGE_TORRENT", "RECOVER"} -> 0
      [] Kind[j] = "ADD_TORRENT" -> 1
      [] OTHER -> 3

Claimable ==
    {j \in Job : /\ job[j].state = "QUEUED"
                 /\ job[j].avail = 0
                 /\ job[j].attempt_count < MaxAttempts[j]}

-----------------------------------------------------------------------------
(* Actions                                                                 *)

\* A route, the sync enqueuer or the lifecycle inserts a QUEUED row.
Enqueue(j, delay) ==
    /\ job[j].state = "NONE"
    /\ job' = [job EXCEPT ![j] = Requeued(@, delay)]
    /\ UNCHANGED <<exec, failures>>

\* The assignments of claim_next_torrent_job
Held(r, w) == [r EXCEPT !.claimed_by = w, !.claim = ClaimTTL, !.timeout = ExecutionTimeout]
Claimed(r, w, n) == [Held(r, w) EXCEPT !.state = "RUNNING", !.attempt_count = n]

\* _fill_capacity and claim_next_torrent_job: a free slot takes the job that
\* comes first in the claim order.
Claim(s, j) ==
    LET n == job[j].attempt_count + 1 IN
    /\ exec[s] = Idle
    /\ j \in Claimable
    /\ \A k \in Claimable : Priority(j) <= Priority(k)
    /\ job' = [job EXCEPT ![j] = Claimed(@, WorkerOf[s], n)]
    /\ exec' = [exec EXCEPT ![s] = [id |-> j, attempt_count |-> n]]
    /\ UNCHANGED failures

\* Mutated form: renewed_until is not capped by timeout_at.
RenewUncapped(s) ==
    LET j == exec[s].id IN
    /\ Owned(s) /\ ClaimLive(j)
    /\ job' = [job EXCEPT ![j].claim = ClaimTTL]
    /\ UNCHANGED <<exec, failures>>

\* _heartbeat and renew_torrent_job_claim: extend the claim, never past the
\* execution timeout.
Renew(s) ==
    LET j == exec[s].id IN
    /\ Owned(s) /\ ClaimLive(j)
    /\ job' = [job EXCEPT ![j].claim = Lesser(ClaimTTL, job[j].timeout)]
    /\ UNCHANGED <<exec, failures>>

\* The heartbeat, or the final transaction, finds the claim lost: the handler
\* is cancelled and the row is left to recovery.
ClaimLost(s) ==
    /\ exec[s] # Idle
    /\ ~(Owned(s) /\ ClaimLive(exec[s].id))
    /\ exec' = [exec EXCEPT ![s] = Idle]
    /\ UNCHANGED <<job, failures>>

\* The database is unavailable while renewing or finishing: the execution is
\* dropped without touching the row.
DatabaseUnavailable(s) ==
    /\ exec[s] # Idle
    /\ exec' = [exec EXCEPT ![s] = Idle]
    /\ UNCHANGED <<job, failures>>

\* _finish_success: cancel_claimed_torrent_job or complete_torrent_job
FinishSuccess(s) ==
    LET j == exec[s].id IN
    /\ Owned(s) /\ ClaimLive(j)
    /\ job' = [job EXCEPT ![j] =
                 Finished(@, IF @.cancel THEN "CANCELLED" ELSE "COMPLETED")]
    /\ exec' = [exec EXCEPT ![s] = Idle]
    /\ UNCHANGED failures

\* _finish_failure after a PermanentTorrentJobError
FinishPermanent(s) ==
    LET j == exec[s].id IN
    /\ Owned(s) /\ ClaimLive(j)
    /\ job' = [job EXCEPT ![j] =
                 IF @.cancel THEN Finished(@, "CANCELLED")
                 ELSE Finished([@ EXCEPT !.last_error = "permanent"], "FAILED")]
    /\ exec' = [exec EXCEPT ![s] = Idle]
    /\ failures' = [failures EXCEPT ![j] = @ + 1]

\* _finish_failure after a TransientTorrentJobError that counts as an attempt,
\* or after any unexpected exception.
FinishTransient(s, delay) ==
    LET j == exec[s].id IN
    /\ Owned(s) /\ ClaimLive(j)
    /\ job' = [job EXCEPT ![j] =
                 IF @.cancel THEN Finished(@, "CANCELLED")
                 ELSE Retried(@, MaxAttempts[j], delay, "transient")]
    /\ exec' = [exec EXCEPT ![s] = Idle]
    /\ failures' = [failures EXCEPT ![j] = @ + 1]

\* Mutated form: a wait costs an attempt like any failure.
FinishWaitingCharged(s, delay) ==
    LET j == exec[s].id IN
    /\ Owned(s) /\ ClaimLive(j)
    /\ job[j].age < WaitingBudget
    /\ job' = [job EXCEPT ![j] =
                 IF @.cancel THEN Finished(@, "CANCELLED")
                 ELSE Retried(@, MaxAttempts[j], delay, "transient")]
    /\ exec' = [exec EXCEPT ![s] = Idle]
    /\ UNCHANGED failures

\* Mutated form: the age of the job is not compared with the waiting budget.
FinishWaitingForever(s, delay) ==
    LET j == exec[s].id IN
    /\ Owned(s) /\ ClaimLive(j)
    /\ job' = [job EXCEPT ![j] =
                 IF @.cancel THEN Finished(@, "CANCELLED")
                 ELSE Retried(GivenBack(@), MaxAttempts[j], delay, "transient")]
    /\ exec' = [exec EXCEPT ![s] = Idle]
    /\ UNCHANGED failures

\* Mutated form: the attempt is given back twice, without the floor at zero.
FinishWaitingTwice(s, delay) ==
    LET j == exec[s].id IN
    /\ Owned(s) /\ ClaimLive(j)
    /\ job[j].age < WaitingBudget
    /\ job' = [job EXCEPT ![j] =
                 IF @.cancel THEN Finished(@, "CANCELLED")
                 ELSE Retried([@ EXCEPT !.attempt_count = @ - 2],
                              MaxAttempts[j], delay, "transient")]
    /\ exec' = [exec EXCEPT ![s] = Idle]
    /\ UNCHANGED failures

\* _finish_failure after a TransientTorrentJobError(waiting=True) within the
\* waiting budget: the attempt is given back before the retry is decided.
FinishWaiting(s, delay) ==
    LET j == exec[s].id IN
    /\ Owned(s) /\ ClaimLive(j)
    /\ job[j].age < WaitingBudget
    /\ job' = [job EXCEPT ![j] =
                 IF @.cancel THEN Finished(@, "CANCELLED")
                 ELSE Retried(GivenBack(@), MaxAttempts[j], delay, "transient")]
    /\ exec' = [exec EXCEPT ![s] = Idle]
    /\ UNCHANGED failures

\* Mutated form: a finished row is cancelled as well.
CancelAnyRow(j) ==
    /\ job[j].state # "RUNNING"
    /\ job' = [job EXCEPT ![j] = Finished([@ EXCEPT !.cancel = TRUE], "CANCELLED")]
    /\ UNCHANGED <<exec, failures>>

\* request_torrent_job_cancellation, and the cancellation of a torrent's
\* other jobs by the lifecycle
RequestCancellation(j) ==
    /\ \/ /\ job[j].state = "QUEUED"
          /\ job' = [job EXCEPT ![j] = Finished([@ EXCEPT !.cancel = TRUE], "CANCELLED")]
       \/ /\ job[j].state = "RUNNING" /\ ~job[j].cancel
          /\ job' = [job EXCEPT ![j].cancel = TRUE]
    /\ UNCHANGED <<exec, failures>>

Reused(r) == [r EXCEPT !.cancel = FALSE,
                       !.avail = IF r.state = "QUEUED" THEN 0 ELSE r.avail]

\* Mutated form: the active job is looked up without its job_type.
ReuseAnyJob(j) ==
    /\ job[j].state \in Active
    /\ job' = [job EXCEPT ![j] = Reused(@)]
    /\ UNCHANGED <<exec, failures>>

\* schedule_admin_purge reuses an active purge job: it withdraws the
\* cancellation and makes a queued job available at once.
ReusePurgeJob(j) ==
    /\ Kind[j] = "PURGE_TORRENT"
    /\ job[j].state \in Active
    /\ job' = [job EXCEPT ![j] = Reused(@)]
    /\ UNCHANGED <<exec, failures>>

Expired == {j \in Job : job[j].state = "RUNNING" /\ (job[j].claim = 0 \/ job[j].timeout = 0)}

\* Mutated form: recovery requeues a job whose cancellation was requested.
RecoveredUncancelled(r, max) ==
    LET e == [r EXCEPT !.last_error = IF r.timeout = 0 THEN "execution_timeout"
                                      ELSE "claim_expired"] IN
    IF r.attempt_count >= max THEN Finished(e, "FAILED") ELSE Requeued(e, RecoveryDelay)

\* Mutated form: recovery gives the abandoned attempt back.
RecoveredFree(r, max) ==
    IF r.cancel THEN Finished(r, "CANCELLED")
    ELSE Requeued(GivenBack([r EXCEPT !.last_error = "claim_expired"]), RecoveryDelay)

\* What recover_expired_torrent_jobs makes of one abandoned row
Recovered(r, max) ==
    LET e == [r EXCEPT !.last_error = IF r.timeout = 0 THEN "execution_timeout"
                                      ELSE "claim_expired"] IN
    IF r.cancel THEN Finished(e, "CANCELLED")
    ELSE IF r.attempt_count >= max THEN Finished(e, "FAILED")
    ELSE Requeued(e, RecoveryDelay)

\* _recover_if_due and recover_expired_torrent_jobs: any worker, at its
\* recovery interval, returns every abandoned row in one transaction.
RecoverExpired ==
    /\ Expired # {}
    /\ job' = [j \in Job |-> IF j \in Expired THEN Recovered(job[j], MaxAttempts[j])
                             ELSE job[j]]
    /\ failures' = [j \in Job |-> IF j \in Expired THEN failures[j] + 1 ELSE failures[j]]
    /\ UNCHANGED exec

\* prune_stale_rows deletes finished rows; ADD_TORRENT rows are kept.
Prune(j) ==
    /\ job[j].state \in Terminal
    /\ Kind[j] # "ADD_TORRENT"
    /\ job' = [job EXCEPT ![j].state = "PRUNED"]
    /\ UNCHANGED <<exec, failures>>

\* A worker process dies: its executions vanish, its claims stay.
Crash(w) ==
    /\ \E s \in Slot : WorkerOf[s] = w /\ exec[s] # Idle
    /\ exec' = [s \in Slot |-> IF WorkerOf[s] = w THEN Idle ELSE exec[s]]
    /\ UNCHANGED <<job, failures>>

\* Time passes.  The age of a row saturates at WaitingBudget, the only value
\* it is compared with.
Tick ==
    /\ job' = [j \in Job |->
                 IF job[j].state \in Active
                 THEN [job[j] EXCEPT !.claim = Dec(@), !.timeout = Dec(@),
                                     !.avail = Dec(@),
                                     !.age = Lesser(@ + 1, WaitingBudget)]
                 ELSE job[j]]
    /\ UNCHANGED <<exec, failures>>

Next ==
    \/ \E j \in Job, d \in RetryDelays : Enqueue(j, d)
    \/ \E s \in Slot, j \in Job : Claim(s, j)
    \/ \E s \in Slot : Renew(s)
    \/ \E s \in Slot : ClaimLost(s)
    \/ \E s \in Slot : DatabaseUnavailable(s)
    \/ \E s \in Slot : FinishSuccess(s)
    \/ \E s \in Slot : FinishPermanent(s)
    \/ \E s \in Slot, d \in RetryDelays : FinishTransient(s, d)
    \/ \E s \in Slot, d \in RetryDelays : FinishWaiting(s, d)
    \/ \E j \in Job : RequestCancellation(j)
    \/ \E j \in Job : ReusePurgeJob(j)
    \/ RecoverExpired
    \/ \E j \in Job : Prune(j)
    \/ \E w \in Worker : Crash(w)
    \/ Tick

Spec == Init /\ [][Next]_vars

\* The loops the worker never leaves: polling for work, the heartbeat timer
\* (independent of the handler), recovery, and time itself.  Handlers are not
\* assumed to return and processes may crash for ever.
Fairness ==
    /\ WF_vars(Tick)
    /\ WF_vars(RecoverExpired)
    /\ WF_vars(\E s \in Slot, j \in Job : Claim(s, j))
    /\ \A s \in Slot : WF_vars(ClaimLost(s))

FairSpec == Spec /\ Fairness

-----------------------------------------------------------------------------
(* Properties                                                              *)

\* The attempt number taken by _owned_job as a fencing token identifies one
\* execution: two executions of the same worker never both pass _owned_job
\* for one job, although FinishWaiting gives attempt numbers back.
FencedOwnership ==
    \A s, t \in Slot :
        Owned(s) /\ Owned(t) /\ exec[s].id = exec[t].id => s = t

\* An attempt is charged exactly when an execution really failed or was
\* abandoned: waiting for a resource never brings a job nearer to FAILED, and
\* a job FAILED by retry_torrent_job or recovery had used its whole budget.
\* It also keeps ck_torrent_jobs: a QUEUED row has an attempt left.
AttemptsCharged ==
    \A j \in Job :
        /\ job[j].state = "QUEUED" =>
             /\ job[j].attempt_count = failures[j]
             /\ job[j].attempt_count < MaxAttempts[j]
        /\ job[j].state = "RUNNING" => job[j].attempt_count = failures[j] + 1
        /\ job[j].state = "FAILED" =>
             job[j].last_error = "permanent" \/ failures[j] = MaxAttempts[j]

\* However often the heartbeat renews it, a claim never outlives the
\* execution timeout, so a handler that hangs for ever is recovered.
ClaimWithinTimeout ==
    \A j \in Job :
        /\ job[j].claim <= job[j].timeout
        /\ job[j].state # "RUNNING" =>
             job[j].timeout = 0 /\ job[j].claimed_by = NoWorker

\* The inductive invariant behind the three invariants above.  RowOK is what
\* each row satisfies on its own; TokenOK is why the attempt number works as a
\* fencing token: no execution ever holds a number above its job's, and at
\* most one holds the current number of a RUNNING job.  Between them, a number
\* that was given back can only be taken again once its holder is gone.
RowOK(r, f, max) ==
    /\ r.state = "NONE" => r.attempt_count = 0 /\ f = 0
    /\ r.state = "QUEUED" => r.attempt_count = f /\ r.attempt_count < max
    /\ r.state = "RUNNING" => r.attempt_count = f + 1 /\ r.attempt_count <= max
    /\ r.state = "FAILED" => r.last_error = "permanent" \/ f = max
    /\ r.claim <= r.timeout
    /\ r.state # "RUNNING" => r.timeout = 0 /\ r.claimed_by = NoWorker

Executes(s, j) == exec[s].id = j

TokenOK(j) ==
    /\ job[j].state = "NONE" => \A s \in Slot : ~Executes(s, j)
    /\ job[j].state \in Active =>
         \A s \in Slot : Executes(s, j) => exec[s].attempt_count <= job[j].attempt_count
    /\ job[j].state = "RUNNING" =>
         \A s, t \in Slot :
            /\ Executes(s, j) /\ exec[s].attempt_count = job[j].attempt_count
            /\ Executes(t, j) /\ exec[t].attempt_count = job[j].attempt_count
            => s = t

IInv ==
    /\ TypeOK
    /\ \A j \in Job : RowOK(job[j], failures[j], MaxAttempts[j])
    /\ \A j \in Job : TokenOK(j)

Open(j) == job[j].state \in Active

\* Every enqueued job ends, whatever the handlers do: even if they hang, wait
\* for a resource for ever, or every process that claims the job dies.
JobEnds == \A j \in Job : []<>~Open(j)
-----------------------------------------------------------------------------
(* What the queue promises                                                 *)

\* The phase of a job that its row stands for
PhaseOf(r) ==
    CASE r.state = "NONE" -> "absent"
      [] r.state \in Active -> "open"
      [] r.state = "COMPLETED" -> "done"
      [] r.state = "FAILED" -> "failed"
      [] r.state = "CANCELLED" -> "cancelled"
      [] OTHER -> "gone"

Promise == INSTANCE JobPromise WITH
    Kept <- {j \in Job : Kind[j] = "ADD_TORRENT"},
    Revocable <- {j \in Job : Kind[j] = "PURGE_TORRENT"},
    phase <- [j \in Job |-> PhaseOf(job[j])],
    strikes <- failures,
    stop <- [j \in Job |-> Open(j) /\ job[j].cancel]

\* The rows, claims, time-outs, heartbeats and recoveries of the workers
\* implement JobPromise: claiming, renewing, losing a claim and waiting are
\* stutters of the job, and every other transaction, a recovery of several
\* rows included, is a promised step of each job it touches.
ImplementsPromise == Promise!Spec
=============================================================================
