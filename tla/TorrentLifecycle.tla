-------------------------- MODULE TorrentLifecycle --------------------------
(***************************************************************************)
(* The life of one managed torrent: the transactions of the API, of the    *)
(* administrator and of the retention reaper on its rows                   *)
(* (torrents/deduplication.py, torrents/lifecycle.py, admin/*.py,          *)
(* api/routes/torrents_v2.py), and the worker's handlers that add it to    *)
(* qBittorrent, observe it and purge it (jobs/torrent_effects.py).         *)
(*                                                                         *)
(* Every transaction locks the ManagedTorrent row first, so each is one    *)
(* step; everything between two transactions of a handler (HTTP calls,     *)
(* file deletion) is a step of its own.                                    *)
(*                                                                         *)
(* JobQueue models claims, attempts and delays.  Here an execution only    *)
(* knows whether it still owns its claim (`own', JobQueue's fencing),      *)
(* any QUEUED job may be claimed, and any transient failure may be the     *)
(* last one allowed.  Job identifiers are recycled once finished: the      *)
(* size of the pools bounds the jobs alive at once, not their number.      *)
(*                                                                         *)
(* admin_forced_active, desired_* and purge_stop_pending outside           *)
(* PURGE_PENDING are read by the scheduler only and are left out here.     *)
(***************************************************************************)
EXTENDS Integers, FiniteSets

LOCAL INSTANCE TLC

CONSTANTS
    User,
    AddJob, SyncJob, PurgeJob,  \* identifiers for the three kinds of jobs
    Slot,                       \* execution slots of all workers
    NoJob,
    Size,                       \* total_size of the torrent
    OtherBytes,                 \* bytes accounted to everything else
    Stalls,         \* may an execution go on after losing its claim?
    Operator        \* may the operator recover a torrent qBittorrent lost?

Job == AddJob \cup SyncJob \cup PurgeJob

ASSUME LifecycleAssumption ==
    /\ AddJob \cap SyncJob = {} /\ AddJob \cap PurgeJob = {}
    /\ SyncJob \cap PurgeJob = {}
    /\ NoJob \notin Job
    /\ Size \in Nat /\ OtherBytes \in Nat
    /\ {Stalls, Operator} \subseteq BOOLEAN

VARIABLES
    torrent,    \* the ManagedTorrent row
    req,        \* each user's TorrentRequest on it
    lease,      \* does the user hold a live DownloadLease?
    usage,      \* UserStorageUsage.logical_bytes
    ledger,     \* StorageLedger.managed_bytes
    job,        \* the torrent's rows of torrent_jobs
    latest,     \* the latest ADD_TORRENT job
    exec,       \* what the workers execute
    abandoned,  \* a worker remembers an ADD_TORRENT job failed by recovery
    qb,         \* the torrent in qBittorrent
    content     \* is the shared content directory there?

vars == <<torrent, req, lease, usage, ledger, job, latest, exec, abandoned, qb, content>>
rows == <<torrent, req, lease, usage, ledger, job, latest>>
rights == <<req, lease, usage, ledger>>
physical == <<qb, content>>

\* "ABSENT": no row yet
States == {"ABSENT", "PENDING", "ADDING", "DOWNLOADING", "PAUSED", "RETRY_WAIT",
           "ERROR", "READY", "PURGE_PENDING", "PURGING", "PURGED"}
Adding == {"PENDING", "ADDING", "RETRY_WAIT"}
Purging == {"PURGE_PENDING", "PURGING"}

\* purge: purge_after is NULL, in the future or passed; stop: purge_stop_pending
Torrent == [state : States, purge : {"none", "future", "due"}, stop : BOOLEAN]

\* "NONE": no active request; "DUE": READY with unsubscribe_at passed
Requests == {"NONE", "REQUESTED", "ACTIVE", "READY", "DUE"}

JobStates == {"FREE", "QUEUED", "RUNNING", "COMPLETED", "FAILED", "CANCELLED"}
Active == {"QUEUED", "RUNNING"}
Row == [state : JobStates, cancel : BOOLEAN]
FreeRow == [state |-> "FREE", cancel |-> FALSE]

\* What qBittorrent reports: complete, incomplete, or a state such as
\* error, missingFiles or unknown
Seen == {"READY", "PARTIAL", "ERROR"}
\* How a handler ends: it returns, or raises PermanentTorrentJobError or
\* TransientTorrentJobError, with or without a torrent_state.
Outcomes == {"ok", "permanent", "permanent_error", "transient", "retry_wait"}

\* arg: what inspect_managed_torrents saw, then how the handler ended
Execution == [job : Job \cup {NoJob}, own : BOOLEAN,
              pc : {"idle", "start", "effect1", "effect2", "commit", "end"},
              arg : Seen \cup Outcomes \cup {"none"}]
Idle == [job |-> NoJob, own |-> FALSE, pc |-> "idle", arg |-> "none"]

TypeOK ==
    /\ torrent \in Torrent
    /\ req \in [User -> Requests]
    /\ lease \in [User -> BOOLEAN]
    /\ usage \in [User -> Nat]
    /\ ledger \in Nat
    /\ job \in [Job -> Row]
    /\ latest \in AddJob \cup {NoJob}
    /\ exec \in [Slot -> Execution]
    /\ abandoned \in BOOLEAN
    /\ qb \in {"absent", "partial", "complete"}
    /\ content \in BOOLEAN

Init ==
    /\ torrent = [state |-> "ABSENT", purge |-> "none", stop |-> FALSE]
    /\ req = [u \in User |-> "NONE"]
    /\ lease = [u \in User |-> FALSE]
    /\ usage = [u \in User |-> OtherBytes]
    /\ ledger = OtherBytes
    /\ job = [j \in Job |-> FreeRow]
    /\ latest = NoJob
    /\ exec = [s \in Slot |-> Idle]
    /\ abandoned = FALSE
    /\ qb = "absent"
    /\ content = FALSE

-----------------------------------------------------------------------------
(* Helpers                                                                 *)

Holders == {u \in User : req[u] # "NONE"}
Leased == {u \in User : lease[u]}
ActiveJobs(J) == {j \in J : job[j].state \in Active}

\* max(0, bytes - total_size)
Debit(bytes) == IF bytes >= Size THEN bytes - Size ELSE 0

\* A finished row; only the outcome of the latest ADD_TORRENT is ever read.
Ended(j, final) == IF j = latest THEN [state |-> final, cancel |-> FALSE] ELSE FreeRow

\* Mutated form: running jobs are not told to stop.
CancelledQueued(j) == IF job[j].state = "QUEUED" THEN Ended(j, "CANCELLED") ELSE job[j]

\* _cancel_deferred_purge_jobs, and the same loop in purge_torrent and
\* recover_orphaned_torrent: queued jobs end, running ones are told to.
Cancelled(j) == IF job[j].state = "QUEUED" THEN Ended(j, "CANCELLED")
                ELSE IF job[j].state = "RUNNING" THEN [job[j] EXCEPT !.cancel = TRUE]
                ELSE job[j]
CancelJobs(J) == [j \in Job |-> IF j \in J THEN Cancelled(j) ELSE job[j]]

\* A new identifier (uuid4): no row and no execution uses it.
Fresh(J) == {j \in J : job[j].state \notin Active /\ \A s \in Slot : exec[s].job # j}
QueuedRow == [state |-> "QUEUED", cancel |-> FALSE]
Insert(j) == job' = [job EXCEPT ![j] = QueuedRow]

\* An ADD_TORRENT row is inserted and becomes the latest.
InsertAdd(j) ==
    /\ latest' = j
    /\ job' = [i \in Job |-> IF i = j THEN QueuedRow
                             ELSE IF i = latest /\ job[i].state \notin Active THEN FreeRow
                             ELSE job[i]]

-----------------------------------------------------------------------------
(* The API                                                                 *)

\* Mutated form: a torrent in PURGING accepts new rights.
AdmitsWhilePurging == torrent.state = "PURGE_PENDING" => torrent.purge = "future"

\* create_or_get_torrent_request refuses a new right while the content is
\* being deleted, or once the deadline of a pending purge has passed.
AdmitsRequest ==
    /\ torrent.state # "PURGING"
    /\ torrent.state = "PURGE_PENDING" => torrent.purge = "future"

\* A new torrent, or a purged one reactivated
Reborn(t) == [t EXCEPT !.state = "PENDING", !.purge = "none", !.stop = FALSE]

\* A purge given up by the API or, for Purging, by purge_torrent; progress
\* decides whether the next state is READY or DOWNLOADING.
Revived(t, from, next) == [t EXCEPT !.state = IF @ \in from THEN next ELSE @,
                                    !.purge = "none", !.stop = FALSE]

\* create_torrent_request on a new or purged infohash
CreateTorrent(u) ==
    /\ torrent.state \in {"ABSENT", "PURGED"}
    /\ torrent' = Reborn(torrent)
    /\ req' = [req EXCEPT ![u] = "REQUESTED"]
    /\ usage' = [usage EXCEPT ![u] = @ + Size]
    /\ ledger' = ledger + Size
    /\ \E j \in Fresh(AddJob) : InsertAdd(j)
    /\ UNCHANGED <<lease, exec, abandoned, physical>>

\* Mutated form: a right on a READY torrent waits for an observation.
InitialRightActive(state) == IF state \in {"PENDING", "ADDING"} THEN "REQUESTED" ELSE "ACTIVE"

\* The state a new right starts in
InitialRight(state) ==
    CASE state = "READY" -> "READY"
      [] state \in {"PENDING", "ADDING"} -> "REQUESTED"
      [] OTHER -> "ACTIVE"

\* Mutated form: the right that expires is not refunded.
JoinTorrentUnrefunded(u, next) ==
    /\ torrent.state \notin {"ABSENT", "PURGED"}
    /\ AdmitsRequest
    /\ torrent' = IF torrent.purge = "none" THEN torrent
                   ELSE Revived(torrent, {"PURGE_PENDING"}, next)
    /\ job' = IF torrent.purge = "none" THEN job ELSE CancelJobs(PurgeJob)
    /\ IF req[u] \in {"NONE", "DUE"}
       THEN /\ req' = [req EXCEPT ![u] = InitialRight(torrent'.state)]
            /\ usage' = [usage EXCEPT ![u] = @ + Size]
       ELSE UNCHANGED <<req, usage>>
    /\ UNCHANGED <<lease, ledger, latest, exec, abandoned, physical>>

\* create_torrent_request on a torrent that exists: the pending purge is
\* withdrawn; an active right of the user is kept, one that is due expires
\* and is replaced.
JoinTorrent(u, next) ==
    /\ torrent.state \notin {"ABSENT", "PURGED"}
    /\ AdmitsRequest
    /\ torrent' = IF torrent.purge = "none" THEN torrent
                   ELSE Revived(torrent, {"PURGE_PENDING"}, next)
    /\ job' = IF torrent.purge = "none" THEN job ELSE CancelJobs(PurgeJob)
    /\ IF req[u] \in {"NONE", "DUE"}
       THEN /\ req' = [req EXCEPT ![u] = InitialRight(torrent'.state)]
            /\ usage' = [usage EXCEPT ![u] = (IF req[u] = "DUE" THEN Debit(@) ELSE @) + Size]
       ELSE UNCHANGED <<req, usage>>
    /\ UNCHANGED <<lease, ledger, latest, exec, abandoned, physical>>

\* The requests in U are cancelled or expire.
Withdraw(U) ==
    /\ req' = [u \in User |-> IF u \in U THEN "NONE" ELSE req[u]]
    /\ usage' = [u \in User |-> IF u \in U THEN Debit(usage[u]) ELSE usage[u]]

\* _schedule_deferred_purge
SchedulePurge(deadline) ==
    /\ torrent' = [torrent EXCEPT !.purge = deadline]
    /\ \E j \in Fresh(PurgeJob) : Insert(j)

\* Once the last right is gone, the content is scheduled for deletion.
WithdrawAndRelease(U, deadline) ==
    /\ Withdraw(U)
    /\ IF Holders \subseteq U THEN SchedulePurge(deadline) ELSE UNCHANGED <<torrent, job>>
    /\ UNCHANGED <<lease, ledger, latest, exec, abandoned, physical>>

\* cancel_owned_torrent_request, also called by delete_managed_user.  A
\* failed torrent has no content worth retaining.
CancelRequest(u) ==
    /\ req[u] # "NONE"
    /\ WithdrawAndRelease({u}, IF torrent.state = "ERROR" THEN "due" ELSE "future")

\* Mutated form: the last right expires and no purge is scheduled.
ExpireRightsOnly(U) ==
    /\ U # {} /\ \A u \in U : req[u] = "DUE"
    /\ Withdraw(U)
    /\ UNCHANGED <<torrent, job, lease, ledger, latest, exec, abandoned, physical>>

\* expire_ready_torrents_batch: any batch of the rights that are due
ExpireRights(U) ==
    /\ U # {} /\ \A u \in U : req[u] = "DUE"
    /\ WithdrawAndRelease(U, "future")

\* retry_torrent_request when the latest addition had succeeded: the torrent
\* is only observed again.
RetryResync(u) ==
    /\ req[u] \in {"REQUESTED", "ACTIVE"} /\ torrent.state = "ERROR"
    /\ latest # NoJob /\ job[latest].state = "COMPLETED"
    /\ torrent' = [torrent EXCEPT !.state = "PAUSED"]
    /\ UNCHANGED <<rights, job, latest, exec, abandoned, physical>>

\* retry_torrent_request when the latest addition had failed: it is added again.
RetryAdd(u) ==
    /\ req[u] \in {"REQUESTED", "ACTIVE"} /\ torrent.state = "ERROR"
    /\ latest # NoJob /\ job[latest].state = "FAILED"
    /\ ActiveJobs(AddJob) = {}
    /\ torrent' = [torrent EXCEPT !.state = "PENDING"]
    /\ \E j \in Fresh(AddJob) : InsertAdd(j)
    /\ UNCHANGED <<rights, exec, abandoned, physical>>

\* DownloadLeaseManager.acquire
AcquireLease(u) ==
    /\ torrent.state = "READY" /\ req[u] = "READY"
    /\ lease' = [lease EXCEPT ![u] = TRUE]
    /\ UNCHANGED <<torrent, req, usage, ledger, job, latest, exec, abandoned, physical>>

\* The download ends, or its lease is not renewed and expires.  A renewal
\* keeps a live lease alive and is no step here.
EndLease(u) ==
    /\ lease[u]
    /\ lease' = [lease EXCEPT ![u] = FALSE]
    /\ UNCHANGED <<torrent, req, usage, ledger, job, latest, exec, abandoned, physical>>

-----------------------------------------------------------------------------
(* The administrator                                                       *)

\* schedule_admin_purge, from the cleanup page or the qBittorrent page:
\* every right is cancelled, an active purge job is reused.
AdminPurge ==
    /\ torrent.state \notin {"ABSENT", "PURGED"}
    /\ Withdraw(Holders)
    /\ torrent' = [torrent EXCEPT !.purge = "due"]
    /\ IF ActiveJobs(PurgeJob) = {} THEN \E j \in Fresh(PurgeJob) : Insert(j)
       ELSE \E j \in ActiveJobs(PurgeJob) : job' = [job EXCEPT ![j].cancel = FALSE]
    /\ UNCHANGED <<lease, ledger, latest, exec, abandoned, physical>>

\* force_resume_admin_torrent on a torrent nobody holds: its deletion is
\* postponed, and scheduled if it was not.
ForceResume ==
    /\ torrent.state \in {"DOWNLOADING", "PAUSED"} /\ Holders = {}
    /\ torrent' = [torrent EXCEPT !.purge = "future"]
    /\ IF ActiveJobs(PurgeJob) = {} THEN \E j \in Fresh(PurgeJob) : Insert(j)
       ELSE UNCHANGED job
    /\ UNCHANGED <<rights, latest, exec, abandoned, physical>>

\* recover_orphaned_torrent("cancel_requests"): qBittorrent or the storage
\* was seen to have lost the torrent.  What recover_torrent saw before the
\* transaction is an input: it may be out of date.
RecoverCancel(qbittorrent_present, storage_present) ==
    /\ Operator /\ torrent.state \notin {"ABSENT", "PURGED"}
    /\ ~(qbittorrent_present /\ storage_present)
    /\ Withdraw(Holders)
    /\ torrent' = [torrent EXCEPT !.state = "ERROR", !.purge = "none"]
    /\ job' = CancelJobs(Job)
    /\ UNCHANGED <<lease, ledger, latest, exec, abandoned, physical>>

\* recover_orphaned_torrent("purge_metadata"): both lost it, no job is active.
RecoverPurgeMetadata(qbittorrent_present, storage_present) ==
    /\ Operator /\ torrent.state \notin {"ABSENT", "PURGED"}
    /\ ~qbittorrent_present /\ ~storage_present
    /\ ActiveJobs(Job) = {}
    /\ Withdraw(Holders)
    /\ torrent' = [torrent EXCEPT !.state = "PURGED", !.purge = "none"]
    /\ lease' = [u \in User |-> FALSE]
    /\ ledger' = Debit(ledger)
    /\ UNCHANGED <<job, latest, exec, abandoned, physical>>

-----------------------------------------------------------------------------
(* The worker                                                              *)

\* TorrentSyncEnqueuer.enqueue_once
EnqueueSync(j) ==
    /\ torrent.state \in {"DOWNLOADING", "PAUSED", "READY"}
    /\ ActiveJobs(SyncJob) = {} /\ j \in Fresh(SyncJob)
    /\ Insert(j)
    /\ UNCHANGED <<torrent, rights, latest, exec, abandoned, physical>>

\* claim_next_torrent_job
Claim(s, j) ==
    /\ exec[s] = Idle /\ job[j].state = "QUEUED"
    /\ job' = [job EXCEPT ![j].state = "RUNNING"]
    /\ exec' = [exec EXCEPT ![s] = [job |-> j, own |-> TRUE, pc |-> "start", arg |-> "none"]]
    /\ UNCHANGED <<torrent, rights, latest, abandoned, physical>>

At(s, J, pc) == exec[s].job \in J /\ exec[s].pc = pc
Goto(s, pc) == exec' = [exec EXCEPT ![s].pc = pc]
Ends(s, outcome) == exec' = [exec EXCEPT ![s] = [@ EXCEPT !.pc = "end", !.arg = outcome]]

\* Any other exception, the database being unavailable for one
\* (worker_unexpected_error)
HandlerFails(s) ==
    /\ \E pc \in {"start", "effect1", "effect2", "commit"} : At(s, Job, pc)
    /\ Ends(s, "transient")
    /\ UNCHANGED <<rows, abandoned, physical>>

\* _mark_adding
AddStart(s) ==
    /\ At(s, AddJob, "start")
    /\ \/ /\ torrent.state \in Adding
          /\ torrent' = [torrent EXCEPT !.state = "ADDING"]
          /\ Goto(s, "effect2")
       \/ /\ torrent.state \notin Adding
          /\ Ends(s, IF torrent.state \in {"DOWNLOADING", "PAUSED", "READY"}
                     THEN "ok" ELSE "permanent")
          /\ UNCHANGED torrent
    /\ UNCHANGED <<rights, job, latest, abandoned, physical>>

InQb == IF qb = "absent" THEN "partial" ELSE qb

\* The route, the stored payload and its manifest, SharedContentStore.prepare
\* and route.adder.add_torrent.  A failure may come before or after any of
\* them took place.
AddIntegrate(s) ==
    /\ At(s, AddJob, "effect2")
    /\ \/ qb' = InQb /\ content' = TRUE /\ Goto(s, "commit")
       \/ /\ \E o \in {"permanent_error", "retry_wait"} : Ends(s, o)
          /\ \/ UNCHANGED physical
             \/ UNCHANGED qb /\ content' = TRUE
             \/ qb' = InQb /\ content' = TRUE
    /\ UNCHANGED <<rows, abandoned>>

\* Mutated form: the torrent's state is not read again.
AddCommitBlind(s) ==
    /\ At(s, AddJob, "commit")
    /\ torrent' = [torrent EXCEPT !.state = "PAUSED"]
    /\ req' = [u \in User |-> IF req[u] = "REQUESTED" THEN "ACTIVE" ELSE req[u]]
    /\ Ends(s, "ok")
    /\ UNCHANGED <<lease, usage, ledger, job, latest, abandoned, physical>>

\* The last transaction of add_torrent
AddCommit(s) ==
    /\ At(s, AddJob, "commit")
    /\ IF torrent.state \in Purging \cup {"PURGED"} THEN UNCHANGED <<torrent, req>>
       ELSE /\ torrent' = [torrent EXCEPT !.state = "PAUSED"]
            /\ req' = [u \in User |-> IF req[u] = "REQUESTED" THEN "ACTIVE" ELSE req[u]]
    /\ Ends(s, "ok")
    /\ UNCHANGED <<lease, usage, ledger, job, latest, abandoned, physical>>

\* sync_torrent reads the row.
SyncStart(s) ==
    /\ At(s, SyncJob, "start")
    /\ IF torrent.state \in Purging \cup {"PENDING", "PURGED"} THEN Ends(s, "ok")
       ELSE Goto(s, "effect2")
    /\ UNCHANGED <<rows, abandoned, physical>>

\* inspect_managed_torrents.  A torrent that is missing or reported in error
\* is observed again until the last attempt.
SyncInspect(s) ==
    /\ At(s, SyncJob, "effect2")
    /\ \/ \E o \in {"transient", "permanent_error"} : Ends(s, o)
       \/ /\ qb # "absent"
          /\ \E seen \in {"ERROR", IF qb = "complete" THEN "READY" ELSE "PARTIAL"} :
               exec' = [exec EXCEPT ![s] = [@ EXCEPT !.pc = "commit", !.arg = seen]]
    /\ UNCHANGED <<rows, abandoned, physical>>

\* Mutated form: the torrent's state is not read again before it is written.
SyncCommitBlind(s) ==
    LET seen == exec[s].arg IN
    /\ At(s, SyncJob, "commit")
    /\ \E state \in CASE seen = "READY" -> {"READY"}
                      [] seen = "PARTIAL" -> {"DOWNLOADING", "PAUSED"}
                      [] OTHER -> {"ERROR", "PAUSED"} :
         /\ torrent' = [torrent EXCEPT !.state = state]
         /\ UNCHANGED req
    /\ Ends(s, "ok")
    /\ UNCHANGED <<lease, usage, ledger, job, latest, abandoned, physical>>

\* _persist_snapshot: the observed state is written, whatever happened to
\* the torrent since it was observed, unless it is being purged.  During a
\* stall cooldown _apply_stall_observation turns it into PAUSED.
SyncCommit(s) ==
    LET seen == exec[s].arg IN
    /\ At(s, SyncJob, "commit")
    /\ IF torrent.state \in Purging \cup {"PURGED"} THEN UNCHANGED <<torrent, req>>
       ELSE \E state \in CASE seen = "READY" -> {"READY"}
                           [] seen = "PARTIAL" -> {"DOWNLOADING", "PAUSED"}
                           [] OTHER -> {"ERROR", "PAUSED"} :
              /\ torrent' = [torrent EXCEPT !.state = state]
              /\ req' = [u \in User |->
                           IF req[u] \in {"REQUESTED", "ACTIVE"} /\ state = "READY" THEN "READY"
                           ELSE IF req[u] = "REQUESTED" THEN "ACTIVE"
                           ELSE req[u]]
    /\ Ends(s, "ok")
    /\ UNCHANGED <<lease, usage, ledger, job, latest, abandoned, physical>>

\* purge_torrent, first transaction: already purged, or given up
PurgeNotNeeded(s) ==
    /\ At(s, PurgeJob, "start")
    /\ torrent.state = "PURGED" \/ (Holders = {} /\ torrent.purge = "none")
    /\ Ends(s, "ok")
    /\ UNCHANGED <<rows, abandoned, physical>>

\* purge_torrent, first transaction: somebody holds the torrent again.
PurgeYields(s, next) ==
    /\ At(s, PurgeJob, "start")
    /\ torrent.state # "PURGED" /\ Holders # {}
    /\ torrent' = Revived(torrent, Purging, next)
    /\ Ends(s, "ok")
    /\ UNCHANGED <<rights, job, latest, abandoned, physical>>

Unwanted == torrent.state # "PURGED" /\ Holders = {} /\ torrent.purge # "none"

\* purge_torrent, first transaction: the retention is not over, the scheduler
\* has not stopped the torrent, or a download holds the content.
PurgeWaits(s) ==
    /\ At(s, PurgeJob, "start") /\ Unwanted
    /\ \/ torrent.purge = "future"
       \/ torrent.state \in Purging /\ (torrent.stop \/ Leased # {})
    /\ Ends(s, "transient")
    /\ UNCHANGED <<rows, abandoned, physical>>

\* Mutated form: the other jobs are not cancelled.
PurgeActivatesAlone(s) ==
    /\ At(s, PurgeJob, "start") /\ Unwanted
    /\ torrent.purge = "due" /\ torrent.state \notin Purging
    /\ torrent' = [torrent EXCEPT !.state = "PURGE_PENDING", !.stop = TRUE]
    /\ Ends(s, "transient")
    /\ UNCHANGED <<rights, job, latest, abandoned, physical>>

\* purge_torrent, first transaction: the purge is activated and every other
\* job of the torrent cancelled; the handler comes back once the scheduler
\* has stopped the torrent.
PurgeActivates(s) ==
    /\ At(s, PurgeJob, "start") /\ Unwanted
    /\ torrent.purge = "due" /\ torrent.state \notin Purging
    /\ torrent' = [torrent EXCEPT !.state = "PURGE_PENDING", !.stop = TRUE]
    /\ job' = CancelJobs(Job \ {exec[s].job})
    /\ Ends(s, "transient")
    /\ UNCHANGED <<rights, latest, abandoned, physical>>

\* Mutated form: live leases are not counted.
PurgeBeginsLeased(s) ==
    /\ At(s, PurgeJob, "start") /\ Unwanted
    /\ torrent.purge = "due" /\ torrent.state \in Purging
    /\ ~torrent.stop
    /\ torrent' = [torrent EXCEPT !.state = "PURGING"]
    /\ Goto(s, "effect1")
    /\ UNCHANGED <<rights, job, latest, abandoned, physical>>

\* purge_torrent, first transaction: the deletion begins.
PurgeBegins(s) ==
    /\ At(s, PurgeJob, "start") /\ Unwanted
    /\ torrent.purge = "due" /\ torrent.state \in Purging
    /\ ~torrent.stop /\ Leased = {}
    /\ torrent' = [torrent EXCEPT !.state = "PURGING"]
    /\ Goto(s, "effect1")
    /\ UNCHANGED <<rights, job, latest, abandoned, physical>>

\* remove_managed_torrent; a failure may hide a removal that took place.
PurgeRemove(s) ==
    /\ At(s, PurgeJob, "effect1")
    /\ \/ qb' = "absent" /\ Goto(s, "effect2")
       \/ qb' \in {qb, "absent"} /\ \E o \in {"permanent", "transient"} : Ends(s, o)
    /\ UNCHANGED <<rows, abandoned, content>>

\* SharedContentStore.purge
PurgeDelete(s) ==
    /\ At(s, PurgeJob, "effect2")
    /\ \/ content' = FALSE /\ Goto(s, "commit")
       \/ UNCHANGED content /\ Ends(s, "transient")
    /\ UNCHANGED <<rows, abandoned, qb>>

\* Mutated form: the deadline survives the purge.
PurgedRowDated(t) == [t EXCEPT !.state = "PURGED", !.stop = FALSE]

\* The columns purge_torrent resets
PurgedRow(t) == [t EXCEPT !.state = "PURGED", !.purge = "none", !.stop = FALSE]

\* purge_torrent, second transaction
PurgeCommit(s) ==
    /\ At(s, PurgeJob, "commit")
    /\ IF torrent.state = "PURGING" /\ Holders = {} /\ Leased = {}
       THEN /\ torrent' = PurgedRow(torrent)
            /\ ledger' = Debit(ledger)
            /\ Ends(s, "ok")
       ELSE /\ Ends(s, IF torrent.state = "PURGED" THEN "ok" ELSE "transient")
            /\ UNCHANGED <<torrent, ledger>>
    /\ UNCHANGED <<req, lease, usage, job, latest, abandoned, physical>>

\* What the job becomes when its handler ended so
Finals(outcome) ==
    CASE outcome = "ok" -> {"COMPLETED"}
      [] outcome \in {"permanent", "permanent_error"} -> {"FAILED"}
      [] OTHER -> {"QUEUED", "FAILED"}

\* What _finish_failure makes of the torrent
AfterFailure(j, outcome, final) ==
    IF final = "FAILED" /\ (\/ outcome \in {"permanent_error", "retry_wait"}
                            \/ j \in AddJob /\ torrent.state \in Adding)
    THEN [torrent EXCEPT !.state = "ERROR"]
    ELSE IF final = "QUEUED" /\ outcome = "retry_wait"
    THEN [torrent EXCEPT !.state = "RETRY_WAIT"]
    ELSE torrent

\* _finish_success and _finish_failure while the claim is held.  A cancelled
\* job leaves the torrent alone.
Finish(s, final) ==
    LET j == exec[s].job IN
    /\ exec[s].pc = "end" /\ exec[s].own
    /\ final \in IF job[j].cancel THEN {"CANCELLED"} ELSE Finals(exec[s].arg)
    /\ job' = [job EXCEPT ![j] = IF final = "QUEUED" THEN QueuedRow ELSE Ended(j, final)]
    /\ torrent' = AfterFailure(j, exec[s].arg, final)
    /\ exec' = [exec EXCEPT ![s] = Idle]
    /\ UNCHANGED <<rights, latest, abandoned, physical>>

\* recover_expired_torrent_jobs on one expired claim.  Its execution died with
\* its process or was cancelled by its heartbeat (an execution that is dead
\* and not yet recovered is one that takes no step), unless it only stalled:
\* then it goes on without a claim.
RecoverClaim(j, final) ==
    /\ job[j].state = "RUNNING"
    /\ final \in IF job[j].cancel THEN {"CANCELLED"} ELSE {"QUEUED", "FAILED"}
    /\ job' = [job EXCEPT ![j] = IF final = "QUEUED" THEN QueuedRow ELSE Ended(j, final)]
    /\ \E s \in Slot :
         /\ exec[s].job = j /\ exec[s].own
         /\ \/ exec' = [exec EXCEPT ![s] = Idle]
            \/ Stalls /\ exec' = [exec EXCEPT ![s].own = FALSE]
    /\ abandoned' = (abandoned \/ (j \in AddJob /\ final = "FAILED"))
    /\ UNCHANGED <<torrent, rights, latest, physical>>

\* An execution without a claim ends, or is killed: its last transaction
\* finds the claim lost and changes nothing.
Vanish(s) ==
    /\ exec[s] # Idle /\ ~exec[s].own
    /\ exec' = [exec EXCEPT ![s] = Idle]
    /\ UNCHANGED <<rows, abandoned, physical>>

\* _fail_abandoned_add_torrents, in a transaction of its own
FailAbandoned ==
    /\ abandoned
    /\ torrent' = IF torrent.state \in Adding /\ ActiveJobs(AddJob) = {}
                  THEN [torrent EXCEPT !.state = "ERROR"] ELSE torrent
    /\ abandoned' = FALSE
    /\ UNCHANGED <<rights, job, latest, exec, physical>>

\* The worker dies, or the database becomes unavailable, before that.
ForgetAbandoned ==
    /\ abandoned
    /\ abandoned' = FALSE
    /\ UNCHANGED <<rows, exec, physical>>

-----------------------------------------------------------------------------
(* The scheduler, qBittorrent and time                                     *)

\* SchedulerRuntime acknowledges that the torrent of a pending purge is stopped.
AcknowledgeStop ==
    /\ torrent.state = "PURGE_PENDING" /\ torrent.stop
    /\ torrent' = [torrent EXCEPT !.stop = FALSE]
    /\ UNCHANGED <<rights, job, latest, exec, abandoned, physical>>

\* qBittorrent completes the download.
QbCompletes ==
    /\ qb = "partial" /\ content
    /\ qb' = "complete"
    /\ UNCHANGED <<rows, exec, abandoned, content>>

\* The torrent is removed from qBittorrent behind WOS's back.
QbLoses ==
    /\ Operator /\ qb # "absent"
    /\ qb' = "absent"
    /\ UNCHANGED <<rows, exec, abandoned, content>>

\* purge_after passes.
RetentionElapses ==
    /\ torrent.purge = "future"
    /\ torrent' = [torrent EXCEPT !.purge = "due"]
    /\ UNCHANGED <<rights, job, latest, exec, abandoned, physical>>

\* unsubscribe_at passes.
RightFallsDue(u) ==
    /\ req[u] = "READY"
    /\ req' = [req EXCEPT ![u] = "DUE"]
    /\ UNCHANGED <<torrent, lease, usage, ledger, job, latest, exec, abandoned, physical>>

-----------------------------------------------------------------------------
Next ==
    \/ \E u \in User : CreateTorrent(u)
    \/ \E u \in User, next \in {"READY", "DOWNLOADING"} : JoinTorrent(u, next)
    \/ \E u \in User : CancelRequest(u)
    \/ \E U \in SUBSET User : ExpireRights(U)
    \/ \E u \in User : RetryResync(u)
    \/ \E u \in User : RetryAdd(u)
    \/ \E u \in User : AcquireLease(u)
    \/ \E u \in User : EndLease(u)
    \/ AdminPurge
    \/ ForceResume
    \/ \E q, c \in BOOLEAN : RecoverCancel(q, c)
    \/ \E q, c \in BOOLEAN : RecoverPurgeMetadata(q, c)
    \/ \E j \in SyncJob : EnqueueSync(j)
    \/ \E s \in Slot, j \in Job : Claim(s, j)
    \/ \E s \in Slot : HandlerFails(s)
    \/ \E s \in Slot : AddStart(s)
    \/ \E s \in Slot : AddIntegrate(s)
    \/ \E s \in Slot : AddCommit(s)
    \/ \E s \in Slot : SyncStart(s)
    \/ \E s \in Slot : SyncInspect(s)
    \/ \E s \in Slot : SyncCommit(s)
    \/ \E s \in Slot : PurgeNotNeeded(s)
    \/ \E s \in Slot, next \in {"READY", "DOWNLOADING"} : PurgeYields(s, next)
    \/ \E s \in Slot : PurgeWaits(s)
    \/ \E s \in Slot : PurgeActivates(s)
    \/ \E s \in Slot : PurgeBegins(s)
    \/ \E s \in Slot : PurgeRemove(s)
    \/ \E s \in Slot : PurgeDelete(s)
    \/ \E s \in Slot : PurgeCommit(s)
    \/ \E s \in Slot, final \in JobStates : Finish(s, final)
    \/ \E j \in Job, final \in JobStates : RecoverClaim(j, final)
    \/ \E s \in Slot : Vanish(s)
    \/ FailAbandoned
    \/ ForgetAbandoned
    \/ AcknowledgeStop
    \/ QbCompletes
    \/ QbLoses
    \/ RetentionElapses
    \/ \E u \in User : RightFallsDue(u)

Spec == Init /\ [][Next]_vars

-----------------------------------------------------------------------------
(* Properties                                                              *)

\* ck_managed_torrents_lifecycle: no interleaving of handlers, routes and
\* recovery breaks the CHECK constraint, so none of their transactions is
\* refused by it.
LifecycleCheck ==
    /\ torrent.state \in Purging => torrent.purge # "none"
    /\ torrent.state = "PURGED" => torrent.purge = "none"

\* No right is held on content that is about to be, is being or was deleted:
\* once purge_torrent decides to delete, no request slips in.
PurgeHasNoHolder == torrent.state \in Purging \cup {"PURGED"} => Holders = {}

\* A live download lease keeps the torrent out of PURGING.
LeaseBlocksPurge == torrent.state \in {"PURGING", "PURGED"} => Leased = {}

\* The ledger counts the torrent exactly while it is not purged and each
\* user's usage exactly while a right is held, although max(0, ...) would
\* hide a double refund, and although purges are retried and repeated.
Accounted ==
    /\ ledger = OtherBytes + (IF torrent.state \in {"ABSENT", "PURGED"} THEN 0 ELSE Size)
    /\ \A u \in User : usage[u] = OtherBytes + (IF req[u] = "NONE" THEN 0 ELSE Size)

\* At most one addition is in charge: an ADD_TORRENT job left over from
\* before a purge has been told to stop before another one is created.
OneAddInCharge ==
    \A i, j \in ActiveJobs(AddJob) : ~job[i].cancel /\ ~job[j].cancel => i = j

\* While a torrent is being purged or is purged, no addition or observation
\* is left that could decide its state when it ends.
PurgeSilencesJobs ==
    torrent.state \in Purging \cup {"PURGED"} =>
        \A j \in ActiveJobs(AddJob \cup SyncJob) : job[j].cancel

\* Content nobody holds has a deletion date: it cannot leak.
OrphanHasDeadline ==
    torrent.state \notin {"ABSENT", "PURGED"} /\ Holders = {} => torrent.purge # "none"

\* A READY torrent is READY for everyone who holds it.
ReadyForAll ==
    torrent.state = "READY" => \A u \in Holders : req[u] \in {"READY", "DUE"}

\* A torrent that waits to be added has an addition job, or a worker about to
\* report its failure.
AddHasDriver ==
    torrent.state \in Adding => ActiveJobs(AddJob) # {} \/ abandoned

\* Once the deletion has begun nothing turns the torrent back: the purge can
\* only be completed.
PurgeIsOneWay ==
    [][torrent.state = "PURGING" => torrent'.state \in {"PURGING", "PURGED"}]_vars

-----------------------------------------------------------------------------
(* The inductive invariant                                                 *)

\* Before the torrent exists nothing refers to it.
NothingBefore ==
    torrent.state = "ABSENT" =>
        /\ Holders = {} /\ ActiveJobs(Job) = {}
        /\ \A s \in Slot : exec[s] = Idle

\* _owned_job: an execution that owns its claim runs the job, and is alone.
Ownership ==
    \A s \in Slot : exec[s].own =>
        /\ exec[s].job \in Job
        /\ job[exec[s].job].state = "RUNNING"
        /\ \A t \in Slot : exec[t].own /\ exec[t].job = exec[s].job => t = s

\* A purge never asks for a torrent state, and a queued job is not cancelled.
PurgeOutcomes ==
    \A s \in Slot : exec[s].job \in PurgeJob => exec[s].arg \notin {"permanent_error", "retry_wait"}

QueuedNotCancelled == \A j \in Job : job[j].state = "QUEUED" => ~job[j].cancel

\* A pending purge never gets its deadline back: the reason why no request
\* is admitted from PURGE_PENDING on.
PurgeIsDue == torrent.state \in Purging => torrent.purge = "due"

LifecycleInv ==
    /\ TypeOK
    /\ NothingBefore
    /\ Ownership
    /\ PurgeOutcomes
    /\ QueuedNotCancelled
    /\ PurgeIsDue
    /\ LifecycleCheck
    /\ PurgeHasNoHolder
    /\ LeaseBlocksPurge
    /\ Accounted
    /\ PurgeSilencesJobs
    /\ OneAddInCharge
    /\ ReadyForAll
    /\ Operator \/ OrphanHasDeadline

-----------------------------------------------------------------------------
(* What the documentation says                                             *)

\* The document: PURGED means that the torrent and its data were deleted.
PurgedMeansGone == torrent.state = "PURGED" => qb = "absent" /\ ~content

\* The document: READY means that the data is complete.
ReadyHasContent == torrent.state = "READY" => content

\* The document: an active lease protects the content against the purge.
LeaseProtectsContent == [][content /\ ~content' => Leased = {}]_vars

\* The names of users, executions and slots mean nothing (for TLC).
Interchangeable ==
    Permutations(User) \cup Permutations(AddJob) \cup Permutations(PurgeJob) \cup Permutations(Slot)

=============================================================================
