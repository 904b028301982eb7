--------------------------- MODULE UploadStaging ---------------------------
(***************************************************************************)
(* The way of an uploaded .torrent file to the worker                      *)
(* (api/routes/torrents_v2.py, torrents/validation_work.py,                *)
(* torrents/upload_staging.py, torrents/retry_reads.py,                    *)
(* jobs/torrent_payloads.py): parsing and staging in a small thread pool,  *)
(* the payload file published before the transaction that needs it         *)
(* commits, and its removal when it is known that it did not.              *)
(*                                                                         *)
(* One torrent, any number of uploads and retries of it.  A client may go  *)
(* away at any time; the threads that work for it go on.  A commit may     *)
(* succeed although the client of the database is told that it failed.     *)
(* Files of different storage keys never meet, so the disk maps a key to   *)
(* the upload that wrote the file (its inode).                             *)
(***************************************************************************)
EXTENDS Integers, Sequences, FiniteSets

CONSTANTS
    Upload,      \* requests to POST /torrents
    Retrier,     \* requests to POST /torrents/{id}/retry
    None,
    Workers,     \* threads of TorrentValidationPool
    MaxPending,  \* max_pending of TorrentValidationPool
    MaxPurges    \* bound: how often the torrent is purged

Caller == Upload \cup Retrier

VARIABLES
    phase,     \* where each request is
    queue,     \* TorrentValidationPool: work that waits for a thread
    running,   \*   work a thread has taken
    pending,   \*   _pending
    closed,    \*   _closed
    abandoned, \*   work whose caller has left
    reads,     \* TorrentRetryReads: who reads the row's payload
    files,     \* storage key -> upload that wrote the published file
    row,       \* the ManagedTorrent: state, storage key, generation
    job,       \* its latest ADD job
    rowLock,   \* who holds the torrent's row lock
    staged,    \* key and generation each request works with
    removing,  \* handlers that have committed and will remove the payload
    purges,
    unsure     \* keys whose file may be left: the commit's outcome is unknown, or the disk refused

pool == <<queue, running, pending, closed, abandoned>>
db == <<row, job, rowLock, purges>>
vars == <<phase, queue, running, pending, closed, abandoned, reads, files, row, job, rowLock,
          staged, removing, purges, unsure>>

Phases == {"new", "validating", "valid", "locked", "staging", "settling", "settled", "staged",
           "body", "cleanup", "reading", "read", "done"}
RowStates == {"NONE", "PENDING", "ADDED", "ERROR", "PURGED"}
JobStates == {"none", "queued", "running", "failed", "completed"}
Key == Upload
NoStage == [key |-> None, gen |-> 0]

TypeOK ==
    /\ phase \in [Caller -> Phases]
    /\ queue \in Seq(Caller) /\ running \subseteq Caller /\ abandoned \subseteq Caller
    /\ pending \in 0..MaxPending /\ closed \in BOOLEAN
    /\ reads \subseteq Retrier
    /\ files \in [Key -> Upload \cup {None}]
    /\ row \in [state : RowStates, key : Key \cup {None}, gen : Nat]
    /\ job \in JobStates /\ rowLock \in Caller \cup {None}
    /\ staged \in [Caller -> [key : Key \cup {None}, gen : Nat]]
    /\ removing \in SUBSET Key /\ purges \in 0..MaxPurges /\ unsure \subseteq Key

Init ==
    /\ phase = [c \in Caller |-> "new"]
    /\ queue = <<>> /\ running = {} /\ pending = 0 /\ closed = FALSE /\ abandoned = {}
    /\ reads = {}
    /\ files = [k \in Key |-> None]
    /\ row = [state |-> "NONE", key |-> None, gen |-> 0]
    /\ job = "none" /\ rowLock = None
    /\ staged = [c \in Caller |-> NoStage]
    /\ removing = {} /\ purges = 0 /\ unsure = {}

-----------------------------------------------------------------------------
(* TorrentValidationPool                                                   *)

Goes(c, p) == phase' = [phase EXCEPT ![c] = p]

Busy == closed \/ pending >= MaxPending

Run(c) ==
    /\ ~Busy
    /\ queue' = Append(queue, c) /\ pending' = pending + 1
    /\ UNCHANGED <<running, closed, abandoned>>

StartThread ==
    /\ queue # <<>> /\ Cardinality(running) < Workers
    /\ queue' = Tail(queue) /\ running' = running \cup {Head(queue)}
    /\ UNCHANGED <<phase, pending, closed, abandoned, reads, files, db, staged, removing, unsure>>

\* _completed: the slot is given back when the thread is really done.
Completed(c) ==
    /\ c \in running
    /\ running' = running \ {c} /\ pending' = pending - 1
    /\ UNCHANGED <<queue, closed, abandoned>>

\* aclose: no new work, and what waits for a thread is cancelled.
Close ==
    /\ ~closed
    /\ closed' = TRUE /\ queue' = <<>> /\ pending' = pending - Len(queue)
    /\ phase' = [c \in Caller |-> IF \E i \in DOMAIN queue : queue[i] = c /\ phase[c] # "done"
                                  THEN IF phase[c] \in {"staging", "settling"} THEN "settled" ELSE "done"
                                  ELSE phase[c]]
    /\ reads' = {c \in reads : \A i \in DOMAIN queue : queue[i] # c}
    /\ UNCHANGED <<running, abandoned, files, db, staged, removing, unsure>>

-----------------------------------------------------------------------------
(* Uploads                                                                 *)

\* The options cannot be read, the length is missing or too large, the file
\* is missing or too large, the disk cannot be measured, or the pool is full.
Refuse(c) ==
    /\ phase[c] \in {"new", "valid", "read"} \/ (phase[c] = "locked" /\ rowLock = c)
    /\ Goes(c, "done")
    /\ rowLock' = IF rowLock = c THEN None ELSE rowLock
    /\ UNCHANGED <<pool, reads, files, row, job, staged, removing, purges, unsure>>

Validate(u) ==
    /\ phase[u] = "new"
    /\ Run(u)
    /\ Goes(u, "validating")
    /\ UNCHANGED <<reads, files, db, staged, removing, unsure>>

\* sanitize_torrent refuses the file or returns it parsed; abandoned work that
\* had not started raises at once.
Validated(u) ==
    /\ Completed(u)
    /\ phase[u] = "validating" \/ (phase[u] = "done" /\ u \in abandoned)
    /\ \E ok \in BOOLEAN : Goes(u, IF phase[u] = "validating" /\ ok THEN "valid" ELSE "done")
    /\ UNCHANGED <<reads, files, db, staged, removing, unsure>>

\* create_or_get_torrent_request: the torrent's row is locked.  A new row gets
\* a fresh storage key, a purged one keeps its key; any other torrent needs
\* no payload and the upload is over for this module.
Admit(u) ==
    /\ phase[u] = "valid" /\ rowLock = None
    /\ IF row.state \in {"NONE", "PURGED"}
       THEN /\ Goes(u, "locked") /\ rowLock' = u
            /\ staged' = [staged EXCEPT ![u] = [key |-> IF row.state = "NONE" THEN u ELSE row.key,
                                                gen |-> row.gen]]
       ELSE Goes(u, "done") /\ UNCHANGED <<rowLock, staged>>
    /\ UNCHANGED <<pool, reads, files, row, job, removing, purges, unsure>>

Stage(u) ==
    /\ phase[u] = "locked"
    /\ Run(u)
    /\ Goes(u, "staging")
    /\ UNCHANGED <<reads, files, db, staged, removing, unsure>>

\* stage_owned: the private attempt replaces the published file at once.
Publish(u) ==
    /\ u \in running /\ phase[u] \in {"staging", "settling"}
    /\ files[staged[u].key] # u
    /\ files' = [files EXCEPT ![staged[u].key] = u]
    /\ UNCHANGED <<phase, pool, reads, db, staged, removing, unsure>>

\* Mutated form: the file is removed by name.
RemoveByName(u) ==
    files' = [files EXCEPT ![staged[u].key] = None] /\ UNCHANGED unsure

\* remove_owned: only the inode this upload wrote.  When the disk refuses, the
\* failure is logged and the file stays.
RemoveOwned(u) ==
    \/ /\ files' = [files EXCEPT ![staged[u].key] = IF @ = u THEN None ELSE @]
       /\ UNCHANGED unsure
    \/ unsure' = unsure \cup {staged[u].key} /\ UNCHANGED files

\* stage_owned returns; or it fails and has removed what it published.
Staged(u) ==
    /\ Completed(u)
    /\ phase[u] \in {"staging", "settling"} /\ files[staged[u].key] = u
    /\ Goes(u, IF phase[u] = "staging" THEN "staged" ELSE "settled")
    /\ UNCHANGED <<reads, files, db, staged, removing, unsure>>

\* Mutated form: what was published stays when the directory cannot be synced.
StageFailsKeeping(u) ==
    /\ Completed(u)
    /\ phase[u] \in {"staging", "settling"}
    /\ Goes(u, "done") /\ rowLock' = None
    /\ UNCHANGED <<reads, files, row, job, purges, staged, removing, unsure>>

StageFails(u) ==
    /\ Completed(u)
    /\ phase[u] \in {"staging", "settling"}
    /\ RemoveOwned(u)
    /\ Goes(u, "settled")
    /\ UNCHANGED <<reads, db, staged, removing>>

\* The ADD job is flushed: transaction_body_finished.
BodyFinished(u) ==
    /\ phase[u] = "staged"
    /\ Goes(u, "body")
    /\ UNCHANGED <<pool, reads, files, db, staged, removing, unsure>>

Committed(u) ==
    /\ row' = [state |-> "PENDING", key |-> staged[u].key, gen |-> row.gen + 1]
    /\ job' = "queued"

Commit(u) ==
    /\ phase[u] = "body"
    /\ Committed(u) /\ rowLock' = None
    /\ Goes(u, "done")
    /\ UNCHANGED <<pool, reads, files, staged, removing, purges, unsure>>

\* The commit raises: it took place or not, and the payload stays.
CommitUnknown(u) ==
    /\ phase[u] = "body"
    /\ rowLock' = None
    /\ Committed(u) \/ UNCHANGED <<row, job>>
    /\ Goes(u, "done")
    /\ unsure' = unsure \cup {staged[u].key}
    /\ UNCHANGED <<pool, reads, files, staged, removing, purges>>

\* Mutated form: cancelled work gives its slot back at once.
LeaveReleasing(u) ==
    /\ phase[u] = "validating"
    /\ Goes(u, "done")
    /\ abandoned' = abandoned \cup {u} /\ pending' = pending - 1
    /\ UNCHANGED <<queue, running, closed, reads, files, db, staged, removing, unsure>>

\* The client goes away, or the transaction fails before its body ended.
Leave(u) ==
    /\ phase[u] \in {"validating", "valid", "locked", "staging", "staged"}
    /\ Goes(u, CASE phase[u] = "staging" -> "settling"
                 [] phase[u] = "staged" -> "cleanup"
                 [] OTHER -> "done")
    /\ abandoned' = IF phase[u] = "validating" THEN abandoned \cup {u} ELSE abandoned
    /\ rowLock' = IF rowLock = u /\ phase[u] # "staging" THEN None ELSE rowLock
    /\ UNCHANGED <<queue, running, pending, closed, reads, files, row, job, staged, removing,
                   purges, unsure>>

\* Mutated form: the transaction of a request that left is not rolled back.
SettleKeepingLock(u) ==
    /\ phase[u] = "settled"
    /\ RemoveOwned(u)
    /\ Goes(u, "done")
    /\ UNCHANGED <<pool, reads, db, staged, removing>>

\* The thread has settled: its file is removed, then the transaction rolls back.
Settle(u) ==
    /\ phase[u] = "settled"
    /\ RemoveOwned(u)
    /\ Goes(u, "done") /\ rowLock' = None
    /\ UNCHANGED <<pool, reads, row, job, staged, removing, purges>>

\* The transaction has rolled back and released the row: cleanup_upload_payload
\* comes after that.
Cleanup(u) ==
    /\ phase[u] = "cleanup"
    /\ RemoveOwned(u)
    /\ Goes(u, "done")
    /\ UNCHANGED <<pool, reads, db, staged, removing>>

-----------------------------------------------------------------------------
(* Retries                                                                 *)

\* The torrent is in ERROR, its last ADD job FAILED, and nobody reads its file.
RetryRead(r) ==
    /\ phase[r] = "new" /\ row.state = "ERROR" /\ job = "failed"
    /\ reads = {}
    /\ Run(r)
    /\ reads' = {r}
    /\ staged' = [staged EXCEPT ![r] = [key |-> row.key, gen |-> row.gen]]
    /\ Goes(r, "reading")
    /\ UNCHANGED <<files, db, removing, unsure>>

RetryReadDone(r) ==
    /\ r \in Retrier /\ Completed(r)
    /\ reads' = reads \ {r}
    /\ Goes(r, IF phase[r] = "reading" /\ files[staged[r].key] # None THEN "read" ELSE "done")
    /\ UNCHANGED <<files, db, staged, removing, unsure>>

\* Mutated form: the read is forgotten with its caller.
RetryLeaveForgetting(r) ==
    /\ phase[r] = "reading"
    /\ Goes(r, "done")
    /\ reads' = reads \ {r}
    /\ UNCHANGED <<pool, files, db, staged, removing, unsure>>

RetryLeave(r) ==
    /\ phase[r] = "reading"
    /\ Goes(r, "done")
    /\ UNCHANGED <<pool, reads, files, db, staged, removing, unsure>>

\* State, storage key, generation and the job are checked again under the lock.
Retry(r) ==
    /\ phase[r] = "read" /\ rowLock = None
    /\ row.state = "ERROR" /\ row.key = staged[r].key /\ row.gen = staged[r].gen
    /\ job = "failed"
    /\ row' = [row EXCEPT !.state = "PENDING", !.gen = @ + 1] /\ job' = "queued"
    /\ Goes(r, "done")
    /\ UNCHANGED <<pool, reads, files, rowLock, staged, removing, purges, unsure>>

-----------------------------------------------------------------------------
(* The worker (torrent_effects.py, add_torrent), in another process        *)

AddClaimed ==
    /\ job = "queued"
    /\ job' = "running"
    /\ UNCHANGED <<phase, pool, reads, files, row, rowLock, staged, removing, purges, unsure>>

\* The payload is read, the torrent added, and the row left PAUSED; the file
\* is removed afterwards.
AddSucceeds ==
    /\ job = "running" /\ rowLock = None /\ row.state = "PENDING" /\ files[row.key] # None
    /\ row' = [row EXCEPT !.state = "ADDED"] /\ job' = "completed"
    /\ removing' = removing \cup {row.key}
    /\ UNCHANGED <<phase, pool, reads, files, rowLock, staged, purges, unsure>>

AddFails ==
    /\ job = "running" /\ rowLock = None
    /\ row' = [row EXCEPT !.state = "ERROR"] /\ job' = "failed"
    /\ UNCHANGED <<phase, pool, reads, files, rowLock, staged, removing, purges, unsure>>

RemovePayload(k) ==
    /\ k \in removing
    /\ files' = [files EXCEPT ![k] = None] /\ removing' = removing \ {k}
    /\ UNCHANGED <<phase, pool, reads, db, staged, unsure>>

Purge ==
    /\ row.state \in {"ADDED", "ERROR"} /\ rowLock = None /\ purges < MaxPurges
    /\ row' = [row EXCEPT !.state = "PURGED"] /\ purges' = purges + 1
    /\ UNCHANGED <<phase, pool, reads, files, job, rowLock, staged, removing, unsure>>

-----------------------------------------------------------------------------
Requests ==
    \/ \E u \in Upload :
          \/ Validate(u) \/ Validated(u) \/ Admit(u) \/ Stage(u) \/ BodyFinished(u)
          \/ Commit(u) \/ CommitUnknown(u) \/ Leave(u) \/ Settle(u) \/ Cleanup(u)
    \/ \E c \in Caller : Refuse(c)
    \/ \E r \in Retrier : RetryRead(r) \/ RetryLeave(r) \/ Retry(r)
Threads ==
    \/ StartThread
    \/ \E u \in Upload : Publish(u) \/ Staged(u) \/ StageFails(u)
    \/ \E r \in Retrier : RetryReadDone(r)
Worker == AddClaimed \/ AddSucceeds \/ AddFails \/ \E k \in Key : RemovePayload(k)

Next == Requests \/ Threads \/ Worker \/ Close \/ Purge

\* Threads end their work, and a request that waits for its thread or has
\* cleaning up to do is resumed by the event loop.
Fairness ==
    /\ WF_vars(StartThread)
    /\ \A u \in Upload :
          /\ WF_vars(Validated(u)) /\ WF_vars(Staged(u) \/ StageFails(u))
          /\ WF_vars(Settle(u)) /\ WF_vars(Cleanup(u))
          /\ WF_vars(Commit(u) \/ CommitUnknown(u))
          /\ WF_vars(BodyFinished(u)) /\ WF_vars(Stage(u) \/ Refuse(u))
    /\ \A r \in Retrier : WF_vars(RetryReadDone(r))

Spec == Init /\ [][Next]_vars /\ Fairness

-----------------------------------------------------------------------------
(* Properties                                                              *)

\* Every slot of the pool stands for work that waits or runs, also when its
\* caller has gone: cancelled requests never let more work in than the budget,
\* and no slot is lost for ever.
PoolExact ==
    /\ pending = Len(queue) + Cardinality(running)
    /\ pending <= MaxPending /\ Cardinality(running) <= Workers

\* An upload that gave up, failed or was overtaken never takes away the file
\* of a job that was committed: not the other upload's file, and not its own
\* when the commit it believes lost took place.
Needed(k) == row.key = k /\ row.state = "PENDING" /\ job \in {"queued", "running"}
UploadsKeepPayloadStep ==
    \A k \in Key : Needed(k) /\ files[k] # None /\ k \notin removing => files'[k] # None
UploadsKeepPayload == [][UploadsKeepPayloadStep]_vars

\* No two requests read the same payload at once, and the slot of a read stays
\* taken while its thread runs although its caller has left.
OneReadPerKey ==
    /\ Cardinality(reads) <= 1
    /\ \A r \in Retrier : r \in running => r \in reads

\* A file without a row to use it is left behind only by a commit of unknown
\* outcome, or when the disk refused to remove it.
NoOrphanFile ==
    \A k \in Key :
        /\ files[k] # None /\ row.key # k
        /\ \A u \in Upload : phase[u] \in {"new", "validating", "valid", "done"}
        => k \in unsure

Locks(u) == rowLock = u

\* The row lock of an upload is never kept: whoever holds it gets through,
\* even if its client left while the disk thread was writing.
LockReleased == \A u \in Upload : []<>~Locks(u)

-----------------------------------------------------------------------------
(* Why they hold: a request is in one place, and the row lock keeps the row *)
(* as its holder read it until the holder has committed or given up.        *)

Parameters ==
    /\ IsFiniteSet(Caller) /\ Upload \cap Retrier = {} /\ None \notin Caller
    /\ Workers \in Nat /\ MaxPending \in Nat /\ MaxPurges \in Nat

\* Work of the caller waits for a thread or runs; nobody's work is there twice.
InPool(c) == c \in running \/ \E i \in DOMAIN queue : queue[i] = c
Distinct ==
    /\ \A i, j \in DOMAIN queue : queue[i] = queue[j] => i = j
    /\ \A i \in DOMAIN queue : queue[i] \notin running

\* Phases in which a request waits for its thread, and in which it holds the row.
Waiting == {"validating", "staging", "settling", "reading"}
Holding == {"locked", "staging", "settling", "settled", "staged", "body"}
\* Phases in which the published file may be the request's own.
Publishing == (Holding \ {"locked"}) \cup {"cleanup"}

\* The work of a request is in the pool while the request waits for it, or has left.
Placed(c) ==
    /\ phase[c] \in Waiting => InPool(c)
    /\ InPool(c) => phase[c] \in Waiting \cup {"done"}
    /\ c \in Upload => phase[c] \notin {"reading", "read"}
    /\ c \in Retrier => phase[c] \in {"new", "reading", "read", "done"} /\ (InPool(c) <=> c \in reads)

\* Who holds the row finds it as it was when the row was locked.
Held(u) ==
    /\ rowLock = u <=> phase[u] \in Holding
    /\ phase[u] \in Holding =>
         row.state \in {"NONE", "PURGED"} /\ staged[u].key = IF row.state = "NONE" THEN u ELSE row.key
    /\ phase[u] = "cleanup" => staged[u].key \in Key

\* The job is unfinished while the row is PENDING; a row keeps its storage key.
RowWithJob ==
    /\ row.state = "PENDING" <=> job \in {"queued", "running"}
    /\ IF row.state = "NONE" THEN row.key = None ELSE row.key \in Key
    /\ rowLock \notin Retrier

\* A file is of an upload that is still at work, of the row, or may be left.
Filed(k) ==
    files[k] # None =>
        /\ staged[files[k]].key = k
        /\ \/ phase[files[k]] \in Publishing
           \/ phase[files[k]] = "done" /\ (row.key = k \/ k \in unsure)

\* Until its commit an upload's file is its own, and what an upload will clean up nobody needs.
Kept(u) ==
    /\ phase[u] \in {"staged", "body"} => files[staged[u].key] \in {u, None}
    /\ phase[u] = "cleanup" /\ files[staged[u].key] = u /\ row.key = staged[u].key =>
         row.state \in {"NONE", "PURGED"}

\* The inductive invariant.
StagingInv ==
    /\ TypeOK /\ PoolExact /\ Distinct /\ RowWithJob
    /\ \A c \in Caller : Placed(c)
    /\ \A q, r \in reads : q = r
    /\ \A u \in Upload : Held(u) /\ Kept(u)
    /\ \A k \in Key : Filed(k)
=============================================================================
