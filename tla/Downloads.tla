----------------------------- MODULE Downloads -----------------------------
(***************************************************************************)
(* Downloads of one torrent's content (torrents/downloads.py, core/drain.py*)
(* and the download routes of api/routes/torrents_v2.py): the durable lease*)
(* that keeps the content from being purged, its heartbeat, the FIFO queue *)
(* of archives with its condition variable, the clean-up of a response,    *)
(* the drain of requests before a restart, and crashes.                    *)
(*                                                                         *)
(* A file is opened once, before its response starts; an archive opens its *)
(* files while it is sent.  A lease counts down in ticks: 0 is a row that  *)
(* has expired, NoRow one that was deleted or never written.               *)
(***************************************************************************)
EXTENDS Integers, Sequences, SequencesExt, FiniteSets, FiniteSetsExt

CONSTANTS
    File, Archive,  \* requests by what they download
    User, Owner,    \* who asks
    Admin,          \* the administrators among them: an account is created with its role
    LeaseTime,      \* WOS_DOWNLOAD_LEASE_SECONDS, in ticks
    Margin,         \* the margin of keep_alive, in ticks
    Limits,         \* values of WOS_FOLDER_ARCHIVE_MAX_CONCURRENT_GLOBAL
    PerUser,        \* WOS_DOWNLOAD_MAX_CONCURRENT_PER_USER
    Global,         \* WOS_DOWNLOAD_MAX_CONCURRENT_GLOBAL
    MaxRestarts     \* bound: restarts of the API process

Download == File \cup Archive
NoRow == -1

VARIABLES
    phase,    \* where each request is
    lease,    \* its DownloadLease row
    limit,    \* the archive limit it read
    waiters,  \* _ManagedArchiveConcurrency._waiters
    busy,     \*   _active
    awake,    \*   waiters a notification has reached
    acquired, \* ManagedFolderArchiver._acquired
    todo,     \* clean-up operations still to run
    right, active, torrent,  \* rows others change
    draining, inflight,      \* RequestDrain
    restarts,
    late      \* archives that hold a slot without a live lease

queue == <<waiters, busy, awake, acquired>>
rows == <<right, active, torrent>>
vars == <<phase, lease, limit, waiters, busy, awake, acquired, todo, right, active, torrent,
          draining, inflight, restarts, late>>

Phases == {"new", "asked", "open", "queued", "checking", "stream", "closing", "done"}
Operations == {"slot", "lease"}

TypeOK ==
    /\ phase \in [Download -> Phases]
    /\ lease \in [Download -> NoRow..LeaseTime]
    /\ limit \in [Download -> Limits]
    /\ waiters \in Seq(Archive) /\ busy \in 0..Cardinality(Archive)
    /\ awake \subseteq Archive /\ acquired \subseteq Archive
    /\ todo \in [Download -> Seq(Operations)]
    /\ right \in [User -> {"READY", "ENDED"}] /\ active \in [User -> BOOLEAN]
    /\ torrent \in {"READY", "PURGE_PENDING", "PURGING"}
    /\ draining \in BOOLEAN /\ inflight \in Nat /\ restarts \in 0..MaxRestarts
    /\ late \subseteq Archive

Init ==
    /\ phase = [d \in Download |-> "new"]
    /\ lease = [d \in Download |-> NoRow]
    /\ limit \in [Download -> Limits]
    /\ waiters = <<>> /\ busy = 0 /\ awake = {} /\ acquired = {}
    /\ todo = [d \in Download |-> <<>>]
    /\ right = [u \in User |-> "READY"] /\ active = [u \in User |-> TRUE]
    /\ torrent = "READY"
    /\ draining = FALSE /\ inflight = 0 /\ restarts = 0 /\ late = {}

Goes(d, p) == phase' = [phase EXCEPT ![d] = p]
Live(d) == lease[d] > 0
Waiting == {waiters[i] : i \in DOMAIN waiters}

-----------------------------------------------------------------------------
(* Requests                                                                *)

\* RequestDrainMiddleware, then the checks of the route outside any lock.
Enter(d) ==
    /\ phase[d] = "new" /\ ~draining
    /\ IF right[Owner[d]] = "READY" /\ torrent = "READY"
       THEN Goes(d, "asked") /\ inflight' = inflight + 1
       ELSE Goes(d, "done") /\ UNCHANGED inflight
    /\ UNCHANGED <<lease, limit, queue, todo, rows, draining, restarts, late>>

\* Expired rows are deleted by everyone who asks for a lease.
Purged == [e \in Download |-> IF lease[e] = 0 THEN NoRow ELSE lease[e]]
Archives(U) == {e \in Archive : Owner[e] \in U /\ Live(e)}

MayDownload(d) == active[Owner[d]] /\ torrent = "READY" /\ right[Owner[d]] = "READY"
\* Mutated form: the responses of this process are counted, not the leases.
WithinLimitsInProcess(d) ==
    d \in Archive =>
        LET working == {e \in Archive : phase[e] \in {"queued", "checking", "stream", "closing"}} IN
        /\ Cardinality(working) < Global
        /\ Owner[d] \notin Admin => Cardinality({e \in working : Owner[e] = Owner[d]}) < PerUser

\* Only archives count, and only archives are counted.  The routes pass no limit per user for an
\* administrator (max_concurrent=None if is_admin); the global one counts his archives too.
WithinLimits(d) ==
    d \in Archive =>
        /\ Cardinality(Archives(User)) < Global
        /\ Owner[d] \notin Admin => Cardinality(Archives({Owner[d]})) < PerUser

\* DownloadLeaseManager.acquire: one transaction under the lock of an option
\* row, the owner, the torrent and the right.
Acquire(d) ==
    /\ phase[d] = "asked" /\ MayDownload(d) /\ WithinLimits(d)
    /\ lease' = [Purged EXCEPT ![d] = LeaseTime]
    /\ IF d \in File
       THEN Goes(d, "open") /\ UNCHANGED queue
       ELSE IF waiters = <<>> /\ busy < limit[d]
            THEN /\ Goes(d, "checking")
                 /\ busy' = busy + 1 /\ acquired' = acquired \cup {d}
                 /\ UNCHANGED <<waiters, awake>>
            ELSE /\ Goes(d, "queued")
                 /\ waiters' = Append(waiters, d)
                 /\ UNCHANGED <<busy, awake, acquired>>
    /\ UNCHANGED <<limit, todo, rows, draining, inflight, restarts, late>>

\* Mutated form: the lease goes before the archive is closed.
CleaningLeaseFirst(d) ==
    [todo EXCEPT ![d] = IF d \in File THEN <<"lease">> ELSE <<"lease", "slot">>]

\* What a response has to clean up, in this order (finish_download), once its
\* body and files are closed.
Cleaning(d) ==
    [todo EXCEPT ![d] = IF d \in File THEN <<"lease">> ELSE <<"slot", "lease">>]

\* A refusal, or a cancellation while the commit may have reached the database:
\* the lease is deleted all the same.
AcquireFails(d) ==
    /\ phase[d] = "asked"
    /\ \E written \in BOOLEAN :
          lease' = IF written /\ MayDownload(d) /\ WithinLimits(d)
                   THEN [Purged EXCEPT ![d] = LeaseTime] ELSE lease
    /\ todo' = [todo EXCEPT ![d] = <<"lease">>]
    /\ Goes(d, "closing")
    /\ UNCHANGED <<limit, queue, rows, draining, inflight, restarts, late>>

\* The file is opened and checked against the manifest; the response starts.
Opened(d) ==
    /\ phase[d] = "open"
    /\ Goes(d, "stream")
    /\ UNCHANGED <<lease, limit, queue, todo, rows, draining, inflight, restarts, late>>

-----------------------------------------------------------------------------
(* The queue of archives                                                   *)

MayEnter(d) == Head(waiters) = d /\ busy < limit[d]

\* A notified waiter looks at the predicate again.
Wake(d) ==
    /\ phase[d] = "queued" /\ d \in awake
    /\ IF MayEnter(d)
       THEN /\ waiters' = Tail(waiters) /\ busy' = busy + 1 /\ acquired' = acquired \cup {d}
            /\ awake' = Waiting \ {d}
            /\ late' = IF Live(d) THEN late ELSE late \cup {d}
            /\ Goes(d, "checking")
       ELSE awake' = awake \ {d} /\ UNCHANGED <<phase, waiters, busy, acquired, late>>
    /\ UNCHANGED <<lease, limit, todo, rows, draining, inflight, restarts>>

\* list.remove(ticket)
WithoutTicket(d) == \E i \in DOMAIN waiters : waiters[i] = d /\ waiters' = RemoveAt(waiters, i)

\* Mutated form: the others are not told.
LeaveQueueSilent(d) == WithoutTicket(d) /\ awake' = awake \ {d}

\* Whoever leaves the queue takes its ticket out and notifies the others.
LeaveQueue(d) == WithoutTicket(d) /\ awake' = Waiting \ {d}

\* renew: the rights may end while a download goes on, its account may not.
CanFinish(d) == torrent \in {"READY", "PURGE_PENDING"} /\ active[Owner[d]]
Renewable(d) == Live(d) /\ CanFinish(d)

\* After the queue and before the first byte the lease is renewed once more.
Recheck(d) ==
    /\ phase[d] = "checking"
    /\ IF Renewable(d)
       THEN Goes(d, "stream") /\ lease' = [lease EXCEPT ![d] = LeaseTime] /\ UNCHANGED todo
       ELSE Goes(d, "closing") /\ todo' = Cleaning(d) /\ UNCHANGED lease
    /\ UNCHANGED <<limit, queue, rows, draining, inflight, restarts, late>>

-----------------------------------------------------------------------------
(* The heartbeat and the end of a response                                 *)

Beating(d) == phase[d] = "stream" \/ (d \in Archive /\ phase[d] \in {"queued", "checking"})

\* The response is torn down: client gone or stalled, file changed, lease lost.
Stop(d) ==
    /\ Goes(d, "closing") /\ todo' = Cleaning(d)
    /\ IF phase[d] = "queued" THEN LeaveQueue(d) ELSE UNCHANGED <<waiters, awake>>
    /\ UNCHANGED <<lease, limit, busy, acquired, rows, draining, inflight, restarts, late>>

HeartbeatForever(d) ==
    /\ Beating(d) \/ phase[d] = "done"
    /\ Renewable(d)
    /\ lease' = [lease EXCEPT ![d] = LeaseTime]
    /\ UNCHANGED <<phase, limit, queue, todo, rows, draining, inflight, restarts, late>>

Heartbeat(d) ==
    /\ Beating(d) /\ Renewable(d)
    /\ lease' = [lease EXCEPT ![d] = LeaseTime]
    /\ UNCHANGED <<phase, limit, queue, todo, rows, draining, inflight, restarts, late>>

\* The lease is lost, or the database has not answered up to the margin.
HeartbeatStops(d) ==
    /\ Beating(d)
    /\ ~Renewable(d) \/ lease[d] <= Margin
    /\ Stop(d)

Ends(d) == phase[d] \in {"open", "queued", "checking", "stream"} /\ Stop(d)

\* Mutated form: an archive that never got a slot gives one back.
CleanUpBlind(d) ==
    /\ phase[d] = "closing" /\ todo[d] # <<>>
    /\ todo' = [todo EXCEPT ![d] = Tail(@)]
    /\ \/ /\ Head(todo[d]) = "slot"
          /\ busy' = busy - 1 /\ acquired' = acquired \ {d} /\ awake' = Waiting /\ late' = late \ {d}
          /\ UNCHANGED <<waiters, lease>>
       \/ /\ Head(todo[d]) = "lease"
          /\ lease' = [lease EXCEPT ![d] = NoRow] \/ UNCHANGED lease
          /\ UNCHANGED <<queue, late>>
    /\ UNCHANGED <<phase, limit, rows, draining, inflight, restarts>>

\* Every operation runs, also when one before it failed or the task was
\* cancelled again; only the deletion of the lease may have no effect.
CleanUp(d) ==
    /\ phase[d] = "closing" /\ todo[d] # <<>>
    /\ todo' = [todo EXCEPT ![d] = Tail(@)]
    /\ \/ /\ Head(todo[d]) = "slot" /\ d \in acquired
          /\ busy' = busy - 1 /\ acquired' = acquired \ {d} /\ awake' = Waiting /\ late' = late \ {d}
          /\ UNCHANGED <<waiters, lease>>
       \/ /\ Head(todo[d]) = "slot" /\ d \notin acquired
          /\ UNCHANGED <<queue, lease, late>>
       \/ /\ Head(todo[d]) = "lease"
          /\ lease' = [lease EXCEPT ![d] = NoRow] \/ UNCHANGED lease
          /\ UNCHANGED <<queue, late>>
    /\ UNCHANGED <<phase, limit, rows, draining, inflight, restarts>>

Done(d) ==
    /\ phase[d] = "closing" /\ todo[d] = <<>>
    /\ Goes(d, "done") /\ inflight' = inflight - 1
    /\ UNCHANGED <<lease, limit, queue, todo, rows, draining, restarts, late>>

-----------------------------------------------------------------------------
(* The process, the clock and the rest of the system                       *)

Drain ==
    /\ ~draining /\ restarts < MaxRestarts
    /\ draining' = TRUE
    /\ UNCHANGED <<phase, lease, limit, queue, todo, rows, inflight, restarts, late>>

\* The process is gone, with or without a drain; the rows stay.
Restart ==
    /\ restarts < MaxRestarts
    /\ restarts' = restarts + 1
    /\ phase' = [d \in Download |-> IF phase[d] = "new" THEN "new" ELSE "done"]
    /\ waiters' = <<>> /\ busy' = 0 /\ awake' = {} /\ acquired' = {} /\ late' = {}
    /\ todo' = [d \in Download |-> <<>>]
    /\ draining' = FALSE /\ inflight' = 0
    /\ UNCHANGED <<lease, limit, rows>>

\* No timer is exact: a lease may run out while its request goes on.
Tick ==
    /\ \E d \in Download : Live(d)
    /\ lease' = [d \in Download |-> IF Live(d) THEN lease[d] - 1 ELSE lease[d]]
    /\ late' = late \cup {d \in acquired : lease[d] = 1}
    /\ UNCHANGED <<phase, limit, queue, todo, rows, draining, inflight, restarts>>

Unsubscribe(u) ==
    /\ right[u] = "READY"
    /\ right' = [right EXCEPT ![u] = "ENDED"]
    /\ UNCHANGED <<phase, lease, limit, queue, todo, active, torrent, draining, inflight, restarts, late>>

Deactivate(u) ==
    /\ active[u]
    /\ active' = [active EXCEPT ![u] = FALSE]
    /\ UNCHANGED <<phase, lease, limit, queue, todo, right, torrent, draining, inflight, restarts, late>>

\* purge_torrent: PURGE_PENDING without holders, PURGING without live leases.
PurgeStep ==
    /\ \A u \in User : right[u] = "ENDED"
    /\ \/ torrent = "READY" /\ torrent' = "PURGE_PENDING"
       \/ /\ torrent = "PURGE_PENDING" /\ \A d \in Download : ~Live(d)
          /\ torrent' = "PURGING"
    /\ UNCHANGED <<phase, lease, limit, queue, todo, right, active, draining, inflight, restarts, late>>

Serve(d) ==
    \/ Enter(d) \/ Acquire(d) \/ AcquireFails(d) \/ Opened(d) \/ Ends(d)
    \/ Heartbeat(d) \/ HeartbeatStops(d) \/ CleanUp(d) \/ Done(d)

Next ==
    \/ \E d \in Download : Serve(d)
    \/ \E d \in Archive : Wake(d) \/ Recheck(d)
    \/ Drain \/ Restart \/ Tick \/ PurgeStep
    \/ \E u \in User : Unsubscribe(u) \/ Deactivate(u)

\* The task of a response goes on, wherever it is: a stalled send is given up
\* after SEND_STALL_TIMEOUT_SECONDS.
Proceeds(d) ==
    \/ Acquire(d) \/ AcquireFails(d) \/ Opened(d)
    \/ d \in Archive /\ (Wake(d) \/ Recheck(d))
    \/ phase[d] = "stream" /\ Ends(d)
    \/ CleanUp(d) \/ Done(d)

\* The event loop resumes what can go on, heartbeats included.
Fairness ==
    \A d \in Download : WF_vars(Proceeds(d)) /\ WF_vars(Heartbeat(d) \/ HeartbeatStops(d))

Spec == Init /\ [][Next]_vars /\ Fairness

-----------------------------------------------------------------------------
(* Properties                                                              *)

\* _active is the number of archives at work, through cancellations in the
\* queue, failed clean-ups and different limits: it never underflows and no
\* slot is lost when a request is over.
SlotsExact ==
    /\ busy = Cardinality(acquired) /\ busy <= Max(Limits)
    /\ \A d \in Archive :
          /\ d \in acquired => phase[d] \in {"checking", "stream", "closing"}
          /\ d \in Waiting <=> phase[d] = "queued"
    /\ inflight = Cardinality({d \in Download : phase[d] \notin {"new", "done"}})

\* The limits of concurrent archives hold for live leases at any time: an
\* expired lease that was counted out does not come back by a late renewal.
\* An administrator has no limit of his own, only a part of the global one.
LimitsHold ==
    /\ Cardinality(Archives(User)) <= Global
    /\ \A u \in User \ Admin : Cardinality(Archives({u})) <= PerUser

\* The content is not purged under an archive that may still read it, although
\* the right has ended, the request waited in the queue or is being torn down:
\* the only way is to outlast a lease.
ContentHeld == torrent = "PURGING" => acquired \subseteq late

\* Downloads give back what they take: the slots of archives and the requests of
\* a drain are counted exactly, live leases stay within the limits, and nothing
\* is purged under an archive that has kept its lease.
TransfersExact == SlotsExact /\ LimitsHold /\ ContentHeld

Queued(d) == phase[d] = "queued"
Over(d) == phase[d] = "done"

\* Every archive in the queue gets its turn or leaves: no notification is lost,
\* whoever is cancelled in front of it.
QueueMoves == \A d \in Archive : []<>~Queued(d)

\* A lease never outlives its request for ever: a failed deletion, a crash or
\* a cancelled commit leave a row that nobody renews, and time passes.
LeaseEnds == WF_vars(Tick) => \A d \in Download : []<>~(Over(d) /\ Live(d))

-----------------------------------------------------------------------------
(* Why the first three hold, for any constants the options allow: a ticket *)
(* is in the queue once, a slot is given back before its lease, and a      *)
(* content that is purged has no live lease.                               *)

Parameters ==
    /\ IsFiniteSet(File) /\ IsFiniteSet(Archive) /\ File \cap Archive = {}
    /\ Owner \in [Download -> User] /\ Admin \subseteq User
    /\ LeaseTime \in Nat \ {0} /\ Margin \in Nat
    /\ Limits \subseteq Nat /\ \E most \in Limits : \A l \in Limits : l <= most
    /\ PerUser \in Nat /\ Global \in Nat

Typed ==
    /\ phase \in [Download -> Phases] /\ \A d \in File : phase[d] \notin {"queued", "checking"}
    /\ lease \in [Download -> NoRow..LeaseTime] /\ limit \in [Download -> Limits]
    /\ acquired \subseteq Archive /\ late \subseteq Archive
    /\ torrent \in {"READY", "PURGE_PENDING", "PURGING"}

\* A ticket is in the queue once.
TicketsOnce ==
    /\ waiters \in Seq(Archive)
    /\ \A i, j \in DOMAIN waiters : waiters[i] = waiters[j] => i = j

\* A slot that is still held when its response closes is the next to go.
SlotsFirst ==
    /\ todo \in [Download -> {<<>>, <<"lease">>, <<"slot", "lease">>}]
    /\ \A d \in acquired : phase[d] = "closing" => todo[d] = <<"slot", "lease">>

\* A slot is held under a live lease or it is known to be late, and a content
\* that is purged has no live lease.
LeasesKnown ==
    /\ \A d \in acquired : Live(d) \/ d \in late
    /\ torrent = "PURGING" => \A d \in Download : ~Live(d)

DownloadsInv == Typed /\ TicketsOnce /\ SlotsFirst /\ LeasesKnown /\ TransfersExact
=============================================================================
