--------------------------- MODULE SchedulerCycle ---------------------------
(***************************************************************************)
(* The scheduler (backend/app/scheduler/runtime.py, persistence.py): how   *)
(* one cycle decides in a transaction which torrents run, tells            *)
(* qBittorrent in several HTTP calls, and acknowledges in a second         *)
(* transaction the stops it owed, while users, administrators and the      *)
(* worker go on changing the torrents, and other schedulers wait for the   *)
(* singleton lease.                                                        *)
(*                                                                         *)
(* Which torrents are chosen is weighted_fair.py's business: here it is    *)
(* any set of held torrents within the free slots.  The control set is     *)
(* assumed to fit in one window (MAX_SCHEDULER_CONTROL_SET).               *)
(*                                                                         *)
(* Two counters of the code are only compared for equality.  A captured    *)
(* lifecycle_generation is still current iff the torrent is still in the   *)
(* captured set, which every increment takes it out of; a captured         *)
(* desired_generation is still current iff `decided' is still the          *)
(* scheduler that captured it.                                             *)
(***************************************************************************)
EXTENDS Integers, FiniteSets

LOCAL INSTANCE TLC

CONSTANTS
    Scheduler, NoScheduler,
    Torrent,
    Unreachable, \* torrents the gateway skips: stale account or not owned by WOS
    Capacity,    \* max_active_global
    Overrun,     \* may a phase outlast the lease, or a resume the torrent's rights?
    Admin,       \* do administrators resume and purge torrents?
    Troubles     \* do torrents "fail", or "regress" in qBittorrent?

ASSUME SchedulerAssumption ==
    /\ NoScheduler \notin Scheduler
    /\ Unreachable \subseteq Torrent
    /\ Capacity \in Nat
    /\ {Overrun, Admin} \subseteq BOOLEAN
    /\ Troubles \subseteq {"fail", "regress"}

VARIABLES
    row,      \* the scheduler's view of the ManagedTorrent rows
    qb,       \* the torrents in qBittorrent
    lease,    \* lease_owner, and whether lease_expires_at is in the future
    decided,  \* who decided desired_generation
    cycle,    \* where each scheduler is in run_once, and what it captured
    resume    \* torrents an administrator's request is about to start

vars == <<row, qb, lease, decided, cycle, resume>>

\* "GONE": no row, or PURGED; "OUT": PENDING, ADDING or RETRY_WAIT;
\* "CONTROLLED": DOWNLOADING or PAUSED, the states _load_control_set reads
States == {"GONE", "OUT", "CONTROLLED", "READY", "ERROR", "PURGE_PENDING", "PURGING"}

\* held: somebody has an active right; while nobody has, purge_after is set.
Row == [state : States, held : BOOLEAN, desired : BOOLEAN, forced : BOOLEAN, stop : BOOLEAN]
GoneRow == [state |-> "GONE", held |-> FALSE, desired |-> FALSE, forced |-> FALSE, stop |-> FALSE]

\* stops, run, halt: the controls still to apply; start: what the gateway
\* found stopped and is about to start; purges, errors, orphans: the captured
\* stops that the second transaction may acknowledge; failed: stop_error
Cycle == [pc : {"idle", "renew1", "stops", "renew2", "controls", "starts", "commit"},
          stops : SUBSET Torrent, run : SUBSET Torrent, halt : SUBSET Torrent,
          start : SUBSET Torrent, purges : SUBSET Torrent, errors : SUBSET Torrent,
          orphans : SUBSET Torrent, failed : BOOLEAN]
Idle == [pc |-> "idle", stops |-> {}, run |-> {}, halt |-> {}, start |-> {},
         purges |-> {}, errors |-> {}, orphans |-> {}, failed |-> FALSE]

TypeOK ==
    /\ row \in [Torrent -> Row]
    /\ qb \in [Torrent -> {"absent", "stopped", "running"}]
    /\ lease \in [owner : Scheduler \cup {NoScheduler}, live : BOOLEAN]
    /\ decided \in Scheduler \cup {NoScheduler}
    /\ cycle \in [Scheduler -> Cycle]
    /\ resume \in SUBSET Torrent

Init ==
    /\ row = [t \in Torrent |-> GoneRow]
    /\ qb = [t \in Torrent |-> "absent"]
    /\ lease = [owner |-> NoScheduler, live |-> FALSE]
    /\ decided = NoScheduler
    /\ cycle = [s \in Scheduler |-> Idle]
    /\ resume = {}

-----------------------------------------------------------------------------
(* One cycle                                                               *)

\* _load_purge_stops
PurgeStops == {t \in Torrent : row[t].state = "PURGE_PENDING" /\ row[t].stop}
\* _load_error_stops
ErrorStops == {t \in Torrent : row[t].state = "ERROR" /\ (row[t].desired \/ row[t].forced)}
\* _load_control_set
ControlSet == {t \in Torrent : row[t].state = "CONTROLLED"}
Forced == {t \in ControlSet : row[t].forced /\ ~row[t].stop}
Schedulable == ControlSet \ Forced

\* Mutated form: the lease of another scheduler is taken over while it lives.
MayAcquireAnyway(s) == lease.owner \in Scheduler \cup {NoScheduler}

\* acquire_scheduler_lease
MayAcquire(s) == lease.owner \in {s, NoScheduler} \/ ~lease.live
HeldBy(s) == [owner |-> s, live |-> TRUE]

\* What _scheduler_candidates and select_with_continuity may choose
MaySelect(R) ==
    /\ \A t \in R : row[t].held
    /\ R = {} \/ Cardinality(R) + Cardinality(Forced) <= Capacity

\* The stops owed to forced torrents whose last right is gone
OrphanStops(R) == {t \in Schedulable \ R : row[t].forced /\ row[t].stop}

\* Mutated form: torrents that failed while running are not stopped.
DecidePurgesOnly(s, R) ==
    /\ cycle[s].pc = "idle" /\ MayAcquire(s)
    /\ R \subseteq Schedulable /\ MaySelect(R)
    /\ lease' = HeldBy(s)
    /\ decided' = s
    /\ row' = [t \in Torrent |-> IF t \in Schedulable THEN [row[t] EXCEPT !.desired = t \in R]
                                 ELSE row[t]]
    /\ cycle' = [cycle EXCEPT ![s] =
                   [pc |-> "renew1", stops |-> PurgeStops,
                    run |-> Forced \cup R, halt |-> Schedulable \ R, start |-> {},
                    purges |-> PurgeStops, errors |-> ErrorStops,
                    orphans |-> OrphanStops(R), failed |-> FALSE]]
    /\ UNCHANGED <<qb, resume>>

\* run_once, first transaction: take the lease, load, select and persist the
\* desired controls; what is to be applied and acknowledged is captured.
Decide(s, R) ==
    /\ cycle[s].pc = "idle" /\ MayAcquire(s)
    /\ R \subseteq Schedulable /\ MaySelect(R)
    /\ lease' = HeldBy(s)
    /\ decided' = s
    /\ row' = [t \in Torrent |-> IF t \in Schedulable THEN [row[t] EXCEPT !.desired = t \in R]
                                 ELSE row[t]]
    /\ cycle' = [cycle EXCEPT ![s] =
                   [pc |-> "renew1", stops |-> PurgeStops \cup ErrorStops,
                    run |-> Forced \cup R, halt |-> Schedulable \ R, start |-> {},
                    purges |-> PurgeStops, errors |-> ErrorStops,
                    orphans |-> OrphanStops(R), failed |-> FALSE]]
    /\ UNCHANGED <<qb, resume>>

\* Where the cycle goes once the stops are applied
AfterStops(c, next) == IF c.run \cup c.halt # {} THEN next ELSE "commit"

\* _renew_lease before and between the two application phases; when another
\* scheduler has taken the lease the cycle is given up.
Renew(s) ==
    LET c == cycle[s] IN
    /\ c.pc \in {"renew1", "renew2"}
    /\ IF MayAcquire(s)
       THEN /\ lease' = HeldBy(s)
            /\ cycle' = [cycle EXCEPT ![s].pc =
                           IF c.pc = "renew2" THEN "controls"
                           ELSE IF c.stops # {} THEN "stops"
                           ELSE AfterStops(c, "controls")]
       ELSE /\ cycle' = [cycle EXCEPT ![s] = Idle]
            /\ UNCHANGED lease
    /\ UNCHANGED <<row, qb, decided, resume>>

\* The stop and the start call of apply_managed_controls: what is not there,
\* not WOS's or without a route is skipped.
Stopped(T) == [t \in Torrent |-> IF t \in T \ Unreachable /\ qb[t] = "running" THEN "stopped"
                                 ELSE qb[t]]
Started(T) == [t \in Torrent |-> IF t \in T \ Unreachable /\ qb[t] = "stopped" THEN "running"
                                 ELSE qb[t]]

\* Mutated form: one skipped torrent fails the whole batch.
StopsAppliedToAll(s) ==
    LET c == cycle[s] IN
    /\ c.pc = "stops" /\ c.stops \cap Unreachable = {}
    /\ qb' = Stopped(c.stops)
    /\ cycle' = [cycle EXCEPT ![s] = [@ EXCEPT !.pc = AfterStops(c, "renew2"), !.stops = {}]]
    /\ UNCHANGED <<row, lease, decided, resume>>

\* The stops owed to purges and to failed torrents are applied.
StopsApplied(s) ==
    LET c == cycle[s] IN
    /\ c.pc = "stops"
    /\ qb' = Stopped(c.stops)
    /\ cycle' = [cycle EXCEPT ![s] = [@ EXCEPT !.pc = AfterStops(c, "renew2"), !.stops = {}]]
    /\ UNCHANGED <<row, lease, decided, resume>>

\* The gateway fails after stopping some of them: the failure is kept and
\* the schedule still applied.
StopsFail(s) ==
    LET c == cycle[s] IN
    /\ c.pc = "stops"
    /\ \E T \in SUBSET c.stops : qb' = Stopped(T)
    /\ cycle' = [cycle EXCEPT ![s] = [@ EXCEPT !.pc = AfterStops(c, "renew2"), !.stops = {},
                                               !.failed = TRUE]]
    /\ UNCHANGED <<row, lease, decided, resume>>

\* Mutated form: the chosen torrents are started before the others stop.
ControlsStopLate(s) ==
    LET c == cycle[s] IN
    /\ c.pc = "controls"
    /\ qb' = Started(c.run)
    /\ cycle' = [cycle EXCEPT ![s] = [@ EXCEPT !.pc = "starts", !.run = {}]]
    /\ UNCHANGED <<row, lease, decided, resume>>

\* apply_managed_controls on the schedule: the lookup, then the call that
\* stops everything that was not chosen.
ControlsStop(s) ==
    LET c == cycle[s] IN
    /\ c.pc = "controls"
    /\ qb' = Stopped(c.halt)
    /\ cycle' = [cycle EXCEPT ![s] =
                   [@ EXCEPT !.pc = "starts", !.run = {}, !.halt = {},
                             !.start = {t \in c.run : qb[t] = "stopped"}]]
    /\ UNCHANGED <<row, lease, decided, resume>>

\* The call that starts what the lookup found stopped
ControlsStart(s) ==
    LET c == cycle[s] IN
    /\ c.pc = "starts"
    /\ qb' = Started(c.start)
    /\ cycle' = [cycle EXCEPT ![s] = [@ EXCEPT !.pc = "commit", !.start = {}]]
    /\ UNCHANGED <<row, lease, decided, resume>>

\* The gateway fails in the schedule, having stopped or started some of the
\* torrents: nothing is acknowledged.
ControlsFail(s) ==
    LET c == cycle[s] IN
    /\ \/ c.pc = "controls" /\ \E T \in SUBSET c.halt : qb' = Stopped(T)
       \/ c.pc = "starts" /\ \E T \in SUBSET c.start : qb' = Started(T)
    /\ cycle' = [cycle EXCEPT ![s] = Idle]
    /\ UNCHANGED <<row, lease, decided, resume>>

\* Mutated form: stops that failed are acknowledged too.
AcknowledgedAnyway(t, c) ==
    LET r == row[t] IN
    CASE t \in c.purges /\ r.state = "PURGE_PENDING" /\ r.stop -> [r EXCEPT !.stop = FALSE]
      [] t \in c.errors /\ r.state = "ERROR" /\ ~c.failed ->
            [r EXCEPT !.desired = FALSE, !.forced = FALSE]
      [] t \in c.orphans /\ r.stop /\ ~r.desired -> [r EXCEPT !.stop = FALSE, !.forced = FALSE]
      [] OTHER -> r

\* What the second transaction makes of a torrent whose stop was captured.  A
\* torrent is captured as one of the three only: their states exclude each
\* other, and purge_torrent increments the generation.
Acknowledged(t, c) ==
    LET r == row[t] IN
    CASE t \in c.purges /\ r.state = "PURGE_PENDING" /\ r.stop /\ ~c.failed ->
            [r EXCEPT !.stop = FALSE]
      [] t \in c.errors /\ r.state = "ERROR" /\ ~c.failed ->
            [r EXCEPT !.desired = FALSE, !.forced = FALSE]
      [] t \in c.orphans /\ r.stop /\ ~r.desired -> [r EXCEPT !.stop = FALSE, !.forced = FALSE]
      [] OTHER -> r

\* run_once, second transaction, and the exception it ends with when the
\* lease or the desired generation changed hands
Commit(s) ==
    /\ cycle[s].pc = "commit"
    /\ row' = IF lease.owner = s /\ decided = s
              THEN [t \in Torrent |-> Acknowledged(t, cycle[s])] ELSE row
    /\ cycle' = [cycle EXCEPT ![s] = Idle]
    /\ UNCHANGED <<qb, lease, decided, resume>>

\* The database is unavailable, or the process dies; the lease stays.
CycleFails(s) ==
    /\ cycle[s] # Idle
    /\ cycle' = [cycle EXCEPT ![s] = Idle]
    /\ UNCHANGED <<row, qb, lease, decided, resume>>

\* run(), between two cycles: the lease is renewed, or taken if it is free.
KeepLease(s) ==
    /\ cycle[s] = Idle /\ MayAcquire(s)
    /\ lease' = HeldBy(s)
    /\ UNCHANGED <<row, qb, decided, cycle, resume>>

\* release_scheduler_lease, when run() is told to stop
Release(s) ==
    /\ cycle[s] = Idle /\ lease.owner = s
    /\ lease' = [owner |-> NoScheduler, live |-> FALSE]
    /\ UNCHANGED <<row, qb, decided, cycle, resume>>

\* The lease is not renewed in time: its owner is gone or waits too long or,
\* with Overrun, applies its controls too slowly.
LeaseExpires ==
    /\ lease.live
    /\ Overrun \/ cycle[lease.owner] = Idle
    /\ lease' = [lease EXCEPT !.live = FALSE]
    /\ UNCHANGED <<row, qb, decided, cycle, resume>>

-----------------------------------------------------------------------------
(* What the others do to the torrents                                      *)

\* Mutated form: the generation captured for a forced torrent is not compared.
BumpKeepsOrphans(t) ==
    cycle' = [s \in Scheduler |-> [cycle[s] EXCEPT !.purges = @ \ {t}, !.errors = @ \ {t}]]

\* lifecycle_generation += 1
Bump(t) ==
    cycle' = [s \in Scheduler |-> [cycle[s] EXCEPT !.purges = @ \ {t}, !.errors = @ \ {t},
                                                   !.orphans = @ \ {t}]]
Write(t, r) == row' = [row EXCEPT ![t] = r]
Quiet(r) == [r EXCEPT !.desired = FALSE, !.forced = FALSE]

\* create_torrent_request on a new or purged infohash
Created(t) ==
    /\ row[t].state = "GONE"
    /\ Write(t, [row[t] EXCEPT !.state = "OUT", !.held = TRUE])
    /\ UNCHANGED <<qb, lease, decided, cycle, resume>>

\* add_torrent adds it to qBittorrent, stopped, and hands it to the scheduler.
Added(t) ==
    /\ row[t].state = "OUT"
    /\ qb' = [qb EXCEPT ![t] = IF @ = "absent" THEN "stopped" ELSE @]
    /\ Write(t, [row[t] EXCEPT !.state = "CONTROLLED"])
    /\ UNCHANGED <<lease, decided, cycle, resume>>

\* _persist_snapshot, and the failure of a job that sets ERROR: desired_active
\* and admin_forced_active survive everything but READY.
Observed(t, state) ==
    /\ row[t].state \in {"OUT", "CONTROLLED", "READY", "ERROR"} \ {state}
    /\ \/ row[t].state = "CONTROLLED" /\ state = "READY"
       \/ "fail" \in Troubles /\ state = "ERROR"
       \/ "regress" \in Troubles /\ row[t].state # "CONTROLLED"
    /\ state \in {"CONTROLLED", "READY"} => qb[t] # "absent"
    /\ Write(t, [IF state = "READY" THEN Quiet(row[t]) ELSE row[t] EXCEPT !.state = state])
    /\ UNCHANGED <<qb, lease, decided, cycle, resume>>

\* retry_torrent_request: observed again, or added again; which of the two
\* depends on its latest job (TorrentLifecycle), not kept here.
RetryResync(t) ==
    /\ row[t].state = "ERROR" /\ row[t].held
    /\ Write(t, [Quiet(row[t]) EXCEPT !.state = "CONTROLLED"])
    /\ UNCHANGED <<qb, lease, decided, cycle, resume>>

RetryAdd(t) ==
    /\ row[t].state = "ERROR" /\ row[t].held
    /\ Write(t, [Quiet(row[t]) EXCEPT !.state = "OUT"])
    /\ Bump(t)
    /\ UNCHANGED <<qb, lease, decided, resume>>

\* The last right is cancelled or expires (_schedule_deferred_purge).
Orphaned(t) ==
    /\ row[t].held
    /\ Overrun \/ t \notin resume
    /\ Write(t, [row[t] EXCEPT !.held = FALSE, !.stop = @ \/ row[t].forced])
    /\ Bump(t)
    /\ UNCHANGED <<qb, lease, decided, resume>>

\* create_or_get_torrent_request withdraws the scheduled purge.
Joined(t) ==
    /\ row[t].state \in {"OUT", "CONTROLLED", "READY", "ERROR"} /\ ~row[t].held
    /\ Write(t, [row[t] EXCEPT !.held = TRUE, !.forced = FALSE, !.stop = FALSE])
    /\ Bump(t)
    /\ UNCHANGED <<qb, lease, decided, resume>>

\* force_resume_admin_torrent.  Only when nobody holds the torrent and its
\* purge job is over does it schedule another and increment the generation.
ForceResume(t, reschedules) ==
    /\ Admin /\ row[t].state = "CONTROLLED"
    /\ Write(t, [row[t] EXCEPT !.forced = TRUE, !.stop = FALSE])
    /\ resume' = resume \cup {t}
    /\ IF reschedules THEN ~row[t].held /\ Bump(t) ELSE UNCHANGED cycle
    /\ UNCHANGED <<qb, lease, decided>>

\* After it, the route starts the torrent itself, or fails to.
ResumeArrives(t) ==
    /\ t \in resume
    /\ qb' \in {qb, Started({t})}
    /\ resume' = resume \ {t}
    /\ UNCHANGED <<row, lease, decided, cycle>>

\* schedule_admin_purge
AdminPurge(t) ==
    /\ Admin /\ row[t].state # "GONE"
    /\ Write(t, [row[t] EXCEPT !.held = FALSE, !.forced = FALSE])
    /\ Bump(t)
    /\ UNCHANGED <<qb, lease, decided, resume>>

\* purge_torrent: the retention is over, the scheduler is asked to stop the
\* torrent.
PurgeActivates(t) ==
    /\ row[t].state \in {"OUT", "CONTROLLED", "READY", "ERROR"} /\ ~row[t].held
    /\ Overrun \/ t \notin resume
    /\ Write(t, [Quiet(row[t]) EXCEPT !.state = "PURGE_PENDING", !.stop = TRUE])
    /\ Bump(t)
    /\ UNCHANGED <<qb, lease, decided, resume>>

\* purge_torrent once the stop is acknowledged
PurgeBegins(t) ==
    /\ row[t].state = "PURGE_PENDING" /\ ~row[t].stop
    /\ Write(t, [row[t] EXCEPT !.state = "PURGING"])
    /\ UNCHANGED <<qb, lease, decided, cycle, resume>>

\* remove_managed_torrent
PurgeRemoves(t) ==
    /\ row[t].state = "PURGING" /\ qb[t] # "absent"
    /\ qb' = [qb EXCEPT ![t] = "absent"]
    /\ UNCHANGED <<row, lease, decided, cycle, resume>>

\* purge_torrent, last transaction
PurgeCommits(t) ==
    /\ row[t].state = "PURGING" /\ qb[t] = "absent"
    /\ Write(t, GoneRow)
    /\ UNCHANGED <<qb, lease, decided, cycle, resume>>

-----------------------------------------------------------------------------
CycleStep(s) ==
    \/ \E R \in SUBSET Torrent : Decide(s, R)
    \/ Renew(s)
    \/ StopsApplied(s)
    \/ StopsFail(s)
    \/ ControlsStop(s)
    \/ ControlsStart(s)
    \/ ControlsFail(s)
    \/ Commit(s)
    \/ CycleFails(s)
    \/ KeepLease(s)
    \/ Release(s)

TorrentStep(t) ==
    \/ Created(t)
    \/ Added(t)
    \/ \E state \in {"CONTROLLED", "READY", "ERROR"} : Observed(t, state)
    \/ RetryResync(t)
    \/ RetryAdd(t)
    \/ Orphaned(t)
    \/ Joined(t)
    \/ \E reschedules \in BOOLEAN : ForceResume(t, reschedules)
    \/ ResumeArrives(t)
    \/ AdminPurge(t)
    \/ PurgeActivates(t)
    \/ PurgeBegins(t)
    \/ PurgeRemoves(t)
    \/ PurgeCommits(t)

Next ==
    \/ \E s \in Scheduler : CycleStep(s)
    \/ LeaseExpires
    \/ \E t \in Torrent : TorrentStep(t)

Spec == Init /\ [][Next]_vars

\* The cycle goes on: no call and no transaction hangs for ever.
Proceeds(s) ==
    \/ Renew(s)
    \/ StopsApplied(s) \/ StopsFail(s)
    \/ ControlsStop(s) \/ ControlsStart(s) \/ ControlsFail(s)
    \/ Commit(s)

\* A scheduler polls for ever and an unrenewed lease expires.  qBittorrent and
\* the database may fail again and again, but not always at the same phase of
\* a cycle that had no failure before: outages end.
Fairness ==
    /\ WF_vars(LeaseExpires)
    /\ WF_vars(\E s \in Scheduler, R \in SUBSET Torrent : Decide(s, R))
    /\ \A s \in Scheduler : WF_vars(Proceeds(s))
    /\ SF_vars(\E s \in Scheduler : cycle[s].pc = "renew1" /\ Renew(s))
    /\ SF_vars(\E s \in Scheduler : StopsApplied(s))
    /\ SF_vars(\E s \in Scheduler : cycle[s].pc = "renew2" /\ ~cycle[s].failed /\ Renew(s))
    /\ SF_vars(\E s \in Scheduler : ~cycle[s].failed /\ ControlsStop(s))
    /\ SF_vars(\E s \in Scheduler : ~cycle[s].failed /\ ControlsStart(s))
    /\ SF_vars(\E s \in Scheduler : ~cycle[s].failed /\ Commit(s))

FairSpec == Spec /\ Fairness

-----------------------------------------------------------------------------
(* Properties                                                              *)

\* The stop owed to the purge was acknowledged, or the deletion has begun.
Silenced(t) ==
    \/ row[t].state = "PURGE_PENDING" /\ ~row[t].stop
    \/ row[t].state = "PURGING"

\* Content is deleted only under a torrent that is stopped: whatever was being
\* started, resumed, retried or purged while the scheduler applied its
\* controls, an acknowledged purge stop means that qBittorrent does not run
\* the torrent, and nothing starts it again before it is removed.
StoppedBeforePurge == \A t \in Torrent \ Unreachable : Silenced(t) => qb[t] # "running"

\* The inductive invariant behind it.  Without Overrun a scheduler at work
\* holds the lease, so it is alone.
Leader ==
    ~Overrun => \A s \in Scheduler :
        cycle[s] # Idle => lease.owner = s /\ lease.live

\* An idle scheduler has nothing left to apply or to acknowledge.
IdleIsIdle == \A s \in Scheduler : cycle[s].pc = "idle" => cycle[s] = Idle

\* No resume is under way for a torrent that is being purged.
NoResume(t) == row[t].state \in {"PURGE_PENDING", "PURGING"} => t \notin resume

\* A purge outdates the stop captured for a forced torrent, which would
\* otherwise be acknowledged in the place of the purge's own.
OrphansOutdated ==
    \A s \in Scheduler, t \in Torrent :
        row[t].state = "PURGE_PENDING" => t \notin cycle[s].orphans

\* A stop owed to a purge is still to be applied, has failed, or has worked;
\* and the cycle that owes it does not start the torrent.
StopOwed(s, t) ==
    /\ t \notin cycle[s].run \cup cycle[s].start
    /\ cycle[s].pc \in {"renew1", "stops"} => t \in cycle[s].stops
    /\ cycle[s].pc \in {"renew2", "controls", "starts", "commit"} =>
         cycle[s].failed \/ qb[t] # "running"

PurgeFenced(t) ==
    /\ NoResume(t)
    /\ Silenced(t) =>
         qb[t] # "running" /\ \A s \in Scheduler : t \notin cycle[s].run \cup cycle[s].start
    /\ row[t].state = "PURGE_PENDING" =>
         \A s \in Scheduler : t \in cycle[s].purges => StopOwed(s, t)

SchedulerInv ==
    /\ TypeOK
    /\ Leader
    /\ IdleIsIdle
    /\ OrphansOutdated
    /\ ~Overrun => \A t \in Torrent \ Unreachable : PurgeFenced(t)

\* The torrents the scheduler controls never use more slots than there are,
\* through failed calls, crashes between two calls and changes of leader.
\* (No torrent fails and no administrator forces one; one qBittorrent.)
WithinSlots ==
    Cardinality({t \in Torrent : row[t].state = "CONTROLLED" /\ qb[t] = "running"}) <= Capacity

\* The marker of a forced torrent that lost its last owner is withdrawn by the
\* scheduler only when the torrent is stopped, or about to be started by a
\* later resume: an acknowledgement never silently drops a newer resume.
OrphanStopHonoured ==
    [][\A s \in Scheduler, t \in Torrent \ Unreachable :
          /\ Commit(s)
          /\ row[t].state = "CONTROLLED" /\ row[t].forced /\ ~row'[t].forced
          => qb[t] # "running"]_vars

\* Every stop owed to a purge is acknowledged, so purges proceed, even though
\* the gateway skips some torrents and calls fail: a torrent that cannot be
\* reached freezes neither its own purge nor that of the others.
StopAcknowledged ==
    \A t \in Torrent : t \in PurgeStops ~> t \notin PurgeStops

\* A torrent that fails while it should run is stopped, or leaves ERROR.
FailedIsStopped ==
    \A t \in Torrent \ Unreachable :
        t \in ErrorStops ~> row[t].state # "ERROR" \/ qb[t] # "running"

\* The comment of _load_error_stops: a torrent that leaves DOWNLOADING or
\* PAUSED for ERROR while it runs is told to stop, instead of downloading
\* outside every slot.  Some scheduler therefore has to know of it: by the
\* row's markers, or by the controls it is about to apply.
FailedIsKnown ==
    [][\A t \in Torrent \ Unreachable :
          /\ row[t].state = "CONTROLLED" /\ row'[t].state = "ERROR"
          /\ qb[t] = "running"
          => \/ row'[t].desired \/ row'[t].forced
             \/ \E s \in Scheduler : t \in cycle[s].stops \cup cycle[s].halt]_vars

\* The names of schedulers and torrents mean nothing (for TLC).
Interchangeable == Permutations(Scheduler) \cup Permutations(Torrent)

=============================================================================
