----------------------- MODULE TorrentLifecycleProofs -----------------------
(***************************************************************************)
(* LifecycleInv is inductive: proved for any number of users, jobs and     *)
(* execution slots, any sizes, with or without stalled executions and      *)
(* operator recoveries.  The safety invariants of TorrentLifecycle are its *)
(* conjuncts.                                                              *)
(*                                                                         *)
(* Most steps leave the jobs in order (JobsSettle) and let the executions  *)
(* go on (ExecContinues); what that preserves is proved once, in           *)
(* SettledJobs.  The exceptions are the steps that insert, claim, finish   *)
(* or recover a job.                                                       *)
(***************************************************************************)
EXTENDS TorrentLifecycle, TLAPS

\* No ADD or SYNC job becomes active or loses its cancellation, no running
\* job stops running.
JobsSettle ==
    /\ job' \in [Job -> Row]
    /\ \A j \in Job : job[j].state = "RUNNING" => job'[j].state = "RUNNING"
    /\ \A j \in Job : job'[j].state = "QUEUED" => ~job'[j].cancel
    /\ \A j \in AddJob \cup SyncJob : job'[j].state \in Active =>
          job[j].state \in Active /\ (job[j].cancel => job'[j].cancel)

\* Every execution keeps its job and its claim.
ExecContinues ==
    /\ exec' \in [Slot -> Execution]
    /\ \A s \in Slot : /\ exec'[s].job = exec[s].job
                       /\ exec'[s].own = exec[s].own
                       /\ exec[s].job \in PurgeJob =>
                            exec'[s].arg \notin {"permanent_error", "retry_wait"}

\* What JobsSettle and ExecContinues preserve
LEMMA SettledJobs ==
  ASSUME LifecycleInv, JobsSettle, ExecContinues
  PROVE  /\ Ownership' /\ PurgeOutcomes' /\ QueuedNotCancelled' /\ OneAddInCharge'
         /\ (\/ torrent.state \in Purging \cup {"PURGED"}
             \/ torrent'.state \notin Purging \cup {"PURGED"}) => PurgeSilencesJobs'
<1>1. Ownership' /\ PurgeOutcomes'
  BY DEF JobsSettle, ExecContinues, LifecycleInv, Ownership, PurgeOutcomes
<1>2. QueuedNotCancelled'
  BY DEF JobsSettle, QueuedNotCancelled
<1>3. OneAddInCharge'
  BY DEF JobsSettle, OneAddInCharge, ActiveJobs, LifecycleInv, Job
<1>4. ASSUME \/ torrent.state \in Purging \cup {"PURGED"}
             \/ torrent'.state \notin Purging \cup {"PURGED"}
      PROVE  PurgeSilencesJobs'
  BY <1>4 DEF JobsSettle, PurgeSilencesJobs, ActiveJobs, LifecycleInv, Job
<1>. QED
  BY <1>1, <1>2, <1>3, <1>4

\* The ways a step leaves the jobs in order
LEMMA JobsKept ==
  ASSUME LifecycleInv, job' = job PROVE JobsSettle
BY DEF JobsSettle, LifecycleInv, TypeOK, QueuedNotCancelled, Job

LEMMA JobsCancelled ==
  ASSUME LifecycleInv, NEW J \in SUBSET Job, job' = CancelJobs(J)
  PROVE  /\ JobsSettle
         /\ \A j \in J : job'[j].state \in Active => job'[j].cancel
<1>1. \A j \in Job : Ended(j, "CANCELLED") \in Row /\ Ended(j, "CANCELLED").state \notin Active
  BY DEF Ended, FreeRow, Row, JobStates, Active
<1>2. job' \in [Job -> Row]
  BY <1>1 DEF CancelJobs, Cancelled, LifecycleInv, TypeOK, Row
<1>3. \A j \in Job : job'[j] = IF j \in J THEN Cancelled(j) ELSE job[j]
  BY DEF CancelJobs
<1>4. \A j \in Job : job[j].state = "RUNNING" => Cancelled(j) = [job[j] EXCEPT !.cancel = TRUE]
  BY DEF Cancelled
<1>5. \A j \in Job : job[j].state = "RUNNING" => Cancelled(j).state = "RUNNING" /\ Cancelled(j).cancel
  BY <1>4 DEF LifecycleInv, TypeOK, Row
<1>6. \A j \in Job : job[j].state # "RUNNING" => Cancelled(j).state \notin Active
  BY <1>1 DEF Cancelled, Active
<1>. QED
  BY <1>2, <1>3, <1>5, <1>6 DEF JobsSettle, LifecycleInv, TypeOK, QueuedNotCancelled, Job, Active

LEMMA PurgeInserted ==
  ASSUME LifecycleInv, NEW j \in Fresh(PurgeJob), Insert(j) PROVE JobsSettle
BY LifecycleAssumption DEF JobsSettle, Insert, Fresh, QueuedRow, Row, JobStates, Active, Job,
   LifecycleInv, TypeOK, QueuedNotCancelled

LEMMA PurgeUncancelled ==
  ASSUME LifecycleInv, NEW j \in PurgeJob, job' = [job EXCEPT ![j].cancel = FALSE]
  PROVE  JobsSettle
BY LifecycleAssumption DEF JobsSettle, Row, Active, Job, LifecycleInv, TypeOK, QueuedNotCancelled

\* The ways a step lets the executions go on
LEMMA ExecKept ==
  ASSUME LifecycleInv, exec' = exec PROVE ExecContinues
BY DEF ExecContinues, LifecycleInv, TypeOK, PurgeOutcomes

LEMMA ExecGoes ==
  ASSUME LifecycleInv, NEW s \in Slot, NEW pc \in {"effect1", "effect2", "commit"}, Goto(s, pc)
  PROVE  ExecContinues
BY DEF ExecContinues, Goto, LifecycleInv, TypeOK, PurgeOutcomes, Execution

LEMMA ExecEnds ==
  ASSUME LifecycleInv, NEW s \in Slot, NEW o \in Outcomes, Ends(s, o),
         exec[s].job \in PurgeJob => o \notin {"permanent_error", "retry_wait"}
  PROVE  ExecContinues
<1> DEFINE e == [exec[s] EXCEPT !.pc = "end", !.arg = o]
<1>1. /\ e \in Execution
      /\ e.job = exec[s].job /\ e.own = exec[s].own /\ e.arg = o
  BY DEF LifecycleInv, TypeOK, Execution
<1>2. exec' = [exec EXCEPT ![s] = e]
  BY DEF Ends
<1>. HIDE DEF e
<1>. QED
  BY <1>1, <1>2 DEF ExecContinues, LifecycleInv, TypeOK, PurgeOutcomes

\* An execution has a torrent.
LEMMA Standing ==
  ASSUME LifecycleInv, NEW s \in Slot, exec[s].job \in Job
  PROVE  torrent.state # "ABSENT"
BY LifecycleAssumption DEF LifecycleInv, NothingBefore, Idle

\* Steps of a handler that change no row
LEMMA HandlerStep ==
  ASSUME LifecycleInv, NEW s \in Slot, exec[s].job \in Job, ExecContinues, UNCHANGED rows,
         (abandoned \in BOOLEAN)', (qb \in {"absent", "partial", "complete"})',
         (content \in BOOLEAN)'
  PROVE  LifecycleInv'
<1>1. JobsSettle
  BY JobsKept DEF rows
<1>2. /\ Ownership' /\ PurgeOutcomes' /\ QueuedNotCancelled' /\ OneAddInCharge'
      /\ PurgeSilencesJobs'
  BY <1>1, SettledJobs DEF rows
<1>3. TypeOK'
  BY DEF rows, LifecycleInv, TypeOK, ExecContinues
<1>4. NothingBefore'
  BY Standing DEF rows, NothingBefore
<1>5. /\ PurgeIsDue' /\ LifecycleCheck' /\ PurgeHasNoHolder' /\ LeaseBlocksPurge'
      /\ Accounted' /\ ReadyForAll' /\ (Operator \/ OrphanHasDeadline)'
  BY DEF rows, LifecycleInv, PurgeIsDue, LifecycleCheck, PurgeHasNoHolder, LeaseBlocksPurge,
     Accounted, ReadyForAll, OrphanHasDeadline, Holders, Leased
<1>. QED
  BY <1>2, <1>3, <1>4, <1>5 DEF LifecycleInv

LEMMA HandlerFailsInv ==
  ASSUME LifecycleInv, NEW s \in Slot, HandlerFails(s) PROVE LifecycleInv'
<1>1. ExecContinues /\ exec[s].job \in Job
  BY ExecEnds DEF HandlerFails, Outcomes, At
<1>. QED
  BY <1>1, HandlerStep DEF HandlerFails, physical, LifecycleInv, TypeOK

LEMMA AddIntegrateInv ==
  ASSUME LifecycleInv, NEW s \in Slot, AddIntegrate(s) PROVE LifecycleInv'
<1>1. exec[s].job \in Job /\ exec[s].job \notin PurgeJob
  BY LifecycleAssumption DEF AddIntegrate, At, Job
<1>2. ExecContinues
  BY <1>1, ExecGoes, ExecEnds DEF AddIntegrate, Outcomes
<1>. QED
  BY <1>1, <1>2, HandlerStep DEF AddIntegrate, InQb, physical, LifecycleInv, TypeOK

LEMMA SyncStartInv ==
  ASSUME LifecycleInv, NEW s \in Slot, SyncStart(s) PROVE LifecycleInv'
<1>1. exec[s].job \in Job
  BY DEF SyncStart, At, Job
<1>2. ExecContinues
  BY ExecGoes, ExecEnds DEF SyncStart, Outcomes
<1>. QED
  BY <1>1, <1>2, HandlerStep DEF SyncStart, physical, LifecycleInv, TypeOK

LEMMA SyncInspectInv ==
  ASSUME LifecycleInv, NEW s \in Slot, SyncInspect(s) PROVE LifecycleInv'
<1>1. exec[s].job \in Job /\ exec[s].job \notin PurgeJob
  BY LifecycleAssumption DEF SyncInspect, At, Job
<1>2. ExecContinues
  <2>1. CASE \E o \in {"transient", "permanent_error"} : Ends(s, o)
    BY <1>1, <2>1, ExecEnds DEF Outcomes
  <2>2. ASSUME NEW seen \in Seen,
               exec' = [exec EXCEPT ![s] = [@ EXCEPT !.pc = "commit", !.arg = seen]]
        PROVE  ExecContinues
    <3> DEFINE e == [exec[s] EXCEPT !.pc = "commit", !.arg = seen]
    <3>1. e \in Execution /\ e.job = exec[s].job /\ e.own = exec[s].own
      BY DEF LifecycleInv, TypeOK, Execution
    <3>2. exec' = [exec EXCEPT ![s] = e]
      BY <2>2
    <3>. HIDE DEF e
    <3>. QED
      BY <1>1, <3>1, <3>2 DEF ExecContinues, LifecycleInv, TypeOK, PurgeOutcomes
  <2>. QED
    BY <2>1, <2>2 DEF SyncInspect, Seen
<1>. QED
  BY <1>1, <1>2, HandlerStep DEF SyncInspect, physical, LifecycleInv, TypeOK

LEMMA PurgeEffectsInv ==
  ASSUME LifecycleInv, NEW s \in Slot,
         PurgeNotNeeded(s) \/ PurgeWaits(s) \/ PurgeRemove(s) \/ PurgeDelete(s)
  PROVE  LifecycleInv'
<1>1. exec[s].job \in Job
  BY DEF PurgeNotNeeded, PurgeWaits, PurgeRemove, PurgeDelete, At, Job
<1>2. ExecContinues
  BY ExecGoes, ExecEnds DEF PurgeNotNeeded, PurgeWaits, PurgeRemove, PurgeDelete, Outcomes
<1>. QED
  BY <1>1, <1>2, HandlerStep
  DEF PurgeNotNeeded, PurgeWaits, PurgeRemove, PurgeDelete, physical, LifecycleInv, TypeOK

-----------------------------------------------------------------------------
(* Steps of a handler that decide the torrent's state                      *)

\* A step that only replaces the state of a torrent that is not being purged
LEMMA StateStep ==
  ASSUME LifecycleInv,
         torrent.state \notin Purging \cup {"ABSENT", "PURGED"},
         NEW state \in {"ADDING", "RETRY_WAIT", "PAUSED", "ERROR"},
         torrent' = [torrent EXCEPT !.state = state],
         UNCHANGED <<rights, latest, physical>>, (abandoned \in BOOLEAN)'
  PROVE  /\ ExecContinues /\ JobsSettle => LifecycleInv'
         /\ NothingBefore' /\ PurgeIsDue' /\ LifecycleCheck' /\ PurgeHasNoHolder'
         /\ LeaseBlocksPurge' /\ PurgeSilencesJobs' /\ ReadyForAll' /\ Accounted'
         /\ (Operator \/ OrphanHasDeadline)'
         /\ (torrent \in Torrent)'
<1>1. torrent' \in Torrent /\ torrent'.state = state /\ torrent'.purge = torrent.purge
  BY DEF LifecycleInv, TypeOK, Torrent, States
<1>2. /\ NothingBefore' /\ PurgeIsDue' /\ LifecycleCheck' /\ PurgeHasNoHolder'
      /\ LeaseBlocksPurge' /\ PurgeSilencesJobs' /\ ReadyForAll'
  BY <1>1 DEF NothingBefore, PurgeIsDue, LifecycleCheck, PurgeHasNoHolder, LeaseBlocksPurge,
     PurgeSilencesJobs, ReadyForAll, Purging
<1>3. Accounted' /\ (Operator \/ OrphanHasDeadline)'
  BY <1>1 DEF rights, LifecycleInv, Accounted, OrphanHasDeadline, Holders
<1>4. ExecContinues /\ JobsSettle => TypeOK'
  BY <1>1 DEF LifecycleInv, TypeOK, ExecContinues, JobsSettle, rights, physical
<1>. QED
  BY <1>1, <1>2, <1>3, <1>4, SettledJobs DEF LifecycleInv

LEMMA AddStartInv ==
  ASSUME LifecycleInv, NEW s \in Slot, AddStart(s) PROVE LifecycleInv'
<1>1. exec[s].job \in Job /\ exec[s].job \notin PurgeJob
  BY LifecycleAssumption DEF AddStart, At, Job
<1>2. ExecContinues /\ JobsSettle
  BY <1>1, ExecGoes, ExecEnds, JobsKept DEF AddStart, Outcomes
<1>3. CASE torrent.state \in Adding
  BY <1>2, <1>3, StateStep DEF AddStart, Adding, Purging, LifecycleInv, TypeOK
<1>4. CASE torrent.state \notin Adding
  BY <1>1, <1>2, <1>4, HandlerStep DEF AddStart, rows, rights, physical, LifecycleInv, TypeOK
<1>. QED
  BY <1>3, <1>4

\* The common part of AddCommit and SyncCommit: a state is written on a
\* torrent that is not being purged, and the rights follow it.
LEMMA ObservationInv ==
  ASSUME LifecycleInv, NEW s \in Slot, exec[s].job \in Job,
         torrent.state \notin Purging \cup {"PURGED"},
         NEW state \in {"READY", "DOWNLOADING", "PAUSED", "ERROR"},
         torrent' = [torrent EXCEPT !.state = state],
         (req \in [User -> Requests])',
         \A u \in User : req'[u] = "NONE" <=> req[u] = "NONE",
         state = "READY" => \A u \in User : req'[u] \in {"NONE", "READY", "DUE"},
         ExecContinues,
         UNCHANGED <<lease, usage, ledger, job, latest, abandoned, physical>>
  PROVE  LifecycleInv'
<1>1. torrent.state # "ABSENT"
  BY Standing
<1>2. torrent' \in Torrent /\ torrent'.state = state /\ torrent'.purge = torrent.purge
  BY DEF LifecycleInv, TypeOK, Torrent, States
<1>3. Holders' = Holders
  BY DEF Holders
<1>4. TypeOK'
  BY <1>2 DEF LifecycleInv, TypeOK, ExecContinues, physical
<1>5. /\ NothingBefore' /\ PurgeIsDue' /\ LifecycleCheck' /\ PurgeHasNoHolder'
      /\ LeaseBlocksPurge'
  BY <1>2 DEF NothingBefore, PurgeIsDue, LifecycleCheck, PurgeHasNoHolder, LeaseBlocksPurge,
     Purging
<1>6. ReadyForAll'
  BY <1>2 DEF ReadyForAll, Holders
<1>7. Accounted' /\ (Operator \/ OrphanHasDeadline)'
  BY <1>1, <1>2, <1>3 DEF LifecycleInv, Accounted, OrphanHasDeadline
<1>8. JobsSettle
  BY JobsKept
<1>. QED
  BY <1>2, <1>4, <1>5, <1>6, <1>7, <1>8, SettledJobs DEF LifecycleInv, Purging

LEMMA AddCommitInv ==
  ASSUME LifecycleInv, NEW s \in Slot, AddCommit(s) PROVE LifecycleInv'
<1>1. exec[s].job \in Job /\ exec[s].job \notin PurgeJob
  BY LifecycleAssumption DEF AddCommit, At, Job
<1>2. ExecContinues
  BY <1>1, ExecEnds DEF AddCommit, Outcomes
<1>3. CASE torrent.state \in Purging \cup {"PURGED"}
  BY <1>1, <1>2, <1>3, HandlerStep DEF AddCommit, rows, physical, LifecycleInv, TypeOK
<1>4. CASE torrent.state \notin Purging \cup {"PURGED"}
  <2>1. /\ torrent' = [torrent EXCEPT !.state = "PAUSED"]
        /\ req' = [u \in User |-> IF req[u] = "REQUESTED" THEN "ACTIVE" ELSE req[u]]
        /\ UNCHANGED <<lease, usage, ledger, job, latest, abandoned, physical>>
    BY <1>4 DEF AddCommit
  <2>2. /\ (req \in [User -> Requests])'
        /\ \A u \in User : req'[u] = "NONE" <=> req[u] = "NONE"
    BY <2>1 DEF LifecycleInv, TypeOK, Requests
  <2>. QED
    BY <1>1, <1>2, <1>4, <2>1, <2>2, ObservationInv
<1>. QED
  BY <1>3, <1>4

LEMMA SyncCommitInv ==
  ASSUME LifecycleInv, NEW s \in Slot, SyncCommit(s) PROVE LifecycleInv'
<1>1. exec[s].job \in Job /\ exec[s].job \notin PurgeJob
  BY LifecycleAssumption DEF SyncCommit, At, Job
<1>2. ExecContinues
  BY <1>1, ExecEnds DEF SyncCommit, Outcomes
<1>3. CASE torrent.state \in Purging \cup {"PURGED"}
  BY <1>1, <1>2, <1>3, HandlerStep DEF SyncCommit, rows, physical, LifecycleInv, TypeOK
<1>4. CASE torrent.state \notin Purging \cup {"PURGED"}
  <2>1. PICK state \in {"READY", "DOWNLOADING", "PAUSED", "ERROR"} :
        /\ torrent' = [torrent EXCEPT !.state = state]
        /\ req' = [u \in User |->
                     IF req[u] \in {"REQUESTED", "ACTIVE"} /\ state = "READY" THEN "READY"
                     ELSE IF req[u] = "REQUESTED" THEN "ACTIVE"
                     ELSE req[u]]
        /\ UNCHANGED <<lease, usage, ledger, job, latest, abandoned, physical>>
    BY <1>4 DEF SyncCommit
  <2>2. /\ (req \in [User -> Requests])'
        /\ \A u \in User : req'[u] = "NONE" <=> req[u] = "NONE"
        /\ state = "READY" => \A u \in User : req'[u] \in {"NONE", "READY", "DUE"}
    BY <2>1 DEF LifecycleInv, TypeOK, Requests
  <2>. QED
    BY <1>1, <1>2, <1>4, <2>1, <2>2, ObservationInv
<1>. QED
  BY <1>3, <1>4

LEMMA PurgeYieldsInv ==
  ASSUME LifecycleInv, NEW s \in Slot, NEW next \in {"READY", "DOWNLOADING"}, PurgeYields(s, next)
  PROVE  LifecycleInv'
<1>1. exec[s].job \in Job
  BY DEF PurgeYields, At, Job
<1>2. ExecContinues /\ JobsSettle
  BY ExecEnds, JobsKept DEF PurgeYields, Outcomes
<1>3. torrent.state \notin Purging \cup {"ABSENT", "PURGED"} /\ Holders # {}
  BY <1>1, Standing DEF PurgeYields, LifecycleInv, PurgeHasNoHolder
<1>4. torrent' = [state |-> torrent.state, purge |-> "none", stop |-> FALSE]
  BY <1>3 DEF PurgeYields, Revived, LifecycleInv, TypeOK, Torrent
<1>5. TypeOK'
  BY <1>2, <1>4 DEF PurgeYields, LifecycleInv, TypeOK, Torrent, ExecContinues, rights, physical
<1>6. /\ NothingBefore' /\ PurgeIsDue' /\ LifecycleCheck' /\ PurgeHasNoHolder'
      /\ LeaseBlocksPurge'
  BY <1>3, <1>4 DEF NothingBefore, PurgeIsDue, LifecycleCheck, PurgeHasNoHolder,
     LeaseBlocksPurge, Purging
<1>7. Accounted' /\ ReadyForAll' /\ OrphanHasDeadline'
  BY <1>3, <1>4 DEF PurgeYields, rights, LifecycleInv, Accounted, ReadyForAll,
     OrphanHasDeadline, Holders
<1>. QED
  BY <1>2, <1>3, <1>4, <1>5, <1>6, <1>7, SettledJobs DEF LifecycleInv

LEMMA PurgeActivatesInv ==
  ASSUME LifecycleInv, NEW s \in Slot, PurgeActivates(s) PROVE LifecycleInv'
<1>1. exec[s].job \in PurgeJob /\ exec[s].job \in Job
  BY DEF PurgeActivates, At, Job
<1>2. ExecContinues
  BY ExecEnds DEF PurgeActivates, Outcomes
<1>3. /\ JobsSettle
      /\ \A j \in AddJob \cup SyncJob : job'[j].state \in Active => job'[j].cancel
  <2>1. job' = CancelJobs(Job \ {exec[s].job}) /\ Job \ {exec[s].job} \in SUBSET Job
    BY DEF PurgeActivates
  <2>2. AddJob \cup SyncJob \subseteq Job \ {exec[s].job}
    BY <1>1, LifecycleAssumption DEF Job
  <2>. QED
    BY <2>1, <2>2, JobsCancelled
<1>4. /\ torrent.state \notin Purging \cup {"ABSENT", "PURGED"} /\ torrent.purge = "due"
      /\ Holders = {}
  BY <1>1, Standing DEF PurgeActivates, Unwanted
<1>5. torrent' = [state |-> "PURGE_PENDING", purge |-> "due", stop |-> TRUE]
  BY <1>4 DEF PurgeActivates, LifecycleInv, TypeOK, Torrent
<1>6. TypeOK'
  BY <1>2, <1>3, <1>5 DEF PurgeActivates, LifecycleInv, TypeOK, Torrent, States, ExecContinues,
     JobsSettle, rights, physical
<1>7. /\ NothingBefore' /\ PurgeIsDue' /\ LifecycleCheck' /\ LeaseBlocksPurge' /\ ReadyForAll'
      /\ OrphanHasDeadline'
  BY <1>5 DEF NothingBefore, PurgeIsDue, LifecycleCheck, LeaseBlocksPurge, ReadyForAll,
     OrphanHasDeadline
<1>8. PurgeHasNoHolder' /\ Accounted'
  BY <1>4, <1>5 DEF PurgeActivates, rights, LifecycleInv, PurgeHasNoHolder, Accounted, Holders
<1>9. PurgeSilencesJobs'
  BY <1>3 DEF PurgeSilencesJobs, ActiveJobs
<1>. QED
  BY <1>2, <1>3, <1>6, <1>7, <1>8, <1>9, SettledJobs DEF LifecycleInv

LEMMA PurgeBeginsInv ==
  ASSUME LifecycleInv, NEW s \in Slot, PurgeBegins(s) PROVE LifecycleInv'
<1>1. ExecContinues /\ JobsSettle
  BY ExecGoes, JobsKept DEF PurgeBegins
<1>2. /\ torrent.state \in Purging /\ torrent.purge = "due" /\ Holders = {} /\ Leased = {}
  BY DEF PurgeBegins, Unwanted
<1>3. torrent' = [state |-> "PURGING", purge |-> "due", stop |-> torrent.stop]
  BY <1>2 DEF PurgeBegins, LifecycleInv, TypeOK, Torrent
<1>4. TypeOK'
  BY <1>1, <1>3 DEF PurgeBegins, LifecycleInv, TypeOK, Torrent, States, ExecContinues, rights,
     physical
<1>5. /\ NothingBefore' /\ PurgeIsDue' /\ LifecycleCheck' /\ ReadyForAll' /\ OrphanHasDeadline'
  BY <1>3 DEF NothingBefore, PurgeIsDue, LifecycleCheck, ReadyForAll, OrphanHasDeadline
<1>6. PurgeHasNoHolder' /\ LeaseBlocksPurge' /\ Accounted'
  BY <1>2, <1>3 DEF PurgeBegins, rights, LifecycleInv, PurgeHasNoHolder, LeaseBlocksPurge,
     Accounted, Holders, Leased, Purging
<1>. QED
  BY <1>1, <1>2, <1>4, <1>5, <1>6, SettledJobs DEF LifecycleInv

LEMMA PurgeCommitInv ==
  ASSUME LifecycleInv, NEW s \in Slot, PurgeCommit(s) PROVE LifecycleInv'
<1>1. exec[s].job \in Job
  BY DEF PurgeCommit, At, Job
<1>2. ExecContinues /\ JobsSettle
  BY ExecEnds, JobsKept DEF PurgeCommit, Outcomes
<1>3. CASE torrent.state = "PURGING" /\ Holders = {} /\ Leased = {}
  <2>1. torrent' = [state |-> "PURGED", purge |-> "none", stop |-> FALSE]
    BY <1>3 DEF PurgeCommit, PurgedRow, LifecycleInv, TypeOK, Torrent
  <2>2. ledger = OtherBytes + Size /\ ledger' = OtherBytes
    BY <1>3, LifecycleAssumption DEF PurgeCommit, Debit, LifecycleInv, Accounted
  <2>3. TypeOK'
    BY <1>2, <2>1, <2>2, LifecycleAssumption DEF PurgeCommit, LifecycleInv, TypeOK, Torrent,
       States, ExecContinues, physical
  <2>4. /\ NothingBefore' /\ PurgeIsDue' /\ LifecycleCheck' /\ ReadyForAll'
        /\ OrphanHasDeadline'
    BY <2>1 DEF NothingBefore, PurgeIsDue, LifecycleCheck, ReadyForAll, OrphanHasDeadline, Purging
  <2>5. PurgeHasNoHolder' /\ LeaseBlocksPurge' /\ Accounted'
    BY <1>3, <2>1, <2>2, LifecycleAssumption DEF PurgeCommit, LifecycleInv, PurgeHasNoHolder,
       LeaseBlocksPurge, Accounted, Holders, Leased
  <2>. QED
    BY <1>2, <1>3, <2>3, <2>4, <2>5, SettledJobs DEF LifecycleInv, Purging
<1>4. CASE ~(torrent.state = "PURGING" /\ Holders = {} /\ Leased = {})
  BY <1>1, <1>2, <1>4, HandlerStep DEF PurgeCommit, rows, physical, LifecycleInv, TypeOK
<1>. QED
  BY <1>3, <1>4

-----------------------------------------------------------------------------
(* The API and the administrator                                           *)

LEMMA CreateTorrentInv ==
  ASSUME LifecycleInv, NEW u \in User, CreateTorrent(u) PROVE LifecycleInv'
<1> USE LifecycleAssumption
<1>1. PICK j \in Fresh(AddJob) : InsertAdd(j)
  BY DEF CreateTorrent
<1>2. torrent' = [state |-> "PENDING", purge |-> "none", stop |-> FALSE]
  BY DEF CreateTorrent, Reborn, LifecycleInv, TypeOK, Torrent
<1>3. Holders = {}
  BY DEF CreateTorrent, LifecycleInv, NothingBefore, PurgeHasNoHolder
<1>4. \A i \in ActiveJobs(AddJob) : job[i].cancel
  BY DEF CreateTorrent, LifecycleInv, NothingBefore, PurgeSilencesJobs, ActiveJobs, Job
<1>5. TypeOK'
  BY <1>1, <1>2 DEF CreateTorrent, InsertAdd, Fresh, Job, QueuedRow, FreeRow, Row, JobStates,
     LifecycleInv, TypeOK, Torrent, States, Requests, physical
<1>6. /\ NothingBefore' /\ PurgeIsDue' /\ LifecycleCheck' /\ PurgeHasNoHolder'
      /\ LeaseBlocksPurge' /\ PurgeSilencesJobs' /\ ReadyForAll'
  BY <1>2 DEF NothingBefore, PurgeIsDue, LifecycleCheck, PurgeHasNoHolder, LeaseBlocksPurge,
     PurgeSilencesJobs, ReadyForAll, Purging
<1>7. OrphanHasDeadline'
  BY DEF OrphanHasDeadline, Holders, CreateTorrent, LifecycleInv, TypeOK
<1>8. Accounted'
  BY <1>2, <1>3 DEF Accounted, Holders, CreateTorrent, LifecycleInv, TypeOK
<1>9. OneAddInCharge'
  BY <1>1, <1>4 DEF OneAddInCharge, ActiveJobs, InsertAdd, Fresh, FreeRow, QueuedRow, Active, Job
<1>10. QueuedNotCancelled'
  BY <1>1 DEF QueuedNotCancelled, LifecycleInv, InsertAdd, QueuedRow, FreeRow
<1>11. Ownership' /\ PurgeOutcomes'
  BY <1>1 DEF Ownership, PurgeOutcomes, LifecycleInv, CreateTorrent, InsertAdd, Fresh, QueuedRow,
     FreeRow, Active
<1>. QED
  BY <1>5, <1>6, <1>7, <1>8, <1>9, <1>10, <1>11 DEF LifecycleInv

\* The right a request starts with
LEMMA InitialRightType ==
  ASSUME NEW state PROVE /\ InitialRight(state) \in Requests \ {"NONE"}
                         /\ state = "READY" => InitialRight(state) = "READY"
BY DEF InitialRight, Requests

LEMMA JoinTorrentInv ==
  ASSUME LifecycleInv, NEW u \in User, NEW next \in {"READY", "DOWNLOADING"}, JoinTorrent(u, next)
  PROVE  LifecycleInv'
<1>1. torrent.state \notin Purging \cup {"ABSENT", "PURGED"}
  BY DEF JoinTorrent, AdmitsRequest, LifecycleInv, PurgeIsDue, Purging
<1>2. torrent' \in Torrent /\ torrent'.state = torrent.state /\ torrent'.purge = "none"
  BY <1>1 DEF JoinTorrent, Revived, LifecycleInv, TypeOK, Torrent, Purging
<1>3. ExecContinues /\ JobsSettle
  <2>1. PurgeJob \in SUBSET Job
    BY DEF Job
  <2>. QED
    BY <2>1, ExecKept, JobsKept, JobsCancelled DEF JoinTorrent
<1>4. /\ req' \in [User -> Requests] /\ usage' \in [User -> Nat]
      /\ req'[u] # "NONE"
      /\ \A v \in User : usage'[v] = OtherBytes + (IF req'[v] = "NONE" THEN 0 ELSE Size)
      /\ torrent.state = "READY" =>
            \A v \in User : req'[v] # "NONE" => req'[v] \in {"READY", "DUE"}
  <2>1. CASE req[u] \in {"NONE", "DUE"}
    <3> DEFINE right == InitialRight(torrent'.state)
    <3>1. right \in Requests \ {"NONE"} /\ (torrent.state = "READY" => right = "READY")
      BY <1>2, InitialRightType
    <3>2. req' = [req EXCEPT ![u] = right]
      BY <2>1 DEF JoinTorrent
    <3>3. usage' = [usage EXCEPT ![u] = OtherBytes + Size]
      BY <2>1, LifecycleAssumption DEF JoinTorrent, Debit, LifecycleInv, TypeOK, Accounted
    <3>. HIDE DEF right
    <3>. QED
      BY <3>1, <3>2, <3>3, LifecycleAssumption DEF LifecycleInv, TypeOK, Accounted, ReadyForAll,
         Holders
  <2>2. CASE req[u] \notin {"NONE", "DUE"}
    BY <2>2 DEF JoinTorrent, LifecycleInv, TypeOK, Accounted, ReadyForAll, Holders
  <2>. QED
    BY <2>1, <2>2
<1>5. TypeOK'
  BY <1>2, <1>3, <1>4 DEF JoinTorrent, LifecycleInv, TypeOK, ExecContinues, JobsSettle, physical
<1>6. /\ NothingBefore' /\ PurgeIsDue' /\ LifecycleCheck' /\ PurgeHasNoHolder'
      /\ LeaseBlocksPurge'
  BY <1>1, <1>2 DEF NothingBefore, PurgeIsDue, LifecycleCheck, PurgeHasNoHolder, LeaseBlocksPurge,
     Purging
<1>7. Accounted' /\ ReadyForAll' /\ OrphanHasDeadline'
  BY <1>1, <1>2, <1>4 DEF JoinTorrent, LifecycleInv, Accounted, ReadyForAll, OrphanHasDeadline,
     Holders
<1>. QED
  BY <1>1, <1>2, <1>3, <1>5, <1>6, <1>7, SettledJobs DEF LifecycleInv

\* What withdrawing rights does to the requests and to the usages
LEMMA Withdrawn ==
  ASSUME LifecycleInv, NEW U \in SUBSET Holders, Withdraw(U)
  PROVE  /\ req' \in [User -> Requests] /\ usage' \in [User -> Nat]
         /\ Holders' = Holders \ U
         /\ \A u \in User : req'[u] \in {req[u], "NONE"}
         /\ \A u \in User : usage'[u] = OtherBytes + (IF req'[u] = "NONE" THEN 0 ELSE Size)
BY LifecycleAssumption DEF Withdraw, Debit, LifecycleInv, TypeOK, Accounted, Holders, Requests

LEMMA ReleaseInv ==
  ASSUME LifecycleInv, NEW U \in SUBSET Holders, U # {}, NEW deadline \in {"future", "due"},
         WithdrawAndRelease(U, deadline)
  PROVE  LifecycleInv'
<1>1. torrent.state \notin Purging \cup {"ABSENT", "PURGED"}
  BY DEF LifecycleInv, PurgeHasNoHolder, NothingBefore
<1>2. /\ req' \in [User -> Requests] /\ usage' \in [User -> Nat]
      /\ Holders' = Holders \ U
      /\ \A u \in User : req'[u] \in {req[u], "NONE"}
      /\ \A u \in User : usage'[u] = OtherBytes + (IF req'[u] = "NONE" THEN 0 ELSE Size)
  BY Withdrawn DEF WithdrawAndRelease
<1>3. /\ torrent' \in Torrent /\ torrent'.state = torrent.state
      /\ Holders' = {} => torrent'.purge # "none"
  BY <1>2 DEF WithdrawAndRelease, SchedulePurge, LifecycleInv, TypeOK, Torrent
<1>4. ExecContinues /\ JobsSettle
  BY ExecKept, JobsKept, PurgeInserted DEF WithdrawAndRelease, SchedulePurge
<1>5. TypeOK'
  BY <1>2, <1>3, <1>4 DEF WithdrawAndRelease, LifecycleInv, TypeOK, ExecContinues, JobsSettle,
     physical
<1>6. /\ NothingBefore' /\ PurgeIsDue' /\ LifecycleCheck' /\ PurgeHasNoHolder'
      /\ LeaseBlocksPurge'
  BY <1>1, <1>3 DEF NothingBefore, PurgeIsDue, LifecycleCheck, PurgeHasNoHolder, LeaseBlocksPurge,
     Purging
<1>7. Accounted' /\ OrphanHasDeadline'
  BY <1>1, <1>2, <1>3 DEF WithdrawAndRelease, LifecycleInv, Accounted, OrphanHasDeadline
<1>8. ReadyForAll'
  BY <1>2, <1>3 DEF LifecycleInv, ReadyForAll, Holders
<1>. QED
  BY <1>1, <1>3, <1>4, <1>5, <1>6, <1>7, <1>8, SettledJobs DEF LifecycleInv

LEMMA CancelRequestInv ==
  ASSUME LifecycleInv, NEW u \in User, CancelRequest(u) PROVE LifecycleInv'
<1>1. {u} \in SUBSET Holders /\ {u} # {}
  BY DEF CancelRequest, Holders
<1>. QED
  BY <1>1, ReleaseInv DEF CancelRequest

LEMMA ExpireRightsInv ==
  ASSUME LifecycleInv, NEW U \in SUBSET User, ExpireRights(U) PROVE LifecycleInv'
<1>1. U \in SUBSET Holders
  BY DEF ExpireRights, Holders
<1>. QED
  BY <1>1, ReleaseInv DEF ExpireRights

LEMMA RetryResyncInv ==
  ASSUME LifecycleInv, NEW u \in User, RetryResync(u) PROVE LifecycleInv'
<1>1. ExecContinues /\ JobsSettle
  BY ExecKept, JobsKept DEF RetryResync
<1>. QED
  BY <1>1, StateStep DEF RetryResync, Purging, LifecycleInv, TypeOK

LEMMA RetryAddInv ==
  ASSUME LifecycleInv, NEW u \in User, RetryAdd(u) PROVE LifecycleInv'
<1> USE LifecycleAssumption
<1>1. PICK j \in Fresh(AddJob) : InsertAdd(j)
  BY DEF RetryAdd
<1>2. torrent' \in Torrent /\ torrent'.state = "PENDING" /\ torrent'.purge = torrent.purge
  BY DEF RetryAdd, LifecycleInv, TypeOK, Torrent, States
<1>3. TypeOK'
  BY <1>1, <1>2 DEF RetryAdd, InsertAdd, Fresh, Job, QueuedRow, FreeRow, Row, JobStates,
     LifecycleInv, TypeOK, rights, physical
<1>4. /\ NothingBefore' /\ PurgeIsDue' /\ LifecycleCheck' /\ PurgeHasNoHolder'
      /\ LeaseBlocksPurge' /\ PurgeSilencesJobs' /\ ReadyForAll'
  BY <1>2 DEF NothingBefore, PurgeIsDue, LifecycleCheck, PurgeHasNoHolder, LeaseBlocksPurge,
     PurgeSilencesJobs, ReadyForAll, Purging
<1>5. Accounted' /\ (Operator \/ OrphanHasDeadline)'
  BY <1>2 DEF RetryAdd, rights, LifecycleInv, Accounted, OrphanHasDeadline, Holders
<1>6. OneAddInCharge'
  BY <1>1 DEF RetryAdd, OneAddInCharge, ActiveJobs, InsertAdd, Fresh, FreeRow, QueuedRow, Active,
     Job
<1>7. QueuedNotCancelled'
  BY <1>1 DEF QueuedNotCancelled, LifecycleInv, InsertAdd, QueuedRow, FreeRow
<1>8. Ownership' /\ PurgeOutcomes'
  BY <1>1 DEF Ownership, PurgeOutcomes, LifecycleInv, RetryAdd, InsertAdd, Fresh, QueuedRow,
     FreeRow, Active
<1>. QED
  BY <1>3, <1>4, <1>5, <1>6, <1>7, <1>8 DEF LifecycleInv

LEMMA LeaseInv ==
  ASSUME LifecycleInv, NEW u \in User, AcquireLease(u) \/ EndLease(u) PROVE LifecycleInv'
<1>1. ExecContinues /\ JobsSettle
  BY ExecKept, JobsKept DEF AcquireLease, EndLease
<1>2. TypeOK'
  BY DEF AcquireLease, EndLease, LifecycleInv, TypeOK, physical
<1>3. NothingBefore' /\ PurgeIsDue' /\ LifecycleCheck' /\ PurgeHasNoHolder' /\ Accounted'
      /\ ReadyForAll' /\ (Operator \/ OrphanHasDeadline)'
  BY DEF AcquireLease, EndLease, LifecycleInv, NothingBefore, PurgeIsDue, LifecycleCheck,
     PurgeHasNoHolder, Accounted, ReadyForAll, OrphanHasDeadline, Holders, ActiveJobs
<1>4. LeaseBlocksPurge'
  BY DEF AcquireLease, EndLease, LifecycleInv, TypeOK, LeaseBlocksPurge, Leased
<1>5. torrent' = torrent
  BY DEF AcquireLease, EndLease
<1>. QED
  BY <1>1, <1>2, <1>3, <1>4, <1>5, SettledJobs DEF LifecycleInv

LEMMA AdminPurgeInv ==
  ASSUME LifecycleInv, AdminPurge PROVE LifecycleInv'
<1>1. /\ req' \in [User -> Requests] /\ usage' \in [User -> Nat]
      /\ Holders' = {}
      /\ \A u \in User : usage'[u] = OtherBytes + (IF req'[u] = "NONE" THEN 0 ELSE Size)
  BY Withdrawn DEF AdminPurge
<1>2. torrent' \in Torrent /\ torrent'.state = torrent.state /\ torrent'.purge = "due"
  BY DEF AdminPurge, LifecycleInv, TypeOK, Torrent
<1>3. ExecContinues /\ JobsSettle
  BY ExecKept, PurgeInserted, PurgeUncancelled DEF AdminPurge, ActiveJobs
<1>4. TypeOK'
  BY <1>1, <1>2, <1>3 DEF AdminPurge, LifecycleInv, TypeOK, ExecContinues, JobsSettle, physical
<1>5. /\ NothingBefore' /\ PurgeIsDue' /\ LifecycleCheck' /\ PurgeHasNoHolder'
      /\ ReadyForAll' /\ OrphanHasDeadline'
  BY <1>1, <1>2 DEF AdminPurge, NothingBefore, PurgeIsDue, LifecycleCheck, PurgeHasNoHolder,
     ReadyForAll, OrphanHasDeadline
<1>6. LeaseBlocksPurge' /\ Accounted'
  BY <1>1, <1>2 DEF AdminPurge, LifecycleInv, LeaseBlocksPurge, Leased, Accounted
<1>. QED
  BY <1>2, <1>3, <1>4, <1>5, <1>6, SettledJobs DEF LifecycleInv

LEMMA ForceResumeInv ==
  ASSUME LifecycleInv, ForceResume PROVE LifecycleInv'
<1>1. torrent' \in Torrent /\ torrent'.state = torrent.state /\ torrent'.purge = "future"
  BY DEF ForceResume, LifecycleInv, TypeOK, Torrent
<1>2. ExecContinues /\ JobsSettle
  BY ExecKept, PurgeInserted, JobsKept DEF ForceResume
<1>3. TypeOK'
  BY <1>1, <1>2 DEF ForceResume, LifecycleInv, TypeOK, ExecContinues, JobsSettle, rights, physical
<1>4. /\ NothingBefore' /\ PurgeIsDue' /\ LifecycleCheck' /\ PurgeHasNoHolder'
      /\ LeaseBlocksPurge' /\ OrphanHasDeadline' /\ ReadyForAll'
  BY <1>1 DEF ForceResume, NothingBefore, PurgeIsDue, LifecycleCheck, PurgeHasNoHolder,
     LeaseBlocksPurge, OrphanHasDeadline, ReadyForAll, Purging
<1>5. Accounted'
  BY <1>1 DEF ForceResume, rights, LifecycleInv, Accounted
<1>. QED
  BY <1>1, <1>2, <1>3, <1>4, <1>5, SettledJobs DEF LifecycleInv

LEMMA RecoverCancelInv ==
  ASSUME LifecycleInv, NEW q, NEW c, RecoverCancel(q, c) PROVE LifecycleInv'
<1>1. /\ req' \in [User -> Requests] /\ usage' \in [User -> Nat]
      /\ \A u \in User : usage'[u] = OtherBytes + (IF req'[u] = "NONE" THEN 0 ELSE Size)
  BY Withdrawn DEF RecoverCancel
<1>2. torrent' \in Torrent /\ torrent'.state = "ERROR"
  BY DEF RecoverCancel, LifecycleInv, TypeOK, Torrent, States
<1>3. ExecContinues /\ JobsSettle
  BY ExecKept, JobsCancelled DEF RecoverCancel
<1>4. TypeOK'
  BY <1>1, <1>2, <1>3 DEF RecoverCancel, LifecycleInv, TypeOK, ExecContinues, JobsSettle, physical
<1>5. /\ NothingBefore' /\ PurgeIsDue' /\ LifecycleCheck' /\ PurgeHasNoHolder'
      /\ LeaseBlocksPurge' /\ ReadyForAll'
  BY <1>2 DEF NothingBefore, PurgeIsDue, LifecycleCheck, PurgeHasNoHolder, LeaseBlocksPurge,
     ReadyForAll, Purging
<1>6. Accounted' /\ Operator
  BY <1>1, <1>2 DEF RecoverCancel, LifecycleInv, Accounted
<1>. QED
  BY <1>2, <1>3, <1>4, <1>5, <1>6, SettledJobs DEF LifecycleInv, Purging

LEMMA RecoverPurgeMetadataInv ==
  ASSUME LifecycleInv, NEW q, NEW c, RecoverPurgeMetadata(q, c) PROVE LifecycleInv'
<1>1. /\ req' \in [User -> Requests] /\ usage' \in [User -> Nat]
      /\ Holders' = {}
      /\ \A u \in User : usage'[u] = OtherBytes + (IF req'[u] = "NONE" THEN 0 ELSE Size)
  BY Withdrawn DEF RecoverPurgeMetadata
<1>2. torrent' \in Torrent /\ torrent'.state = "PURGED" /\ torrent'.purge = "none"
  BY DEF RecoverPurgeMetadata, LifecycleInv, TypeOK, Torrent, States
<1>3. ledger' = OtherBytes
  BY LifecycleAssumption DEF RecoverPurgeMetadata, Debit, LifecycleInv, Accounted
<1>4. ExecContinues /\ JobsSettle
  BY ExecKept, JobsKept DEF RecoverPurgeMetadata
<1>5. TypeOK'
  BY <1>1, <1>2, <1>3, LifecycleAssumption DEF RecoverPurgeMetadata, LifecycleInv, TypeOK, physical
<1>6. /\ NothingBefore' /\ PurgeIsDue' /\ LifecycleCheck' /\ PurgeHasNoHolder' /\ ReadyForAll'
      /\ OrphanHasDeadline'
  BY <1>1, <1>2 DEF NothingBefore, PurgeIsDue, LifecycleCheck, PurgeHasNoHolder, ReadyForAll,
     OrphanHasDeadline, Purging
<1>7. LeaseBlocksPurge' /\ Accounted'
  BY <1>1, <1>2, <1>3, LifecycleAssumption DEF RecoverPurgeMetadata, LeaseBlocksPurge, Leased,
     Accounted
<1>8. PurgeSilencesJobs'
  BY DEF RecoverPurgeMetadata, PurgeSilencesJobs, ActiveJobs, Job
<1>. QED
  BY <1>4, <1>5, <1>6, <1>7, <1>8, SettledJobs DEF LifecycleInv

-----------------------------------------------------------------------------
(* The queue: jobs are enqueued, claimed, finished and recovered           *)

LEMMA EnqueueSyncInv ==
  ASSUME LifecycleInv, NEW j \in SyncJob, EnqueueSync(j) PROVE LifecycleInv'
<1> USE LifecycleAssumption
<1>1. j \in Job /\ j \notin AddJob /\ j \notin PurgeJob /\ \A s \in Slot : exec[s].job # j
  BY DEF Job, EnqueueSync, Fresh
<1>2. job' = [job EXCEPT ![j] = QueuedRow] /\ UNCHANGED <<torrent, rights, exec>>
  BY DEF EnqueueSync, Insert
<1>3. TypeOK'
  BY <1>1, <1>2 DEF EnqueueSync, QueuedRow, Row, JobStates, LifecycleInv, TypeOK, rights, physical
<1>4. /\ NothingBefore' /\ PurgeIsDue' /\ LifecycleCheck' /\ PurgeHasNoHolder'
      /\ LeaseBlocksPurge' /\ PurgeSilencesJobs'
  BY <1>2 DEF EnqueueSync, NothingBefore, PurgeIsDue, LifecycleCheck, PurgeHasNoHolder,
     LeaseBlocksPurge, PurgeSilencesJobs, Purging
<1>5. Accounted' /\ ReadyForAll' /\ (Operator \/ OrphanHasDeadline)'
  BY <1>2 DEF rights, LifecycleInv, Accounted, ReadyForAll, OrphanHasDeadline, Holders
<1>6. Ownership' /\ PurgeOutcomes'
  BY <1>1, <1>2 DEF LifecycleInv, Ownership, PurgeOutcomes, TypeOK
<1>7. QueuedNotCancelled' /\ OneAddInCharge'
  BY <1>1, <1>2 DEF LifecycleInv, QueuedNotCancelled, OneAddInCharge, ActiveJobs, QueuedRow, TypeOK,
     Job
<1>. QED
  BY <1>3, <1>4, <1>5, <1>6, <1>7 DEF LifecycleInv

LEMMA ClaimInv ==
  ASSUME LifecycleInv, NEW s \in Slot, NEW j \in Job, Claim(s, j) PROVE LifecycleInv'
<1> DEFINE e == [job |-> j, own |-> TRUE, pc |-> "start", arg |-> "none"]
<1>1. e \in Execution /\ e.job = j /\ e.arg = "none"
  BY DEF Execution
<1>2. /\ job[j].state = "QUEUED" /\ ~job[j].cancel /\ torrent.state # "ABSENT"
      /\ UNCHANGED <<torrent, req, lease, usage, ledger>>
      /\ exec' = [exec EXCEPT ![s] = e]
  BY DEF Claim, LifecycleInv, QueuedNotCancelled, NothingBefore, ActiveJobs, Active, rights
<1>. HIDE DEF e
<1>3. /\ job' \in [Job -> Row]
      /\ job'[j].state = "RUNNING" /\ job'[j].cancel = job[j].cancel
      /\ \A i \in Job : i # j => job'[i] = job[i]
  BY DEF Claim, LifecycleInv, TypeOK, Row, JobStates
<1>4. TypeOK'
  BY <1>1, <1>2, <1>3 DEF Claim, LifecycleInv, TypeOK, physical
<1>5. /\ NothingBefore' /\ PurgeIsDue' /\ LifecycleCheck' /\ PurgeHasNoHolder'
      /\ LeaseBlocksPurge' /\ Accounted' /\ ReadyForAll' /\ (Operator \/ OrphanHasDeadline)'
  BY <1>2 DEF LifecycleInv, NothingBefore, PurgeIsDue, LifecycleCheck, PurgeHasNoHolder,
     LeaseBlocksPurge, Accounted, ReadyForAll, OrphanHasDeadline, Holders, Leased
<1>6. Ownership'
  BY <1>1, <1>2, <1>3 DEF LifecycleInv, Ownership, TypeOK
<1>7. PurgeOutcomes'
  BY <1>1, <1>2 DEF LifecycleInv, PurgeOutcomes, TypeOK
<1>8. QueuedNotCancelled' /\ OneAddInCharge' /\ PurgeSilencesJobs'
  BY <1>2, <1>3 DEF LifecycleInv, QueuedNotCancelled, OneAddInCharge, PurgeSilencesJobs, ActiveJobs,
     Active, Job
<1>. QED
  BY <1>4, <1>5, <1>6, <1>7, <1>8 DEF LifecycleInv

\* What finishing or recovering a job makes of its row
LEMMA FinalRow ==
  ASSUME NEW j \in Job, NEW final \in {"QUEUED", "COMPLETED", "FAILED", "CANCELLED"}
  PROVE  /\ Ended(j, final) \in Row
         /\ final # "QUEUED" => Ended(j, final).state \notin Active
         /\ QueuedRow \in Row /\ QueuedRow.state = "QUEUED" /\ ~QueuedRow.cancel
BY DEF Ended, QueuedRow, FreeRow, Row, JobStates, Active

\* A job that leaves RUNNING: the invariants on jobs and executions
LEMMA JobLeaves ==
  ASSUME LifecycleInv, NEW s \in Slot, NEW j \in Job, exec[s].own, exec[s].job = j,
         NEW final \in IF job[j].cancel THEN {"CANCELLED"} ELSE {"QUEUED", "COMPLETED", "FAILED"},
         job' = [job EXCEPT ![j] = IF final = "QUEUED" THEN QueuedRow ELSE Ended(j, final)],
         NEW e \in Execution, ~e.own,
         e.job \in PurgeJob => e.arg \notin {"permanent_error", "retry_wait"},
         exec' = [exec EXCEPT ![s] = e],
         \/ torrent.state \in Purging \cup {"PURGED"}
         \/ torrent'.state \notin Purging \cup {"PURGED"}
  PROVE  /\ (job \in [Job -> Row])' /\ (exec \in [Slot -> Execution])'
         /\ Ownership' /\ PurgeOutcomes' /\ QueuedNotCancelled' /\ OneAddInCharge'
         /\ PurgeSilencesJobs'
<1>1. PICK r \in Row : /\ job' = [job EXCEPT ![j] = r]
                       /\ r.state \in Active => r.state = "QUEUED" /\ ~r.cancel /\ ~job[j].cancel
  BY FinalRow DEF LifecycleInv, TypeOK, Row
<1>2. job[j].state = "RUNNING" /\ job \in [Job -> Row] /\ exec \in [Slot -> Execution]
  BY DEF LifecycleInv, Ownership, TypeOK
<1>3. (job \in [Job -> Row])' /\ (exec \in [Slot -> Execution])'
  BY <1>1, <1>2
<1>4. Ownership'
  BY <1>1, <1>2 DEF LifecycleInv, Ownership
<1>5. PurgeOutcomes'
  BY <1>2 DEF LifecycleInv, PurgeOutcomes
<1>6. QueuedNotCancelled'
  BY <1>1, <1>2 DEF LifecycleInv, QueuedNotCancelled, Active
<1>7. OneAddInCharge' /\ PurgeSilencesJobs'
  BY <1>1, <1>2 DEF LifecycleInv, OneAddInCharge, PurgeSilencesJobs, ActiveJobs, Active, Job
<1>. QED
  BY <1>3, <1>4, <1>5, <1>6, <1>7

LEMMA FinishInv ==
  ASSUME LifecycleInv, NEW s \in Slot, NEW final \in JobStates, Finish(s, final)
  PROVE  LifecycleInv'
<1>1. PICK j \in Job : j = exec[s].job /\ exec[s].own /\ job[j].state = "RUNNING"
  BY DEF Finish, LifecycleInv, Ownership
<1>2. /\ final \in IF job[j].cancel THEN {"CANCELLED"} ELSE {"QUEUED", "COMPLETED", "FAILED"}
      /\ job' = [job EXCEPT ![j] = IF final = "QUEUED" THEN QueuedRow ELSE Ended(j, final)]
      /\ exec' = [exec EXCEPT ![s] = Idle]
      /\ torrent' = AfterFailure(j, exec[s].arg, final)
      /\ UNCHANGED <<rights, latest, abandoned, physical>>
  BY <1>1 DEF Finish, Finals
<1>3. Idle \in Execution /\ ~Idle.own /\ Idle.job \notin PurgeJob
  BY LifecycleAssumption DEF Idle, Execution, Job
<1>4. torrent.state # "ABSENT"
  BY <1>1, Standing
<1>5. \/ torrent' = torrent
      \/ /\ torrent.state \notin Purging \cup {"PURGED"}
         /\ \E state \in {"RETRY_WAIT", "ERROR"} : torrent' = [torrent EXCEPT !.state = state]
  <2>1. CASE torrent.state \in Purging \cup {"PURGED"}
    <3>1. j \in AddJob \cup SyncJob => job[j].cancel
      BY <1>1, <2>1 DEF LifecycleInv, PurgeSilencesJobs, ActiveJobs, Active
    <3>2. j \in PurgeJob => exec[s].arg \notin {"permanent_error", "retry_wait"} /\ j \notin AddJob
      BY <1>1, LifecycleAssumption DEF LifecycleInv, PurgeOutcomes
    <3>. QED
      BY <1>2, <2>1, <3>1, <3>2 DEF AfterFailure, Job, Adding, Purging
  <2>2. CASE torrent.state \notin Purging \cup {"PURGED"}
    BY <1>2, <2>2 DEF AfterFailure
  <2>. QED
    BY <2>1, <2>2
<1>6. \/ torrent.state \in Purging \cup {"PURGED"}
      \/ torrent'.state \notin Purging \cup {"PURGED"}
  BY <1>5 DEF LifecycleInv, TypeOK, Torrent, Purging
<1>7. /\ (job \in [Job -> Row])' /\ (exec \in [Slot -> Execution])'
      /\ Ownership' /\ PurgeOutcomes' /\ QueuedNotCancelled' /\ OneAddInCharge'
      /\ PurgeSilencesJobs'
  BY <1>1, <1>2, <1>3, <1>6, JobLeaves
<1>8. /\ NothingBefore' /\ PurgeIsDue' /\ LifecycleCheck' /\ PurgeHasNoHolder'
      /\ LeaseBlocksPurge' /\ ReadyForAll' /\ Accounted' /\ (Operator \/ OrphanHasDeadline)'
      /\ (torrent \in Torrent)'
  <2>1. CASE torrent' = torrent
    BY <1>2, <1>4, <2>1 DEF rights, LifecycleInv, TypeOK, NothingBefore, PurgeIsDue, LifecycleCheck,
       PurgeHasNoHolder, LeaseBlocksPurge, ReadyForAll, Accounted, OrphanHasDeadline, Holders, Leased
  <2>2. CASE /\ torrent.state \notin Purging \cup {"PURGED"}
             /\ \E state \in {"RETRY_WAIT", "ERROR"} : torrent' = [torrent EXCEPT !.state = state]
    BY <1>2, <1>4, <2>2, StateStep DEF LifecycleInv, TypeOK
  <2>. QED
    BY <1>5, <2>1, <2>2
<1>9. TypeOK'
  BY <1>2, <1>7, <1>8 DEF LifecycleInv, TypeOK, rights, physical
<1>. QED
  BY <1>7, <1>8, <1>9 DEF LifecycleInv

LEMMA RecoverClaimInv ==
  ASSUME LifecycleInv, NEW j \in Job, NEW final \in JobStates, RecoverClaim(j, final)
  PROVE  LifecycleInv'
<1>1. PICK s \in Slot : /\ exec[s].job = j /\ exec[s].own
                        /\ \/ exec' = [exec EXCEPT ![s] = Idle]
                           \/ exec' = [exec EXCEPT ![s].own = FALSE]
  BY DEF RecoverClaim
<1>2. PICK e \in Execution :
        /\ ~e.own /\ exec' = [exec EXCEPT ![s] = e]
        /\ e.job \in PurgeJob => e.arg \notin {"permanent_error", "retry_wait"}
  <2>1. Idle \in Execution /\ ~Idle.own /\ Idle.job \notin PurgeJob
    BY LifecycleAssumption DEF Idle, Execution, Job
  <2>2. /\ [exec[s] EXCEPT !.own = FALSE] \in Execution
        /\ ~[exec[s] EXCEPT !.own = FALSE].own
        /\ [exec[s] EXCEPT !.own = FALSE].job = exec[s].job
        /\ [exec[s] EXCEPT !.own = FALSE].arg = exec[s].arg
    BY DEF LifecycleInv, TypeOK, Execution
  <2>3. exec[s].job \in PurgeJob => exec[s].arg \notin {"permanent_error", "retry_wait"}
    BY DEF LifecycleInv, PurgeOutcomes
  <2>4. CASE exec' = [exec EXCEPT ![s] = Idle]
    BY <2>1, <2>4
  <2>5. CASE exec' = [exec EXCEPT ![s].own = FALSE]
    <3>1. exec' = [exec EXCEPT ![s] = [exec[s] EXCEPT !.own = FALSE]]
      BY <2>5
    <3>. QED
      BY <2>2, <2>3, <3>1
  <2>. QED
    BY <1>1, <2>4, <2>5
<1>3. /\ final \in IF job[j].cancel THEN {"CANCELLED"} ELSE {"QUEUED", "COMPLETED", "FAILED"}
      /\ job' = [job EXCEPT ![j] = IF final = "QUEUED" THEN QueuedRow ELSE Ended(j, final)]
      /\ UNCHANGED <<torrent, req, lease, usage, ledger, latest, physical>>
      /\ abandoned' \in BOOLEAN
  BY DEF RecoverClaim, LifecycleInv, TypeOK, rights
<1>4. torrent.state # "ABSENT"
  BY <1>1, Standing
<1>5. /\ (job \in [Job -> Row])' /\ (exec \in [Slot -> Execution])'
      /\ Ownership' /\ PurgeOutcomes' /\ QueuedNotCancelled' /\ OneAddInCharge'
      /\ PurgeSilencesJobs'
  BY <1>1, <1>2, <1>3, JobLeaves
<1>6. TypeOK'
  BY <1>3, <1>5 DEF LifecycleInv, TypeOK, physical
<1>7. /\ NothingBefore' /\ PurgeIsDue' /\ LifecycleCheck' /\ PurgeHasNoHolder'
      /\ LeaseBlocksPurge' /\ ReadyForAll' /\ Accounted' /\ (Operator \/ OrphanHasDeadline)'
  BY <1>3, <1>4 DEF LifecycleInv, NothingBefore, PurgeIsDue, LifecycleCheck, PurgeHasNoHolder,
     LeaseBlocksPurge, ReadyForAll, Accounted, OrphanHasDeadline, Holders, Leased
<1>. QED
  BY <1>5, <1>6, <1>7 DEF LifecycleInv

LEMMA VanishInv ==
  ASSUME LifecycleInv, NEW s \in Slot, Vanish(s) PROVE LifecycleInv'
<1>1. Idle \in Execution /\ ~Idle.own /\ Idle.job \notin PurgeJob
  BY LifecycleAssumption DEF Idle, Execution, Job
<1>2. UNCHANGED <<torrent, req, lease, usage, ledger, job, latest, abandoned, qb, content>>
  BY DEF Vanish, rows, physical
<1>3. TypeOK' /\ Ownership' /\ PurgeOutcomes' /\ NothingBefore'
  BY <1>1, <1>2 DEF Vanish, LifecycleInv, TypeOK, Ownership, PurgeOutcomes, NothingBefore, Holders,
     ActiveJobs
<1>4. /\ QueuedNotCancelled' /\ PurgeIsDue' /\ LifecycleCheck' /\ PurgeHasNoHolder'
      /\ LeaseBlocksPurge' /\ Accounted' /\ PurgeSilencesJobs' /\ OneAddInCharge' /\ ReadyForAll'
      /\ (Operator \/ OrphanHasDeadline)'
  BY <1>2 DEF LifecycleInv, QueuedNotCancelled, PurgeIsDue, LifecycleCheck, PurgeHasNoHolder,
     LeaseBlocksPurge, Accounted, PurgeSilencesJobs, OneAddInCharge, ReadyForAll, OrphanHasDeadline,
     Holders, Leased, ActiveJobs
<1>. QED
  BY <1>3, <1>4 DEF LifecycleInv

\* Steps that change neither the torrent nor the rows that refer to it
LEMMA OutsideStep ==
  ASSUME LifecycleInv, UNCHANGED <<rows, exec>>, (abandoned \in BOOLEAN)',
         (qb \in {"absent", "partial", "complete"})', (content \in BOOLEAN)'
  PROVE  LifecycleInv'
BY DEF rows, LifecycleInv, TypeOK, NothingBefore, Ownership, PurgeOutcomes, QueuedNotCancelled,
   PurgeIsDue, LifecycleCheck, PurgeHasNoHolder, LeaseBlocksPurge, Accounted, PurgeSilencesJobs,
   OneAddInCharge, ReadyForAll, OrphanHasDeadline, Holders, Leased, ActiveJobs

LEMMA AbandonedInv ==
  ASSUME LifecycleInv, FailAbandoned \/ ForgetAbandoned PROVE LifecycleInv'
<1>1. ExecContinues /\ JobsSettle
  BY ExecKept, JobsKept DEF FailAbandoned, ForgetAbandoned, rows
<1>2. CASE torrent' = torrent
  BY <1>2, OutsideStep DEF FailAbandoned, ForgetAbandoned, rows, rights, physical, LifecycleInv,
     TypeOK
<1>3. CASE torrent' # torrent
  BY <1>1, <1>3, StateStep DEF FailAbandoned, ForgetAbandoned, rows, Adding, Purging
<1>. QED
  BY <1>2, <1>3

-----------------------------------------------------------------------------
(* The scheduler, qBittorrent and time                                     *)

LEMMA QbInv ==
  ASSUME LifecycleInv, QbCompletes \/ QbLoses PROVE LifecycleInv'
BY OutsideStep DEF QbCompletes, QbLoses, LifecycleInv, TypeOK

LEMMA AcknowledgeStopInv ==
  ASSUME LifecycleInv, AcknowledgeStop PROVE LifecycleInv'
<1>1. torrent' \in Torrent /\ torrent'.state = torrent.state /\ torrent'.purge = torrent.purge
  BY DEF AcknowledgeStop, LifecycleInv, TypeOK, Torrent
<1>2. ExecContinues /\ JobsSettle
  BY ExecKept, JobsKept DEF AcknowledgeStop
<1>3. TypeOK'
  BY <1>1 DEF AcknowledgeStop, LifecycleInv, TypeOK, rights, physical
<1>4. NothingBefore'
  BY <1>1 DEF AcknowledgeStop, NothingBefore
<1>5. /\ PurgeIsDue' /\ LifecycleCheck' /\ PurgeHasNoHolder' /\ LeaseBlocksPurge' /\ Accounted'
      /\ ReadyForAll' /\ (Operator \/ OrphanHasDeadline)'
  BY <1>1 DEF AcknowledgeStop, rights, LifecycleInv, PurgeIsDue, LifecycleCheck, PurgeHasNoHolder,
     LeaseBlocksPurge, Accounted, ReadyForAll, OrphanHasDeadline, Holders, Leased
<1>. QED
  BY <1>1, <1>2, <1>3, <1>4, <1>5, SettledJobs DEF LifecycleInv

LEMMA RetentionElapsesInv ==
  ASSUME LifecycleInv, RetentionElapses PROVE LifecycleInv'
<1>1. torrent' \in Torrent /\ torrent'.state = torrent.state /\ torrent'.purge = "due"
  BY DEF RetentionElapses, LifecycleInv, TypeOK, Torrent
<1>2. ExecContinues /\ JobsSettle
  BY ExecKept, JobsKept DEF RetentionElapses
<1>3. torrent.state # "PURGED"
  BY DEF RetentionElapses, LifecycleInv, LifecycleCheck
<1>4. TypeOK' /\ NothingBefore'
  BY <1>1 DEF RetentionElapses, LifecycleInv, TypeOK, NothingBefore, Holders, ActiveJobs, rights,
     physical
<1>5. /\ PurgeIsDue' /\ LifecycleCheck' /\ PurgeHasNoHolder' /\ LeaseBlocksPurge' /\ Accounted'
      /\ ReadyForAll' /\ OrphanHasDeadline'
  BY <1>1, <1>3 DEF RetentionElapses, rights, LifecycleInv, PurgeIsDue, LifecycleCheck,
     PurgeHasNoHolder, LeaseBlocksPurge, Accounted, ReadyForAll, OrphanHasDeadline, Holders, Leased
<1>. QED
  BY <1>1, <1>2, <1>4, <1>5, SettledJobs DEF LifecycleInv

LEMMA RightFallsDueInv ==
  ASSUME LifecycleInv, NEW u \in User, RightFallsDue(u) PROVE LifecycleInv'
<1>1. /\ req' \in [User -> Requests] /\ Holders' = Holders
      /\ \A v \in User : req'[v] = "NONE" <=> req[v] = "NONE"
      /\ \A v \in User : req'[v] = req[v] \/ req'[v] = "DUE"
  BY DEF RightFallsDue, LifecycleInv, TypeOK, Requests, Holders
<1>2. ExecContinues /\ JobsSettle
  BY ExecKept, JobsKept DEF RightFallsDue
<1>3. TypeOK'
  BY <1>1 DEF RightFallsDue, LifecycleInv, TypeOK, physical
<1>4. /\ NothingBefore' /\ PurgeIsDue' /\ LifecycleCheck' /\ PurgeHasNoHolder' /\ LeaseBlocksPurge'
      /\ (Operator \/ OrphanHasDeadline)'
  BY <1>1 DEF RightFallsDue, LifecycleInv, NothingBefore, PurgeIsDue, LifecycleCheck,
     PurgeHasNoHolder, LeaseBlocksPurge, OrphanHasDeadline, Leased, ActiveJobs
<1>5. Accounted' /\ ReadyForAll'
  BY <1>1 DEF RightFallsDue, LifecycleInv, Accounted, ReadyForAll, Holders
<1>6. torrent' = torrent
  BY DEF RightFallsDue
<1>. QED
  BY <1>2, <1>3, <1>4, <1>5, <1>6, SettledJobs DEF LifecycleInv

-----------------------------------------------------------------------------
(* The theorems                                                            *)

\* The initial state: an empty database and an empty qBittorrent
LEMMA InitInv ==
  ASSUME Init PROVE LifecycleInv
<1> USE LifecycleAssumption
<1>1. TypeOK
  BY DEF Init, TypeOK, Torrent, States, Requests, Row, JobStates, FreeRow, Idle, Execution, Job
<1>2. /\ NothingBefore /\ Ownership /\ PurgeOutcomes /\ QueuedNotCancelled
  BY DEF Init, NothingBefore, Ownership, PurgeOutcomes, QueuedNotCancelled, Holders, ActiveJobs,
     FreeRow, Active, Idle
<1>3. /\ PurgeIsDue /\ LifecycleCheck /\ PurgeHasNoHolder /\ LeaseBlocksPurge
      /\ PurgeSilencesJobs /\ OneAddInCharge /\ ReadyForAll /\ OrphanHasDeadline
  BY DEF Init, PurgeIsDue, LifecycleCheck, PurgeHasNoHolder, LeaseBlocksPurge, PurgeSilencesJobs,
     OneAddInCharge, ReadyForAll, OrphanHasDeadline, Purging, ActiveJobs, FreeRow, Active, Job
<1>4. Accounted
  BY DEF Init, Accounted
<1>. QED
  BY <1>1, <1>2, <1>3, <1>4 DEF LifecycleInv

\* Every step of the API, the administrator, the reaper, the workers, the
\* scheduler, qBittorrent and time preserves the inductive invariant.
LEMMA NextInv ==
  ASSUME LifecycleInv, [Next]_vars PROVE LifecycleInv'
<1>1. CASE UNCHANGED vars
  BY <1>1, OutsideStep DEF vars, rows, LifecycleInv, TypeOK
<1>2. CASE \E u \in User : \/ CreateTorrent(u) \/ CancelRequest(u) \/ RetryResync(u) \/ RetryAdd(u)
                           \/ AcquireLease(u) \/ EndLease(u) \/ RightFallsDue(u)
                           \/ \E next \in {"READY", "DOWNLOADING"} : JoinTorrent(u, next)
  BY <1>2, CreateTorrentInv, CancelRequestInv, RetryResyncInv, RetryAddInv, LeaseInv,
     RightFallsDueInv, JoinTorrentInv
<1>3. CASE \E U \in SUBSET User : ExpireRights(U)
  BY <1>3, ExpireRightsInv
<1>4. CASE \/ AdminPurge \/ ForceResume
           \/ \E q, c \in BOOLEAN : RecoverCancel(q, c)
           \/ \E q, c \in BOOLEAN : RecoverPurgeMetadata(q, c)
  BY <1>4, AdminPurgeInv, ForceResumeInv, RecoverCancelInv, RecoverPurgeMetadataInv
<1>5. CASE \/ \E j \in SyncJob : EnqueueSync(j)
           \/ \E s \in Slot, j \in Job : Claim(s, j)
           \/ \E s \in Slot, final \in JobStates : Finish(s, final)
           \/ \E j \in Job, final \in JobStates : RecoverClaim(j, final)
  BY <1>5, EnqueueSyncInv, ClaimInv, FinishInv, RecoverClaimInv
<1>6. CASE \E s \in Slot : \/ HandlerFails(s) \/ Vanish(s)
                           \/ AddStart(s) \/ AddIntegrate(s) \/ AddCommit(s)
                           \/ SyncStart(s) \/ SyncInspect(s) \/ SyncCommit(s)
  BY <1>6, HandlerFailsInv, VanishInv, AddStartInv, AddIntegrateInv, AddCommitInv, SyncStartInv,
     SyncInspectInv, SyncCommitInv
<1>7. CASE \E s \in Slot : \/ PurgeNotNeeded(s) \/ PurgeWaits(s) \/ PurgeRemove(s) \/ PurgeDelete(s)
                           \/ PurgeActivates(s) \/ PurgeBegins(s) \/ PurgeCommit(s)
                           \/ \E next \in {"READY", "DOWNLOADING"} : PurgeYields(s, next)
  BY <1>7, PurgeEffectsInv, PurgeActivatesInv, PurgeBeginsInv, PurgeCommitInv, PurgeYieldsInv
<1>8. CASE \/ FailAbandoned \/ ForgetAbandoned \/ AcknowledgeStop
           \/ QbCompletes \/ QbLoses \/ RetentionElapses
  BY <1>8, AbandonedInv, AcknowledgeStopInv, QbInv, RetentionElapsesInv
<1>. QED
  BY <1>1, <1>2, <1>3, <1>4, <1>5, <1>6, <1>7, <1>8 DEF Next

\* The inductive invariant holds in every reachable state.
THEOREM LifecycleInvariant == Spec => []LifecycleInv
<1>1. Init => LifecycleInv
  BY InitInv
<1>2. LifecycleInv /\ [Next]_vars => LifecycleInv'
  BY NextInv
<1>. QED
  BY <1>1, <1>2, PTL DEF Spec

\* No request is ever held on content that is to be, is being or was deleted,
\* whatever the interleaving of create_or_get_torrent_request, purge_torrent,
\* schedule_admin_purge and the recovery of purge jobs.
THEOREM NoHolderWhilePurging == Spec => []PurgeHasNoHolder
<1>1. LifecycleInv => PurgeHasNoHolder
  BY DEF LifecycleInv
<1>. QED
  BY <1>1, LifecycleInvariant, PTL

\* A live download lease keeps purge_torrent from entering PURGING, and no
\* lease is acquired from then on.
THEOREM LeaseKeepsOutOfPurging == Spec => []LeaseBlocksPurge
<1>1. LifecycleInv => LeaseBlocksPurge
  BY DEF LifecycleInv
<1>. QED
  BY <1>1, LifecycleInvariant, PTL

\* StorageLedger.managed_bytes and UserStorageUsage.logical_bytes are exact:
\* no path debits twice, none forgets to.
THEOREM StorageAccounted == Spec => []Accounted
<1>1. LifecycleInv => Accounted
  BY DEF LifecycleInv
<1>. QED
  BY <1>1, LifecycleInvariant, PTL

\* Two ADD_TORRENT jobs are never both entitled to decide the torrent's state.
THEOREM SingleAddInCharge == Spec => []OneAddInCharge
<1>1. LifecycleInv => OneAddInCharge
  BY DEF LifecycleInv
<1>. QED
  BY <1>1, LifecycleInvariant, PTL

\* No transaction breaks the CHECK constraint ck_managed_torrents_lifecycle.
THEOREM CheckConstraintHolds == Spec => []LifecycleCheck
<1>1. LifecycleInv => LifecycleCheck
  BY DEF LifecycleInv
<1>. QED
  BY <1>1, LifecycleInvariant, PTL

\* A torrent without a request has a deletion date, unless the operator
\* recovered it: recover_orphaned_torrent("cancel_requests") drops the date.
THEOREM NoOrphanLeaks == ASSUME ~Operator PROVE Spec => []OrphanHasDeadline
<1>1. LifecycleInv => OrphanHasDeadline
  BY DEF LifecycleInv
<1>. QED
  BY <1>1, LifecycleInvariant, PTL

\* From PURGING on, the handlers that read the torrent's state again leave it
\* alone, and a job that could still decide it has been told to stop.
LEMMA PurgingStep ==
  ASSUME ~Operator, LifecycleInv, [Next]_vars, torrent.state = "PURGING"
  PROVE  torrent'.state \in {"PURGING", "PURGED"}
<1>1. /\ Holders = {} /\ torrent.purge = "due" /\ torrent \in Torrent
      /\ \A u \in User : req[u] = "NONE"
  BY DEF LifecycleInv, TypeOK, PurgeHasNoHolder, PurgeIsDue, Purging, Holders
<1>2. CASE UNCHANGED vars
  BY <1>2 DEF vars
<1>3. CASE \E u \in User : \/ CreateTorrent(u) \/ CancelRequest(u) \/ RetryResync(u) \/ RetryAdd(u)
                           \/ AcquireLease(u) \/ EndLease(u) \/ RightFallsDue(u)
                           \/ \E next \in {"READY", "DOWNLOADING"} : JoinTorrent(u, next)
  BY <1>1, <1>3 DEF CreateTorrent, CancelRequest, RetryResync, RetryAdd, AcquireLease, EndLease,
     RightFallsDue, JoinTorrent, AdmitsRequest
<1>4. CASE \E U \in SUBSET User : ExpireRights(U)
  BY <1>1, <1>4 DEF ExpireRights
<1>5. CASE \/ AdminPurge \/ ForceResume
           \/ \E q, c \in BOOLEAN : RecoverCancel(q, c)
           \/ \E q, c \in BOOLEAN : RecoverPurgeMetadata(q, c)
  BY <1>1, <1>5 DEF AdminPurge, ForceResume, RecoverCancel, RecoverPurgeMetadata, Torrent
<1>6. CASE \/ \E j \in SyncJob : EnqueueSync(j)
           \/ \E s \in Slot, j \in Job : Claim(s, j)
           \/ \E j \in Job, final \in JobStates : RecoverClaim(j, final)
  BY <1>6 DEF EnqueueSync, Claim, RecoverClaim
<1>7. ASSUME NEW s \in Slot, NEW final \in JobStates, Finish(s, final)
      PROVE  torrent' = torrent
  <2>1. PICK j \in Job : j = exec[s].job /\ exec[s].own /\ job[j].state = "RUNNING"
    BY <1>7 DEF Finish, LifecycleInv, Ownership
  <2>2. j \in AddJob \cup SyncJob => job[j].cancel
    BY <2>1 DEF LifecycleInv, PurgeSilencesJobs, ActiveJobs, Active, Purging
  <2>3. j \in PurgeJob => exec[s].arg \notin {"permanent_error", "retry_wait"} /\ j \notin AddJob
    BY <2>1, LifecycleAssumption DEF LifecycleInv, PurgeOutcomes
  <2>4. job[j].cancel => final = "CANCELLED"
    BY <1>7, <2>1 DEF Finish
  <2>5. torrent' = AfterFailure(j, exec[s].arg, final)
    BY <1>7, <2>1 DEF Finish
  <2>. QED
    BY <2>2, <2>3, <2>4, <2>5 DEF AfterFailure, Job, Adding
<1>8. CASE \E s \in Slot : \/ HandlerFails(s) \/ Vanish(s)
                           \/ AddStart(s) \/ AddIntegrate(s) \/ AddCommit(s)
                           \/ SyncStart(s) \/ SyncInspect(s) \/ SyncCommit(s)
  BY <1>8 DEF HandlerFails, Vanish, AddStart, AddIntegrate, AddCommit, SyncStart, SyncInspect,
     SyncCommit, rows, Adding, Purging
<1>9. CASE \E s \in Slot : \/ PurgeNotNeeded(s) \/ PurgeWaits(s) \/ PurgeRemove(s) \/ PurgeDelete(s)
                           \/ PurgeActivates(s) \/ PurgeBegins(s) \/ PurgeCommit(s)
                           \/ \E next \in {"READY", "DOWNLOADING"} : PurgeYields(s, next)
  BY <1>1, <1>9 DEF PurgeNotNeeded, PurgeWaits, PurgeRemove, PurgeDelete, PurgeActivates,
     PurgeBegins, PurgeCommit, PurgedRow, PurgeYields, rows, Purging, Torrent
<1>10. CASE \/ FailAbandoned \/ ForgetAbandoned \/ AcknowledgeStop
            \/ QbCompletes \/ QbLoses \/ RetentionElapses
  BY <1>1, <1>10 DEF FailAbandoned, ForgetAbandoned, AcknowledgeStop, QbCompletes, QbLoses,
     RetentionElapses, rows, Adding
<1>. QED
  BY <1>2, <1>3, <1>4, <1>5, <1>6, <1>7, <1>8, <1>9, <1>10 DEF Next

\* Once the deletion has begun it can only be completed, however often the
\* purge job is retried, unless the operator declares the torrent lost.
THEOREM PurgeOnlyCompletes == ASSUME ~Operator PROVE Spec => PurgeIsOneWay
<1>1. LifecycleInv /\ [Next]_vars
        => [torrent.state = "PURGING" => torrent'.state \in {"PURGING", "PURGED"}]_vars
  BY PurgingStep
<1>. QED
  BY <1>1, LifecycleInvariant, PTL DEF Spec, PurgeIsOneWay

=============================================================================
