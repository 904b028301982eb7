----------------------------- MODULE MCProgress -----------------------------
(*
  Work that must go on: the fair selection of torrents, the queue of jobs, the removal of a
  content directory, the dumps of the database and their rotation, the queue of archives,
  the leases that keep the content, and the row lock of an upload.

  A behaviour runs one of the components, chosen by scenario in the initial state. Downloads
  is extended and keeps the names of its variables; the others are instances, and the state
  variables x1, x2, ... stand for their variables in the order their modules declare them.
  What a component does not need stays as it was at first.
*)
EXTENDS Downloads, TLC

CONSTANTS j1, j2, s1, w1, timer, deploy, NoJob, NoWorker, a, b, r, f1, a1, a2, a3, u1, NoUpload

VARIABLES scenario, x1, x2, x3, x4, x5, x6, x7, x8, x9, x10, x11, x12, x13, x14, x15

MCvars == <<scenario, vars, x1, x2, x3, x4, x5, x6, x7, x8, x9, x10, x11, x12, x13, x14, x15>>

Asks == a1 :> u1 @@ a2 :> u1 @@ a3 :> u1
LeaseAsks == f1 :> u1 @@ a1 :> u1

\* Two users share a torrent and one of them has another; a third user has two.
Selection == INSTANCE FairSelection WITH
  User <- {1, 2, 3}, Torrent <- {1, 2, 3, 4}, Owners <- <<<<1>>, <<1, 2>>, <<3>>, <<3>>>>,
  Size <- <<1, 2, 1, 1>>, Small <- 1, Medium <- 2, Slots <- 2, PerUser <- 1, Quantum <- 1,
  DeficitCap <- 4, AgingMax <- 1, ControlSet <- 4, Stallable <- {3}, CyclesPerTurn <- 2,
  want <- x1, cool <- x2, bonus <- x3, running <- x4, scan <- x5, cursor <- x6, credit <- x7,
  elapsed <- x8, cycle <- x9

OnlySelection == scenario = "selection" /\ UNCHANGED <<scenario, vars, x10, x11, x12, x13, x14, x15>>

\* A purge job, a sync job and a worker with one slot.
Jobs == INSTANCE JobQueue WITH
  Job <- {j1, j2}, Kind <- (j1 :> "PURGE_TORRENT" @@ j2 :> "SYNC_TORRENT"),
  MaxAttempts <- (j1 :> 2 @@ j2 :> 2), Worker <- {w1}, Slot <- {s1}, WorkerOf <- (s1 :> w1),
  ClaimTTL <- 1, ExecutionTimeout <- 2, RecoveryDelay <- 1, RetryDelays <- {1},
  WaitingBudget <- 3, NoJob <- NoJob, NoWorker <- NoWorker, job <- x1, exec <- x2,
  failures <- x3

OnlyJobs == scenario = "jobs" /\ UNCHANGED <<scenario, vars, x4, x5, x6, x7, x8, x9, x10, x11, x12, x13, x14, x15>>

Removal == INSTANCE ContentStore WITH
  Name <- {1, 2}, MaxEntries <- 2, MaxChanges <- 2, MaxFaults <- 1, kind <- x1, stack <- x2,
  seen <- x3, changes <- x4, faults <- x5

OnlyRemoval == scenario = "removal" /\ UNCHANGED <<scenario, vars, x6, x7, x8, x9, x10, x11, x12, x13, x14, x15>>

Dumps == INSTANCE DatabaseBackup WITH
  Runner <- {timer, deploy}, MaxDay <- 4, MaxRuns <- 4, MaxFaults <- 1, KeepDays <- 1,
  KeepWeeks <- 2, WeekDays <- 2, day <- x1, runs <- x2, faults <- x3, lock <- x4, job <- x5,
  stamp <- x6, archive <- x7, manifest <- x8, status <- x9, metrics <- x10, litter <- x11

OnlyDumps == scenario = "dumps" /\ UNCHANGED <<scenario, vars, x12, x13, x14, x15>>

\* Three archives of an administrator for one place.
Queue == INSTANCE Downloads WITH
  File <- {}, Archive <- {a1, a2, a3}, User <- {u1}, Owner <- Asks, Admin <- {u1},
  LeaseTime <- 1, Margin <- 0, Limits <- {1}, PerUser <- 1, Global <- 3, MaxRestarts <- 0,
  phase <- x1, lease <- x2, limit <- x3, waiters <- x4, busy <- x5, awake <- x6, acquired <- x7,
  todo <- x8, right <- x9, active <- x10, torrent <- x11, draining <- x12, inflight <- x13,
  restarts <- x14, late <- x15

OnlyQueue == scenario = "queue" /\ UNCHANGED <<scenario, vars>>

\* A file and an archive of one user, and a restart of the process.
OnlyLeases == scenario = "leases" /\ UNCHANGED <<scenario, x1, x2, x3, x4, x5, x6, x7, x8, x9, x10, x11, x12, x13, x14, x15>>

\* Two uploads of one torrent and a retry of it, with one thread.
Uploads == INSTANCE UploadStaging WITH
  Upload <- {a, b}, Retrier <- {r}, None <- NoUpload, Workers <- 1, MaxPending <- 2,
  MaxPurges <- 1, phase <- x1, queue <- x2, running <- x3, pending <- x4, closed <- x5,
  abandoned <- x6, reads <- x7, files <- x8, row <- x9, job <- x10, rowLock <- x11,
  staged <- x12, removing <- x13, purges <- x14, unsure <- x15

OnlyUploads == scenario = "uploads" /\ UNCHANGED <<scenario, vars>>

ASSUME LeasesParameters == Parameters

MCInit ==
  /\ Init
  /\ \/ /\ scenario = "selection" /\ Selection!Init
        /\ x10 = 0 /\ x11 = 0 /\ x12 = 0 /\ x13 = 0 /\ x14 = 0 /\ x15 = 0
     \/ /\ scenario = "jobs" /\ Jobs!Init
        /\ x4 = 0 /\ x5 = 0 /\ x6 = 0 /\ x7 = 0 /\ x8 = 0 /\ x9 = 0 /\ x10 = 0 /\ x11 = 0 /\ x12 = 0
        /\ x13 = 0 /\ x14 = 0 /\ x15 = 0
     \/ /\ scenario = "removal" /\ Removal!Init
        /\ x6 = 0 /\ x7 = 0 /\ x8 = 0 /\ x9 = 0 /\ x10 = 0 /\ x11 = 0 /\ x12 = 0 /\ x13 = 0 /\ x14 = 0
        /\ x15 = 0
     \/ /\ scenario = "dumps" /\ Dumps!Init
        /\ x12 = 0 /\ x13 = 0 /\ x14 = 0 /\ x15 = 0
     \/ /\ scenario = "queue" /\ Queue!Init
     \/ /\ scenario = "leases"
        /\ x1 = 0 /\ x2 = 0 /\ x3 = 0 /\ x4 = 0 /\ x5 = 0 /\ x6 = 0 /\ x7 = 0 /\ x8 = 0 /\ x9 = 0
        /\ x10 = 0 /\ x11 = 0 /\ x12 = 0 /\ x13 = 0 /\ x14 = 0 /\ x15 = 0
     \/ /\ scenario = "uploads" /\ Uploads!Init

MCNext ==
  \/ OnlySelection /\ Selection!Next
  \/ OnlyJobs /\ Jobs!Next
  \/ OnlyRemoval /\ Removal!Next
  \/ OnlyDumps /\ Dumps!Next
  \/ OnlyQueue /\ Queue!Next
  \/ OnlyLeases /\ Next
  \/ OnlyUploads /\ Uploads!Next

\* The fairness of each component, as its module states it.
MCFairness ==
  /\ WF_MCvars(OnlySelection /\ Selection!Step)
  /\ WF_MCvars(OnlyJobs /\ Jobs!Tick)
  /\ WF_MCvars(OnlyJobs /\ Jobs!RecoverExpired)
  /\ WF_MCvars(OnlyJobs /\ (\E j \in {j1, j2} : Jobs!Claim(s1, j)))
  /\ WF_MCvars(OnlyJobs /\ Jobs!ClaimLost(s1))
  /\ WF_MCvars(OnlyRemoval /\ Removal!Attempt)
  /\ \A d \in {a1, a2, a3} :
       /\ WF_MCvars(OnlyQueue /\ Queue!Proceeds(d))
       /\ WF_MCvars(OnlyQueue /\ (Queue!Heartbeat(d) \/ Queue!HeartbeatStops(d)))
  /\ \A d \in {f1, a1} :
       /\ WF_MCvars(OnlyLeases /\ Proceeds(d))
       /\ WF_MCvars(OnlyLeases /\ (Heartbeat(d) \/ HeartbeatStops(d)))
  /\ WF_MCvars(OnlyUploads /\ Uploads!StartThread)
  /\ WF_MCvars(OnlyUploads /\ Uploads!RetryReadDone(r))
  /\ \A u \in {a, b} :
       /\ WF_MCvars(OnlyUploads /\ Uploads!Validated(u))
       /\ WF_MCvars(OnlyUploads /\ (Uploads!Staged(u) \/ Uploads!StageFails(u)))
       /\ WF_MCvars(OnlyUploads /\ Uploads!Settle(u))
       /\ WF_MCvars(OnlyUploads /\ Uploads!Cleanup(u))
       /\ WF_MCvars(OnlyUploads /\ (Uploads!Commit(u) \/ Uploads!CommitUnknown(u)))
       /\ WF_MCvars(OnlyUploads /\ Uploads!BodyFinished(u))
       /\ WF_MCvars(OnlyUploads /\ (Uploads!Stage(u) \/ Uploads!Refuse(u)))

MCSpec == MCInit /\ [][MCNext]_MCvars /\ MCFairness

-----------------------------------------------------------------------------
\* A selection keeps every limit and leaves no slot free that a waiting torrent could use.
\*   - LimitsKept (FairSelection): select_torrents charges a shared torrent once: a cycle's
\*     decision can be split among owners so that each torrent counts for one of its owners,
\*     nobody has more than max_active_per_user, and no more than the global limit run.  Shared
\*     ownership never opens an extra slot.
\*   - NoSlotWasted (FairSelection): The selection wastes no slot: when a cycle ends with a free
\*     one, every candidate it left out has only owners who hold their full share.
\*   - TypeOK: the state has the types each component gives it.
SelectionFair ==
  /\ scenario = "selection" => Selection!LimitsKept
  /\ scenario = "selection" => Selection!NoSlotWasted
  /\ scenario = "selection" => Selection!TypeOK
  /\ scenario = "jobs" => Jobs!TypeOK
  /\ scenario = "removal" => Removal!TypeOK
  /\ scenario = "dumps" => Dumps!TypeOK
  /\ scenario = "queue" => Queue!TypeOK
  /\ scenario = "leases" => TypeOK
  /\ scenario = "uploads" => Uploads!TypeOK

\* No user waits for ever while others are served.
\*   - NobodyStarves (FairSelection): _load_fairness_user_order: "torrent windows cannot skip a
\*     user forever".  A user who always has an eligible torrent does not go without a running
\*     one for ever, whatever the sizes, the window, the completions and the stalls of the
\*     others.
NobodyStarves ==
  \A u \in {1, 2, 3} : []<>~(scenario = "selection" /\ Selection!Hungry(u))

\* A job that is claimed again and again, and the removal of a directory that is cut short again
\* and again, both end.
\*   - JobEnds (JobQueue): Every enqueued job ends, whatever the handlers do: even if they hang,
\*     wait for a resource for ever, or every process that claims the job dies.
\*   - PurgeEnds (ContentStore): As long as the purge is tried again the directory goes away in
\*     the end, although an attempt removes no more than its budget and any of them may be
\*     interrupted: entries are removed as they are met.
WorkEnds ==
  /\ \A j \in {j1, j2} : []<>~(scenario = "jobs" /\ Jobs!Open(j))
  /\ []<>(scenario = "removal" => Removal!Gone)

\* What deletes never goes beyond its task: the purge of a content stays in its directory and its
\* budget, a backup that reports success left a dump to restore.
\*   - ElsewhereKept (ContentStore): An attempt never touches what is outside the managed
\*     directory, even when an entry is replaced between the look and the call (_purge_directory,
\*     _open_directory).
\*   - WithinBudget (ContentStore): The entries an attempt meets, in all the directories
\*     together, are at most max_entries (_purge_directory's max_entries - removed).
\*   - SuccessHasPoint (DatabaseBackup): The last success that is reported is a run whose point,
\*     or a newer one, can be restored: whatever failed, was killed or deleted since, the point
\*     is gone only if the disk damaged it.
DeletionsSafe ==
  /\ scenario = "removal" => Removal!ElsewhereKept
  /\ scenario = "removal" => Removal!WithinBudget
  /\ scenario = "dumps" => Dumps!SuccessHasPoint

\* A step never takes what an earlier one settled: the turn of a torrent that runs alone, the
\* dumps a rotation keeps.
\*   - UnsharedKept (FairSelection): The part of QuantumKept the code does guarantee: a cycle
\*     between two rotations never stops the eligible torrent of an account that shares none of
\*     its torrents.
\*   - DeletedForKept (DatabaseBackup): The retention deletes a point only for points that it
\*     keeps: an old one of a week that still has a newer published point, or one behind
\*     KeepWeeks newer weeks that each have one.
KeepsPromised ==
  [][/\ scenario = "selection" => Selection!UnsharedKeptStep
     /\ scenario = "dumps" => Dumps!DeletedForKeptStep]_MCvars

\* A lease whose download is over does not hold the content for ever.
\*   - LeaseEnds (Downloads): A lease never outlives its request for ever: a failed deletion, a
\*     crash or a cancelled commit leave a row that nobody renews, and time passes.
LeasesEnd ==
  WF_MCvars(OnlyLeases /\ Tick) => \A d \in {f1, a1} : []<>~(scenario = "leases" /\ Over(d) /\ Live(d))

\* Nobody waits for ever for what another one holds: an archive for its place in the queue, a
\* torrent for the upload that has its row locked.
\*   - QueueMoves (Downloads): Every archive in the queue gets its turn or leaves: no
\*     notification is lost, whoever is cancelled in front of it.
\*   - LockReleased (UploadStaging): The row lock of an upload is never kept: whoever holds it
\*     gets through, even if its client left while the disk thread was writing.
WaitsEnd ==
  /\ \A d \in {a1, a2, a3} : []<>~(scenario = "queue" /\ Queue!Queued(d))
  /\ \A u \in {a, b} : []<>~(scenario = "uploads" /\ Uploads!Locks(u))
=============================================================================
