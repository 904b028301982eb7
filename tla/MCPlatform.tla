----------------------------- MODULE MCPlatform -----------------------------
(*
  What keeps the deployment going: options in the database and in files, the qBittorrent
  gateway, the import of the first version, the archives of the host, reconciliation and
  recovery, and the slots of the scheduler.

  A behaviour runs one of the components, chosen by scenario in the initial state.
  SchedulerCycle is extended and keeps the names of its variables; the others are instances,
  and the state variables x1, x2, ... stand for their variables in the order their modules
  declare them. What a component does not need stays as it was at first.
*)
EXTENDS SchedulerCycle, TLC

CONSTANTS a1, a2, b1, b2, h1, h2, i1, i2, n1, n2, t1, t2, t3, u1, u2

VARIABLES scenario, x1, x2, x3, x4, x5, x6, x7, x8, x9, x10, x11, x12, x13

MCvars == <<scenario, vars, x1, x2, x3, x4, x5, x6, x7, x8, x9, x10, x11, x12, x13>>

Bounds_ == [k \in {"critical", "reserve", "warning"} |-> IF k = "reserve" THEN 0..2 ELSE 1..3]
Changes_ == {[warning |-> 2], [critical |-> 2], [critical |-> 3, reserve |-> 2]}

\* The second inventory repeats a right of the first, and adds one on each torrent.
Imported(u, h, n) == [user |-> u, hash |-> h, name |-> n]
Rows_ == [i \in {i1, i2} |-> IF i = i1 THEN {Imported(u1, h1, n1)}
                             ELSE {Imported(u1, h1, n1), Imported(u2, h1, n1), Imported(u2, h2, n2)}]

Options == INSTANCE OptionRegistry WITH
  Admin <- {a1, a2}, Service <- {b1, b2}, Order <- <<"critical", "reserve", "warning">>,
  Bounds <- Bounds_, Default <- [critical |-> 3, reserve |-> 0, warning |-> 1],
  Strict <- {<<"warning", "critical">>}, Ordered <- {}, Capped <- {}, Account <- {}, Rate <- {},
  Floor <- 1, Fits <- {}, Reserve <- {<<"reserve", "warning">>}, Full <- 3, Changes <- Changes_,
  Present <- {"critical", "reserve"}, MaxVersion <- 2, MaxManual <- 0, rows <- x1, audit <- x2,
  tx <- x3, page <- x4, manual <- x5

OnlyOptions == scenario = "options" /\ UNCHANGED <<scenario, vars, x6, x7, x8, x9, x10, x11, x12, x13>>

\* An operator edits a row while an administrator and a service are at work.
EditedOptions == INSTANCE OptionRegistry WITH
  Admin <- {a1}, Service <- {b1}, Order <- <<"critical", "reserve", "warning">>,
  Bounds <- Bounds_, Default <- [critical |-> 3, reserve |-> 0, warning |-> 1],
  Strict <- {<<"warning", "critical">>}, Ordered <- {}, Capped <- {}, Account <- {}, Rate <- {},
  Floor <- 1, Fits <- {}, Reserve <- {<<"reserve", "warning">>}, Full <- 3, Changes <- Changes_,
  Present <- {"critical", "reserve"}, MaxVersion <- 2, MaxManual <- 1, rows <- x1, audit <- x2,
  tx <- x3, page <- x4, manual <- x5

OnlyEditedOptions == scenario = "options by hand" /\ UNCHANGED <<scenario, vars, x6, x7, x8, x9, x10, x11, x12, x13>>

OptionsFile == INSTANCE OptionFiles WITH
  Kind <- "options", Thread <- {a1, a2}, Field <- {b1, b2}, MaxWrites <- 3, MaxEdits <- 3,
  MaxCrashes <- 1, file <- x1, backup <- x2, call <- x3, holder <- x4, editing <- x5,
  writes <- x6, edits <- x7, crashes <- x8

OnlyOptionsFile == scenario = ".options" /\ UNCHANGED <<scenario, vars, x9, x10, x11, x12, x13>>

ConfigFile == INSTANCE OptionFiles WITH
  Kind <- "config", Thread <- {a1, a2}, Field <- {b1, b2}, MaxWrites <- 3, MaxEdits <- 3,
  MaxCrashes <- 1, file <- x1, backup <- x2, call <- x3, holder <- x4, editing <- x5,
  writes <- x6, edits <- x7, crashes <- x8

OnlyConfigFile == scenario = "config.ini" /\ UNCHANGED <<scenario, vars, x9, x10, x11, x12, x13>>

QBittorrent == INSTANCE Gateway WITH
  Task <- {a1, a2}, Hash <- {b1, b2}, qb <- x1, late <- x2, sessions <- x3, cookie <- x4,
  holder <- x5, op <- x6

OnlyQBittorrent == scenario = "gateway" /\ UNCHANGED <<scenario, vars, x7, x8, x9, x10, x11, x12, x13>>

Import == INSTANCE V1Import WITH
  User <- {u1, u2}, Hash <- {h1, h2}, Name <- {n1, n2}, Inventory <- {i1, i2}, Rows <- Rows_,
  MaxRequests <- 2, active <- x1, torrents <- x2, requests <- x3, runs <- x4, undone <- x5,
  made <- x6

OnlyImport == scenario = "import" /\ UNCHANGED <<scenario, vars, x7, x8, x9, x10, x11, x12, x13>>

Archives == INSTANCE HostBackup WITH
  Snapshot <- {b1, b2}, Runner <- {a1}, MaxVersion <- 2, MaxFaults <- 1, up <- x1,
  version <- x2, taken <- x3, run <- x4, file <- x5, sidecar <- x6, restore <- x7, staged <- x8,
  faults <- x9

OnlyArchives == scenario = "archives" /\ UNCHANGED <<scenario, vars, x10, x11, x12, x13>>

Scan == INSTANCE Reconciliation WITH
  Torrent <- 1..4, Home <- <<n1, n1, n1, n2>>, Accounts <- <<n1, n2>>, Foreign <- {1},
  Limit <- 1, PageSize <- 1, MaxPages <- 2, MaxCycles <- 2, MaxChanges <- 1, row <- x1,
  qb <- x2, disk <- x3, cycle <- x4, pub <- x5, health <- x6, snaps <- x7, report <- x8,
  seen <- x9, found <- x10, since <- x11, shrunk <- x12, changes <- x13

OnlyScan == scenario = "reconciliation" /\ UNCHANGED <<scenario, vars>>

\* Two administrators who recover the same torrent.
Rescues == INSTANCE Recovery WITH
  Admin <- {a1, a2}, MaxRequests <- 2, MaxWork <- 1, MaxJobs <- 2, MaxFaults <- 0, row <- x1,
  kind <- x2, qb <- x3, disk <- x4, jobs <- x5, call <- x6, requests <- x7, works <- x8,
  faults <- x9

OnlyRescues == scenario = "two recoveries" /\ UNCHANGED <<scenario, vars, x10, x11, x12, x13>>

\* One administrator, and calls that fail or whose outcome is not known.
Rescue == INSTANCE Recovery WITH
  Admin <- {a1}, MaxRequests <- 2, MaxWork <- 2, MaxJobs <- 2, MaxFaults <- 1, row <- x1,
  kind <- x2, qb <- x3, disk <- x4, jobs <- x5, call <- x6, requests <- x7, works <- x8,
  faults <- x9

OnlyRescue == scenario = "recovery" /\ UNCHANGED <<scenario, vars, x10, x11, x12, x13>>

OnlySlots == scenario = "slots" /\ UNCHANGED <<scenario, x1, x2, x3, x4, x5, x6, x7, x8, x9, x10, x11, x12, x13>>

ASSUME OptionsParameters == Options!Parameters

ASSUME EditedOptionsParameters == EditedOptions!Parameters

ASSUME OptionsFileParameters == OptionsFile!Parameters

ASSUME ConfigFileParameters == ConfigFile!Parameters

ASSUME QBittorrentParameters == QBittorrent!Parameters

ASSUME ImportParameters == Import!Parameters

ASSUME ArchivesParameters == Archives!Parameters

ASSUME RescuesParameters == Rescues!Parameters

ASSUME RescueParameters == Rescue!Parameters

MCInit ==
  /\ Init
  /\ \/ /\ scenario = "options" /\ Options!Init
        /\ x6 = 0 /\ x7 = 0 /\ x8 = 0 /\ x9 = 0 /\ x10 = 0 /\ x11 = 0 /\ x12 = 0 /\ x13 = 0
     \/ /\ scenario = "options by hand" /\ EditedOptions!Init
        /\ x6 = 0 /\ x7 = 0 /\ x8 = 0 /\ x9 = 0 /\ x10 = 0 /\ x11 = 0 /\ x12 = 0 /\ x13 = 0
     \/ /\ scenario = ".options" /\ OptionsFile!Init
        /\ x9 = 0 /\ x10 = 0 /\ x11 = 0 /\ x12 = 0 /\ x13 = 0
     \/ /\ scenario = "config.ini" /\ ConfigFile!Init
        /\ x9 = 0 /\ x10 = 0 /\ x11 = 0 /\ x12 = 0 /\ x13 = 0
     \/ /\ scenario = "gateway" /\ QBittorrent!Init
        /\ x7 = 0 /\ x8 = 0 /\ x9 = 0 /\ x10 = 0 /\ x11 = 0 /\ x12 = 0 /\ x13 = 0
     \/ /\ scenario = "import" /\ Import!Init
        /\ x7 = 0 /\ x8 = 0 /\ x9 = 0 /\ x10 = 0 /\ x11 = 0 /\ x12 = 0 /\ x13 = 0
     \/ /\ scenario = "archives" /\ Archives!Init
        /\ x10 = 0 /\ x11 = 0 /\ x12 = 0 /\ x13 = 0
     \/ /\ scenario = "reconciliation" /\ Scan!Init
     \/ /\ scenario = "two recoveries" /\ Rescues!Init
        /\ x10 = 0 /\ x11 = 0 /\ x12 = 0 /\ x13 = 0
     \/ /\ scenario = "recovery" /\ Rescue!Init
        /\ x10 = 0 /\ x11 = 0 /\ x12 = 0 /\ x13 = 0
     \/ /\ scenario = "slots"
        /\ x1 = 0 /\ x2 = 0 /\ x3 = 0 /\ x4 = 0 /\ x5 = 0 /\ x6 = 0 /\ x7 = 0 /\ x8 = 0 /\ x9 = 0
        /\ x10 = 0 /\ x11 = 0 /\ x12 = 0 /\ x13 = 0

MCNext ==
  \/ OnlyOptions /\ Options!Next
  \/ OnlyEditedOptions /\ EditedOptions!Next
  \/ OnlyOptionsFile /\ OptionsFile!Next
  \/ OnlyConfigFile /\ ConfigFile!Next
  \/ OnlyQBittorrent /\ QBittorrent!Next
  \/ OnlyImport /\ Import!Next
  \/ OnlyArchives /\ Archives!Next
  \/ OnlyScan /\ Scan!Next
  \/ OnlyRescues /\ Rescues!Next
  \/ OnlyRescue /\ Rescue!Next
  \/ OnlySlots /\ Next

MCSpec == MCInit /\ [][MCNext]_MCvars

-----------------------------------------------------------------------------
\* Readers of the options are served valid ones, every change is in the audit, and a file of
\* options is whole at any crash.
\*   - ReadersServed (OptionRegistry): Whatever administrators and services do at the same time,
\*     every reader of the options finds a valid state: only an edit by hand can make the
\*     application unable to read them.
\*   - AuditExact (OptionRegistry): The audit of an option is its whole history: versions without
\*     a gap, each event starting from the value the one before left, the last one being the row.
\*   - OptionsInv (OptionRegistry): The inductive invariant: what a transaction has validated
\*     still holds when it commits, and what a page shows of a version is what that version had.
\*   - Whole (OptionFiles): Whoever reads the file, and whenever the process stops, finds a whole
\*     text: only an editor's own rewriting shows a part of one.
\*   - FilesInv (OptionFiles): The inductive invariant: only the thread that has the lock is at
\*     work, and it knows what it read.
\*   - TypeOK: the state has the types each component gives it.
SettingsKept ==
  /\ scenario = "options" => Options!ReadersServed
  /\ scenario = "options by hand" => EditedOptions!ReadersServed
  /\ scenario = "options" => Options!AuditExact
  /\ scenario = "options by hand" => EditedOptions!AuditExact
  /\ scenario = "options" => Options!OptionsInv
  /\ scenario = "options by hand" => EditedOptions!OptionsInv
  /\ scenario = ".options" => OptionsFile!Whole
  /\ scenario = "config.ini" => ConfigFile!Whole
  /\ scenario = ".options" => OptionsFile!FilesInv
  /\ scenario = "config.ini" => ConfigFile!FilesInv
  /\ scenario = "options" => Options!TypeOK
  /\ scenario = "options by hand" => EditedOptions!TypeOK
  /\ scenario = ".options" => OptionsFile!TypeOK
  /\ scenario = "config.ini" => ConfigFile!TypeOK
  /\ scenario = "gateway" => QBittorrent!TypeOK
  /\ scenario = "import" => Import!TypeOK
  /\ scenario = "archives" => Archives!TypeOK
  /\ scenario = "reconciliation" => Scan!TypeOK
  /\ scenario = "two recoveries" => Rescues!TypeOK
  /\ scenario = "recovery" => Rescue!TypeOK

\* What is reported of the world outside the database is so: answers of qBittorrent, restored
\* archives, the scan of reconciliation.
\*   - SessionOwn (Gateway): Only qBittorrent forgetting its sessions makes an operation fail on
\*     authentication after its login: no other task of the process closes or replaces its
\*     session.
\*   - AddTruthful (Gateway): An add that reports success leaves the application's own torrent in
\*     qBittorrent, and an inspection succeeds on nothing else.
\*   - GatewayInv (Gateway): The inductive invariant: an operation works alone under the lock,
\*     with the session it opened, and knows what became of its torrent.
\*   - RestoredWhole (HostBackup): A restoration leaves either nothing or the whole payload of
\*     one run, bound to the snapshot that was asked for and no older than it: neither an
\*     interrupted archive, nor one that another run or the disk changed after its checksum was
\*     compared, ever becomes a staged restore.
\*   - BackupInv (HostBackup): The inductive invariant: the runs copy after their snapshot was
\*     taken, which is never taken again.
\*   - ScannedOnce (Reconciliation): A report read to its end has scanned every torrent that had
\*     a row when it began, every item of its snapshots and every directory that stayed on disk,
\*     each exactly once, whatever was inserted or removed between two pages.
\*   - SnapshotsCoherent (Reconciliation): The snapshots that a report uses are those of every
\*     account, of one and the same cycle, and whole, although each account is published in a
\*     transaction of its own and the report reads snapshots and health in two statements.
\*   - NoFalseAlarm (Reconciliation): A torrent that was live before the cycle of the report's
\*     snapshots began is reported as missing only if a torrent left its account since: a report
\*     never mistakes a mixture of cycles or a list that was cut for a loss.  (A removal between
\*     two pages of the listing may hide a neighbour.)
OutsideTruthful ==
  /\ scenario = "gateway" => QBittorrent!SessionOwn
  /\ scenario = "gateway" => QBittorrent!AddTruthful
  /\ scenario = "gateway" => QBittorrent!GatewayInv
  /\ scenario = "archives" => Archives!RestoredWhole
  /\ scenario = "archives" => Archives!BackupInv
  /\ scenario = "reconciliation" => Scan!ScannedOnce
  /\ scenario = "reconciliation" => Scan!SnapshotsCoherent
  /\ scenario = "reconciliation" => Scan!NoFalseAlarm

\* Imports and recoveries may be repeated and may race without doubling or losing anything.
\*   - MappingKept (V1Import): As long as a run is applied, every row of its inventory has its
\*     right: no rollback of an earlier run takes away what a later inventory found in place.
\*   - NoDangling (V1Import): No request refers to a torrent that a rollback deleted.
\*   - ImportInv (V1Import): The inductive invariant: what an inventory made is there while it is
\*     applied, and rests on nothing that a later one made.
\*   - OneRecovery (Recovery): However many administrators ask, and however often a job failed, a
\*     generation of the torrent has at most one unfinished recovery of each kind.
\*   - RecoveryInv (Recovery): The inductive invariant: records are alike if they were taken of
\*     one row, and a record that fits the row still says what is missing.
RecoverySafe ==
  /\ scenario = "import" => Import!MappingKept
  /\ scenario = "import" => Import!NoDangling
  /\ scenario = "import" => Import!ImportInv
  /\ scenario = "two recoveries" => Rescues!OneRecovery
  /\ scenario = "recovery" => Rescue!OneRecovery
  /\ scenario = "two recoveries" => Rescues!RecoveryInv
  /\ scenario = "recovery" => Rescue!RecoveryInv

\* A step never overwrites what another actor wrote and it did not read.
\*   - NoLostUpdate (OptionRegistry): An administrator who sends the versions of the page never
\*     overwrites a value that is not the one the page showed.
\*   - ThreadsSerial (OptionFiles): A thread never undoes what another thread saved: without an
\*     edit by hand, what is replaced is the text the update started from.
\*   - EditKept (OptionFiles): What an operator changed in .options between the store's read and
\*     its comparison is never overwritten: the update is refused.
\*   - BackupPrevious (OptionFiles): Until somebody edits .options by hand or the process stops,
\*     the backup is the text before the current one.
\*   - RemoveTruthful (Gateway): A removal reports success only when qBittorrent no longer holds
\*     the torrent, and adopts or removes nothing that somebody else added.
\*   - RightsKept (V1Import): A right that a person has used since the import is never deleted.
\*   - RecoveryHarmless (Recovery): A recovery forgets a torrent only while neither qBittorrent
\*     nor the disk holds it, although it asked them earlier, and takes away exactly the rights
\*     that the administrator's call saw.
NothingOverwritten ==
  [][/\ scenario = "options" => Options!NoLostUpdateStep
     /\ scenario = "options by hand" => EditedOptions!NoLostUpdateStep
     /\ scenario = ".options" => OptionsFile!ThreadsSerialStep
     /\ scenario = "config.ini" => ConfigFile!ThreadsSerialStep
     /\ scenario = ".options" => OptionsFile!EditKeptStep
     /\ scenario = "config.ini" => ConfigFile!EditKeptStep
     /\ scenario = ".options" => OptionsFile!BackupPreviousStep
     /\ scenario = "config.ini" => ConfigFile!BackupPreviousStep
     /\ scenario = "gateway" => QBittorrent!RemoveTruthfulStep
     /\ scenario = "import" => Import!RightsKeptStep
     /\ scenario = "two recoveries" => Rescues!RecoveryHarmlessStep
     /\ scenario = "recovery" => Rescue!RecoveryHarmlessStep]_MCvars

\* Which of several equal actors does what makes no difference.
Symmetry == Permutations({a1, a2}) \cup Permutations({b1, b2})
=============================================================================
