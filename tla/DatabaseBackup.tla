--------------------------- MODULE DatabaseBackup ---------------------------
(***************************************************************************)
(* The encrypted backups of the database: the daily timer and a deployment *)
(* run the same script, which dumps, restores the dump into a disposable   *)
(* container, encrypts, publishes the archive and then its manifest,       *)
(* deletes what the retention no longer keeps and reports.  A run may fail *)
(* or be killed between any two steps, and archives may rot on disk.       *)
(* A point is named by its run; a time stamp is the day it was made.       *)
(***************************************************************************)
EXTENDS Naturals, Sequences, FiniteSets, FiniteSetsExt, SequencesExt

CONSTANTS
  Runner,      \* the processes that run the script: the timer's unit, a deployment
  MaxDay, MaxRuns,
  MaxFaults,   \* bound: failures, kills and damaged archives
  KeepDays,    \* points of the last KeepDays days are kept (14)
  KeepWeeks,   \* and the newest one of each of KeepWeeks weeks (8)
  WeekDays     \* days of a week

VARIABLES
  day, runs, faults,
  lock,        \* the runner that holds .lock, or None
  job,         \* [runner -> [pc, id, last, dump, doomed, good]]
  stamp,       \* [point -> the day in its name]
  archive,     \* [point -> "none", "good", "bad" (does not restore) or "damaged"]
  manifest,    \* points that have a manifest
  status,      \* status.json: the last successful run and the outcome of the last attempt
  metrics,     \* the same two values, for the exporter
  litter       \* staging directories and restore containers that were left behind

vars == <<day, runs, faults, lock, job, stamp, archive, manifest, status, metrics, litter>>

None == "none"
Point == 1..MaxRuns
Idle == [pc |-> "idle", id |-> 0, last |-> 0, dump |-> "none", doomed |-> <<>>, good |-> FALSE]
Report(last, good) == [last |-> last, good |-> good]

Init ==
  /\ day = 1 /\ runs = 0 /\ faults = 0 /\ lock = None /\ job = [r \in Runner |-> Idle]
  /\ stamp = [p \in Point |-> 0] /\ archive = [p \in Point |-> "none"] /\ manifest = {}
  /\ status = Report(0, FALSE) /\ metrics = Report(0, FALSE) /\ litter = 0

Goto(r, pc) == job' = [job EXCEPT ![r].pc = pc]
Fault == faults < MaxFaults /\ faults' = faults + 1

\* An exception: the failure is reported with the success that the run had read at its start.
Fails(r) == Fault /\ job' = [job EXCEPT ![r].pc = "status", ![r].good = FALSE]

-----------------------------------------------------------------------------
(* Retention *)

Week(p) == stamp[p] \div WeekDays

\* Archives whose manifest, digest and proof hold; the others are left to the operator.
Verified == {p \in manifest : archive[p] \in {"good", "bad"}}

Newer(p, q) == stamp[p] > stamp[q] \/ (stamp[p] = stamp[q] /\ p > q)

\* Mutated form: oldest first, so that a week keeps its oldest point.
OrderUp == SetToSortSeq(Verified, LAMBDA p, q : Newer(q, p))

\* The order in which the points are looked at: newest first.
Order == SetToSortSeq(Verified, Newer)

\* The points of an order that neither rule keeps; every point looked at claims its week.
Doomed(order, now) ==
  LET Weeks(n) == {Week(order[m]) : m \in 1..(n - 1)}
      Weekly(n) == Week(order[n]) \notin Weeks(n) /\ Cardinality(Weeks(n)) < KeepWeeks
      lost == {n \in DOMAIN order : stamp[order[n]] + KeepDays < now /\ ~Weekly(n)} IN
  [i \in 1..Cardinality(lost) |-> order[SetToSortSeq(lost, <)[i]]]

-----------------------------------------------------------------------------
(* A run *)

\* Only one run at a time holds the lock; one that cannot have it says nothing and ends.
Begin(r) ==
  /\ job[r].pc = "idle" /\ lock = None /\ runs < MaxRuns
  /\ lock' = r /\ runs' = runs + 1
  /\ job' = [job EXCEPT ![r] = [Idle EXCEPT !.pc = "dump", !.id = runs + 1, !.last = status.last]]
  /\ UNCHANGED <<day, faults, stamp, archive, manifest, status, metrics, litter>>

\* pg_dump into the staging directory, which may deliver a dump that does not restore.
Dump(r) ==
  /\ job[r].pc = "dump"
  /\ stamp' = [stamp EXCEPT ![job[r].id] = day]
  /\ \/ \E d \in {"good", "bad"} :
          /\ job' = [job EXCEPT ![r].pc = "check", ![r].dump = d]
          /\ IF d = "bad" THEN Fault ELSE UNCHANGED faults
     \/ Fails(r)
  /\ UNCHANGED <<day, runs, lock, archive, manifest, status, metrics, litter>>

\* Mutated form: a dump that pg_dump ended without an error counts as proven.
PassesDumped(r) == job[r].dump # "none"

Passes(r) == job[r].dump = "good"

\* The dump is restored in a container of its own, which is removed in every case; a removal that
\* fails leaves it behind and fails the run.
RestoreDump(r) ==
  /\ job[r].pc = "check"
  /\ \/ Passes(r) /\ Goto(r, "publish") /\ UNCHANGED <<faults, litter>>
     \/ ~Passes(r) /\ job' = [job EXCEPT ![r].pc = "status"] /\ UNCHANGED <<faults, litter>>
     \/ Fails(r) /\ litter' \in {litter, litter + 1}
  /\ UNCHANGED <<day, runs, lock, stamp, archive, manifest, status, metrics>>

\* The encrypted dump is linked under its final name, which no other point has.
Publish(r) ==
  /\ job[r].pc = "publish"
  /\ \/ archive' = [archive EXCEPT ![job[r].id] = job[r].dump] /\ Goto(r, "manifest") /\ UNCHANGED faults
     \/ Fails(r) /\ UNCHANGED archive
  /\ UNCHANGED <<day, runs, lock, stamp, manifest, status, metrics, litter>>

WriteManifest(r) ==
  /\ job[r].pc = "manifest"
  /\ \/ manifest' = manifest \cup {job[r].id} /\ Goto(r, "retention") /\ UNCHANGED faults
     \/ Fails(r) /\ UNCHANGED manifest
  /\ UNCHANGED <<day, runs, lock, stamp, archive, status, metrics, litter>>

\* The points to delete are decided from one listing, and as of the day of this run's own stamp.
Listing(r) ==
  /\ job[r].pc = "retention"
  /\ job' = [job EXCEPT ![r].pc = "delete", ![r].doomed = Doomed(Order, stamp[job[r].id])]
  /\ UNCHANGED <<day, runs, faults, lock, stamp, archive, manifest, status, metrics, litter>>

\* One point: its archive and then its manifest.
Delete(r) ==
  /\ job[r].pc = "delete" /\ job[r].doomed # <<>>
  /\ \/ /\ archive' = [archive EXCEPT ![Head(job[r].doomed)] = "none"]
        /\ job' = [job EXCEPT ![r].pc = "unlist"] /\ UNCHANGED faults
     \/ Fails(r) /\ UNCHANGED archive
  /\ UNCHANGED <<day, runs, lock, stamp, manifest, status, metrics, litter>>

Unlist(r) ==
  /\ job[r].pc = "unlist"
  /\ \/ /\ manifest' = manifest \ {Head(job[r].doomed)}
        /\ job' = [job EXCEPT ![r].pc = "delete", ![r].doomed = Tail(@)] /\ UNCHANGED faults
     \/ Fails(r) /\ UNCHANGED manifest
  /\ UNCHANGED <<day, runs, lock, stamp, archive, status, metrics, litter>>

Kept(r) ==
  /\ job[r].pc = "delete" /\ job[r].doomed = <<>>
  /\ job' = [job EXCEPT ![r].pc = "status", ![r].good = TRUE]
  /\ UNCHANGED <<day, runs, faults, lock, stamp, archive, manifest, status, metrics, litter>>

\* What a run reports as the last success: itself, or the one before it.
LastSuccess(r) == IF job[r].good THEN job[r].id ELSE job[r].last

\* publish_metrics: the status and then the metrics.  If the metrics cannot be written the run
\* reports again, as a failure; if that fails too it ends where it is.
WriteStatus(r) ==
  /\ job[r].pc = "status"
  /\ \/ status' = Report(LastSuccess(r), job[r].good) /\ Goto(r, "metrics") /\ UNCHANGED <<faults, lock>>
     \/ job[r].good /\ Fails(r) /\ UNCHANGED <<status, lock>>
     \/ ~job[r].good /\ Fault /\ job' = [job EXCEPT ![r] = Idle] /\ lock' = None /\ UNCHANGED status
  /\ UNCHANGED <<day, runs, stamp, archive, manifest, metrics, litter>>

WriteMetrics(r) ==
  /\ job[r].pc = "metrics"
  /\ \/ /\ metrics' = Report(LastSuccess(r), job[r].good)
        /\ job' = [job EXCEPT ![r] = Idle] /\ lock' = None /\ UNCHANGED faults
     \/ job[r].good /\ Fails(r) /\ UNCHANGED <<metrics, lock>>
     \/ ~job[r].good /\ Fault /\ job' = [job EXCEPT ![r] = Idle] /\ lock' = None /\ UNCHANGED metrics
  /\ UNCHANGED <<day, runs, stamp, archive, manifest, status, litter>>

Staged == {"check", "publish", "manifest"}

\* The process is killed: the kernel frees its lock, the staging directory stays.
Kill(r) ==
  /\ job[r].pc # "idle" /\ Fault
  /\ job' = [job EXCEPT ![r] = Idle] /\ lock' = None
  /\ litter' = litter + (IF job[r].pc \in Staged THEN 1 ELSE 0)
  /\ UNCHANGED <<day, runs, stamp, archive, manifest, status, metrics>>

-----------------------------------------------------------------------------

Damage(p) ==
  /\ archive[p] \in {"good", "bad"} /\ Fault
  /\ archive' = [archive EXCEPT ![p] = "damaged"]
  /\ UNCHANGED <<day, runs, lock, job, stamp, manifest, status, metrics, litter>>

Tick ==
  /\ day < MaxDay /\ day' = day + 1
  /\ UNCHANGED <<runs, faults, lock, job, stamp, archive, manifest, status, metrics, litter>>

Next ==
  \/ Tick \/ \E p \in Point : Damage(p)
  \/ \E r \in Runner :
       \/ Begin(r) \/ Dump(r) \/ RestoreDump(r) \/ Publish(r) \/ WriteManifest(r) \/ Listing(r)
       \/ Delete(r) \/ Unlist(r) \/ Kept(r) \/ WriteStatus(r) \/ WriteMetrics(r) \/ Kill(r)

Spec == Init /\ [][Next]_vars

-----------------------------------------------------------------------------

TypeOK ==
  /\ day \in 1..MaxDay /\ runs \in 0..MaxRuns /\ faults \in 0..MaxFaults /\ litter \in Nat
  /\ lock \in Runner \cup {None} /\ \A r \in Runner : (lock = r) = (job[r].pc # "idle")
  /\ stamp \in [Point -> 0..MaxDay] /\ archive \in [Point -> {"none", "good", "bad", "damaged"}]
  /\ manifest \subseteq Point
  /\ status \in [last : 0..MaxRuns, good : BOOLEAN] /\ metrics \in [last : 0..MaxRuns, good : BOOLEAN]

\* The last success that is reported is a run whose point, or a newer one, can be restored: whatever
\* failed, was killed or deleted since, the point is gone only if the disk damaged it.
SuccessHasPoint ==
  \A last \in {status.last, metrics.last} \ {0} :
    \/ archive[last] = "damaged"
    \/ \E p \in Verified : archive[p] = "good" /\ (p = last \/ Newer(p, last))
    \/ \E p \in Point : archive[p] = "damaged" /\ Newer(p, last)

\* The retention deletes a point only for points that it keeps: an old one of a week that still has
\* a newer published point, or one behind KeepWeeks newer weeks that each have one.
DeletedForKeptStep ==
  \A p \in Point : archive[p] # "none" /\ archive'[p] = "none" =>
    LET newer == {q \in manifest : Newer(q, p) /\ archive'[q] # "none"} IN
    /\ p \in manifest /\ stamp[p] + KeepDays < day
    /\ \/ \E q \in newer : Week(q) = Week(p)
       \/ Cardinality({Week(q) : q \in newer}) >= KeepWeeks
DeletedForKept == [][DeletedForKeptStep]_vars
=============================================================================
