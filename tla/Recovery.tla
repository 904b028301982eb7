------------------------------ MODULE Recovery ------------------------------
(***************************************************************************)
(* The recovery of one torrent that a reconciliation report calls missing. *)
(* An administrator's call records what it saw of the torrent in a durable *)
(* job; a worker later asks qBittorrent and the disk again and, in one     *)
(* transaction, compares the record with the row before it takes rights    *)
(* away.  Meanwhile users join and leave, jobs add and purge the content,  *)
(* workers crash, and several administrators press the same button.        *)
(***************************************************************************)
EXTENDS Naturals, Sequences, FiniteSets

CONSTANTS
  Admin,
  MaxRequests, MaxWork, MaxJobs, MaxFaults   \* bounds

\* The torrent starts with one request.
Parameters == MaxRequests \in Nat \ {0} /\ MaxWork \in Nat /\ MaxJobs \in Nat

VARIABLES
  row,      \* [state, gen, requests, work]: the ids of active requests and jobs
  kind,     \* [work -> "add", "purge", either of them "late" once it is cancelled, or "none"]
  qb, disk, \* is the torrent in qBittorrent, and on disk?
  jobs,     \* recovery jobs: [action, seen, key, state, qb, disk]
  call,     \* [administrator -> [pc, action, seen, key]]
  requests, works, faults

vars == <<row, kind, qb, disk, jobs, call, requests, works, faults>>

Action == {"cancel_requests", "purge_metadata"}
Seen == [gen |-> row.gen, requests |-> row.requests, work |-> row.work]
NoCall == [pc |-> "idle"]
Unfinished == {"QUEUED", "RUNNING", "PROBED", "APPLIED"}

Init ==
  /\ row = [state |-> "live", gen |-> 0, requests |-> {1}, work |-> {}]
  /\ kind = [w \in 1..MaxWork |-> "none"] /\ qb = TRUE /\ disk = TRUE
  /\ jobs = <<>> /\ call = [a \in Admin |-> NoCall] /\ requests = 1 /\ works = 0 /\ faults = 0

Fault == faults < MaxFaults /\ faults' = faults + 1

-----------------------------------------------------------------------------
(* Users, the torrent's own jobs, and losses *)

Purges == {w \in row.work : kind[w] = "purge"}
NewWork(k) == works < MaxWork /\ works' = works + 1 /\ kind' = [kind EXCEPT ![works + 1] = k]

\* A first request of a purged torrent starts it again; one during the grace period of a deferred
\* purge revokes the purge and begins a generation of its own.
Join ==
  /\ requests < MaxRequests /\ requests' = requests + 1
  /\ IF row.state = "purged"
     THEN /\ NewWork("add")
          /\ row' = [row EXCEPT !.state = "pending", !.requests = @ \cup {requests + 1}, !.work = @ \cup {works + 1}]
     ELSE /\ row' = [row EXCEPT !.requests = @ \cup {requests + 1}, !.work = @ \ Purges,
                                !.gen = IF Purges = {} THEN @ ELSE @ + 1]
          /\ UNCHANGED <<works, kind>>
  /\ UNCHANGED <<qb, disk, jobs, call, faults>>

\* The last one to leave begins a generation and schedules the purge.
Leave(q) ==
  /\ q \in row.requests
  /\ IF row.requests = {q}
     THEN NewWork("purge") /\ row' = [row EXCEPT !.requests = {}, !.gen = @ + 1, !.work = @ \cup {works + 1}]
     ELSE row' = [row EXCEPT !.requests = @ \ {q}] /\ UNCHANGED <<works, kind>>
  /\ UNCHANGED <<qb, disk, jobs, call, requests, faults>>

Adds(w) == kind[w] \in {"add", "late_add"}
Late(w) == kind[w] \in {"late_add", "late_purge"}

\* The worker carries out one of the torrent's own jobs.
Work(w) ==
  /\ w \in row.work /\ ~Late(w)
  /\ LET add == Adds(w) IN
     /\ qb' = add /\ disk' = add
     /\ row' = [row EXCEPT !.state = IF add THEN "live" ELSE "purged", !.work = @ \ {w}]
  /\ UNCHANGED <<kind, jobs, call, requests, works, faults>>

\* A job that a recovery cancelled while a worker ran it ends cancelled, but the call that was
\* under way may still take effect: an addition takes a torrent in error for one that it added,
\* a purge leaves alone a row that is not being purged.
EndLate(w) ==
  /\ w \in row.work /\ Late(w)
  /\ \/ UNCHANGED <<qb, disk>> /\ row' = [row EXCEPT !.work = @ \ {w}]
     \/ /\ qb' = Adds(w) /\ disk' = Adds(w)
        /\ row' = [row EXCEPT !.work = @ \ {w},
                              !.state = IF Adds(w) /\ @ # "purged" THEN "live" ELSE @]
  /\ UNCHANGED <<kind, jobs, call, requests, works, faults>>

\* qBittorrent, the disk or both lose it.
Lose(q, d) ==
  /\ Fault /\ ((qb /\ ~q) \/ (disk /\ ~d)) /\ (q => qb) /\ (d => disk)
  /\ qb' = q /\ disk' = d /\ UNCHANGED <<row, kind, jobs, call, requests, works>>

-----------------------------------------------------------------------------
(* The administrator's call *)

Same(action) == {j \in DOMAIN jobs : jobs[j].action = action /\ jobs[j].seen.gen = row.gen}
Newest(s) == CHOOSE j \in s : \A k \in s : k <= j

\* Mutated form: every repetition has a key of its own.
KeyOfCaller(a, action) == <<"call", a>>

\* A failed job may be repeated once, under a key that names it.
Key(a, action) == IF Same(action) = {} THEN <<"initial", 0>> ELSE <<"retry", Newest(Same(action))>>

\* The newest job of this action and generation answers the call unless it failed.
Ask(a, action) ==
  /\ call[a] = NoCall
  /\ Same(action) # {} => jobs[Newest(Same(action))].state = "FAILED"
  /\ call' = [call EXCEPT ![a] = [pc |-> "insert", action |-> action, seen |-> Seen, key |-> Key(a, action)]]
  /\ UNCHANGED <<row, kind, qb, disk, jobs, requests, works, faults>>

Taken(a) == \E j \in DOMAIN jobs :
  jobs[j].action = call[a].action /\ jobs[j].seen.gen = call[a].seen.gen /\ jobs[j].key = call[a].key

\* The unique key makes the second of two calls answer with the first one's job.
InsertJob(a) ==
  /\ call[a] # NoCall /\ (Taken(a) \/ Len(jobs) < MaxJobs)
  /\ call' = [call EXCEPT ![a] = NoCall]
  /\ jobs' = IF Taken(a) THEN jobs
             ELSE Append(jobs, [action |-> call[a].action, seen |-> call[a].seen, key |-> call[a].key,
                                state |-> "QUEUED", qb |-> TRUE, disk |-> TRUE])
  /\ UNCHANGED <<row, kind, qb, disk, requests, works, faults>>

-----------------------------------------------------------------------------
(* The worker *)

Becomes(j, state) == jobs' = [jobs EXCEPT ![j].state = state, ![j].qb = TRUE, ![j].disk = TRUE]

ProbeQb(j) ==
  /\ jobs[j].state = "QUEUED" /\ jobs' = [jobs EXCEPT ![j].state = "RUNNING", ![j].qb = qb]
  /\ UNCHANGED <<row, kind, qb, disk, call, requests, works, faults>>

ProbeDisk(j) ==
  /\ jobs[j].state = "RUNNING" /\ jobs' = [jobs EXCEPT ![j].state = "PROBED", ![j].disk = disk]
  /\ UNCHANGED <<row, kind, qb, disk, call, requests, works, faults>>

\* Evidence that cannot be had, or a crash of the worker, before or after the transaction: the job
\* is tried again, or has been tried too often.
Interrupted(j) ==
  /\ jobs[j].state \in {"RUNNING", "PROBED", "APPLIED"} /\ Fault
  /\ \E s \in {"QUEUED", "FAILED"} : Becomes(j, s)
  /\ UNCHANGED <<row, kind, qb, disk, call, requests, works>>

\* Mutated form: only the generation is compared.
UnchangedByGeneration(j) == jobs[j].seen.gen = row.gen

\* The row is as the administrator's call saw it.
Unchanged_(j) == jobs[j].seen = Seen

Refused(j) ==
  \/ ~Unchanged_(j)
  \/ row.state # "purged" /\ jobs[j].qb /\ jobs[j].disk
  \/ /\ row.state # "purged" /\ jobs[j].action = "purge_metadata"
     /\ (jobs[j].qb \/ jobs[j].disk \/ row.work # {})

Refuse(j) ==
  /\ jobs[j].state = "PROBED" /\ Refused(j) /\ Becomes(j, "FAILED")
  /\ UNCHANGED <<row, kind, qb, disk, call, requests, works, faults>>

Cancelled(k) == CASE k = "add" -> "late_add" [] k = "purge" -> "late_purge" [] OTHER -> k

\* recover_orphaned_torrent: the rights of the torrent end and a generation begins.  Its jobs that
\* are queued end too, and those that a worker is running are told to.
Apply(j) ==
  /\ jobs[j].state = "PROBED" /\ ~Refused(j) /\ Becomes(j, "APPLIED")
  /\ IF row.state = "purged" THEN UNCHANGED <<row, kind>>
     ELSE \E running \in SUBSET row.work :
            /\ row' = [state |-> IF jobs[j].action = "purge_metadata" THEN "purged" ELSE "error",
                       gen |-> row.gen + 1, requests |-> {}, work |-> running]
            /\ kind' = [w \in 1..MaxWork |-> IF w \in running THEN Cancelled(kind[w]) ELSE kind[w]]
  /\ UNCHANGED <<qb, disk, call, requests, works, faults>>

Succeed(j) ==
  /\ jobs[j].state = "APPLIED" /\ Becomes(j, "SUCCEEDED")
  /\ UNCHANGED <<row, kind, qb, disk, call, requests, works, faults>>

Next ==
  \/ Join \/ (\E q, d \in BOOLEAN : Lose(q, d)) \/ \E q \in 1..MaxRequests : Leave(q)
  \/ \E w \in 1..MaxWork : Work(w) \/ EndLate(w)
  \/ \E a \in Admin : InsertJob(a) \/ \E action \in Action : Ask(a, action)
  \/ \E j \in DOMAIN jobs :
       ProbeQb(j) \/ ProbeDisk(j) \/ Interrupted(j) \/ Refuse(j) \/ Apply(j) \/ Succeed(j)

Spec == Init /\ [][Next]_vars

-----------------------------------------------------------------------------

TypeOK ==
  /\ row \in [state : {"live", "pending", "error", "purged"}, gen : Nat,
              requests : SUBSET (1..MaxRequests), work : SUBSET (1..MaxWork)]
  /\ qb \in BOOLEAN /\ disk \in BOOLEAN /\ Len(jobs) <= MaxJobs
  /\ \A j \in DOMAIN jobs : jobs[j].state \in Unfinished \cup {"FAILED", "SUCCEEDED"}

\* A recovery forgets a torrent only while neither qBittorrent nor the disk holds it, although it
\* asked them earlier, and takes away exactly the rights that the administrator's call saw.
RecoveryHarmlessStep ==
  \A j \in DOMAIN jobs : jobs[j].state = "PROBED" /\ jobs'[j].state = "APPLIED" =>
    /\ row.state # "purged" /\ row'.state = "purged" => ~qb /\ ~disk
    /\ row.requests \ row'.requests \subseteq jobs[j].seen.requests
RecoveryHarmless == [][RecoveryHarmlessStep]_vars

\* However many administrators ask, and however often a job failed, a generation of the torrent has
\* at most one unfinished recovery of each kind.
OneRecovery == \A j, k \in DOMAIN jobs :
  /\ jobs[j].action = jobs[k].action /\ jobs[j].seen.gen = jobs[k].seen.gen
  /\ jobs[j].state \in Unfinished /\ jobs[k].state \in Unfinished
  => j = k

-----------------------------------------------------------------------------
(* Why they hold.                                                           *)

Record == [gen : Nat, requests : SUBSET (1..MaxRequests), work : SUBSET (1..MaxWork)]
Keys == ({"initial"} \X {0}) \cup ({"retry"} \X Nat)
Job == [action : Action, seen : Record, key : Keys,
        state : Unfinished \cup {"FAILED", "SUCCEEDED"}, qb : BOOLEAN, disk : BOOLEAN]
Call == [pc : {"insert"}, action : Action, seen : Record, key : Keys]

Shapes ==
  /\ row \in [state : {"live", "pending", "error", "purged"}, gen : Nat,
              requests : SUBSET (1..MaxRequests), work : SUBSET (1..MaxWork)]
  /\ kind \in [1..MaxWork -> {"none", "add", "purge", "late_add", "late_purge"}] /\ \A w \in row.work : kind[w] # "none"
  /\ qb \in BOOLEAN /\ disk \in BOOLEAN
  /\ jobs \in Seq(Job) /\ Len(jobs) <= MaxJobs
  /\ requests \in Nat /\ works \in 0..MaxWork
  /\ call \in [Admin -> Call \cup {NoCall}]

\* Two jobs that answer the same question.
Alike(j, k) == jobs[j].action = jobs[k].action /\ jobs[j].seen.gen = jobs[k].seen.gen

\* The jobs of an action and a generation are a chain: the first is the initial one, each of the
\* others repeats one before it, every one that has a later one is failed, and one is the newest.
Chain ==
  \A j \in DOMAIN jobs :
    /\ \E k \in DOMAIN jobs : Alike(j, k) /\ jobs[k].key = <<"initial", 0>>
    /\ \A k \in DOMAIN jobs : Alike(j, k) /\ k < j =>
         /\ jobs[k].state = "FAILED"
         /\ \E m \in DOMAIN jobs : Alike(j, m) /\ jobs[m].key = <<"retry", k>>
    /\ \E k \in DOMAIN jobs : Alike(j, k) /\ \A m \in DOMAIN jobs : Alike(j, m) => m <= k

\* A call that repeats a job names one that failed.
Repeats == \A a \in Admin : call[a] # NoCall /\ call[a].key # <<"initial", 0>> =>
  \E j \in DOMAIN jobs :
    /\ call[a].key = <<"retry", j>> /\ jobs[j].state = "FAILED"
    /\ jobs[j].action = call[a].action /\ jobs[j].seen.gen = call[a].seen.gen

\* What calls and jobs saw of the row.
Sights == {jobs[j].seen : j \in DOMAIN jobs} \cup {call[a].seen : a \in {b \in Admin : call[b] # NoCall}}

\* Generations, requests and jobs are never used again.
Fresh ==
  /\ \A q \in row.requests : q <= requests
  /\ \A w \in row.work : w <= works
  /\ \A s \in Sights : /\ s.gen <= row.gen
                       /\ \A q \in s.requests : q <= requests
                       /\ \A w \in s.work : w <= works

\* A purge is scheduled once, when nobody has a right, and a purged torrent has no right.
OnePurge ==
  /\ Purges # {} => row.requests = {}
  /\ \A v, w \in Purges : v = w
  /\ row.state = "purged" => Purges = {} /\ row.requests = {}

\* Somebody came after the row was seen, and all that were there have left.
Replaced(s) == row.requests # {} /\ row.requests \cap s.requests = {}

\* An addition that was not seen came with a request that was not seen.
Additions == \A s \in Sights : s.gen = row.gen =>
  \A w \in row.work : Adds(w) /\ w \notin s.work => Replaced(s)

\* The row is no longer as it was seen, and will not be again.
Gone(s) == s.gen < row.gen \/ Replaced(s) \/ \E w \in s.work : w \notin row.work

\* What a job found missing is missing, unless its record no longer fits the row.
Missing == \A j \in DOMAIN jobs :
  /\ jobs[j].state \in {"RUNNING", "PROBED"} /\ ((~jobs[j].qb /\ qb) \/ (~jobs[j].disk /\ disk)) =>
       Gone(jobs[j].seen)
  /\ jobs[j].state \in {"QUEUED", "RUNNING"} => jobs[j].disk

\* The inductive invariant: records are alike if they were taken of one row, and a record that
\* fits the row still says what is missing.
RecoveryInv == Shapes /\ Chain /\ Repeats /\ Fresh /\ OnePurge /\ Additions /\ Missing

=============================================================================
