--------------------------- MODULE AccountRouting ---------------------------
(***************************************************************************)
(* Which tracker account a torrent is added under.  The account is chosen  *)
(* once, at random among the slots that the administrator has configured,  *)
(* and recorded in the torrent's row; a deployment may still have a legacy *)
(* account, which a slot with the same passkey replaces.  Two workers may  *)
(* run the same add job (the lease of the first expired), the              *)
(* administrator empties and fills slots meanwhile, and a new deployment   *)
(* may drop the legacy account.                                            *)
(*                                                                         *)
(* One torrent, one qBittorrent account.                                   *)
(***************************************************************************)
EXTENDS Naturals, FiniteSets

CONSTANTS
  Worker,    \* workers that run the torrent's jobs
  Slot,      \* the slots for tracker accounts
  Passkey    \* passkeys of tracker accounts

VARIABLES
  ref,       \* the account in the torrent's row: None, a slot, "legacy" or "old"
  key,       \* [slot -> the passkey configured in it, or None]
  legacy,    \* the passkey of the deployment's legacy account, or None
  holder,    \* the worker that holds the torrent's row, or None
  job,       \* [worker -> what its job has done so far]
  qb,        \* the account that the torrent in qBittorrent was added under, or None
  activity   \* the account in the job's tracker activity, or None

vars == <<ref, key, legacy, holder, job, qb, activity>>

None == "none"
\* "old" is an account of an earlier deployment.
Account == Slot \cup {"legacy", "old"}
NoJob == [at |-> "idle", seen |-> None, routes |-> {}, heir |-> None, route |-> None]

Init ==
  /\ ref \in {None, "legacy", "old"} /\ key = [s \in Slot |-> None] /\ legacy \in {None} \cup Passkey
  /\ holder = None /\ job = [w \in Worker |-> NoJob] /\ qb = None /\ activity = None

-----------------------------------------------------------------------------
(* The add job *)

\* Mutated form: the row is read without a lock.
RowFreeAlways == TRUE

RowFree == holder = None

\* SELECT ... FOR UPDATE.
Lock(w) ==
  /\ job[w].at = "idle" /\ RowFree
  /\ holder' = w /\ job' = [job EXCEPT ![w] = [NoJob EXCEPT !.at = "locked", !.seen = ref]]
  /\ UNCHANGED <<ref, key, legacy, qb, activity>>

Configured == {s \in Slot : key[s] # None}

\* The legacy account is used only while no slot is configured.
Selectable == IF Configured = {} /\ legacy # None THEN {"legacy"} ELSE Configured

\* The slot that took over the legacy account's passkey, or None.
Heir == IF legacy # None /\ \E s \in Slot : key[s] = legacy
        THEN CHOOSE s \in Slot : key[s] = legacy ELSE None

\* _routes_for_session: one snapshot of the options, after the row is locked.
Snapshot(w) ==
  /\ job[w].at = "locked"
  /\ job' = [job EXCEPT ![w].at = "routes", ![w].routes = Selectable, ![w].heir = Heir]
  /\ UNCHANGED <<ref, key, legacy, holder, qb, activity>>

Resolved(w, r) == job' = [job EXCEPT ![w].at = "resolved", ![w].route = r]
Failed(w) == job' = [job EXCEPT ![w] = NoJob]

\* Mutated form: the choice is returned and not saved.
RecordForgotten(w, r) == Resolved(w, r) /\ ref' = ref

Record(w, r) == Resolved(w, r) /\ ref' = r

\* An account that no deployment knows any more.
Reroutable(j) == j.seen = "old" /\ j.routes # {}

Deciding(w) ==
  job[w].at = "routes" /\ holder' = None /\ UNCHANGED <<key, legacy, qb, activity>>

\* The first resolution of the torrent.
Assign(w) == LET j == job[w] IN
  /\ Deciding(w) /\ j.seen = None
  /\ \/ j.routes = {} /\ Failed(w) /\ UNCHANGED ref
     \/ \E r \in j.routes : Record(w, r)

\* The route recorded earlier still exists.
Keep(w) == LET j == job[w] IN
  Deciding(w) /\ j.seen # None /\ j.seen \in j.routes /\ Resolved(w, j.seen) /\ UNCHANGED ref

\* The legacy account, once slots are configured: its heir, or itself.
Inherit(w) == LET j == job[w] IN
  /\ Deciding(w) /\ j.seen = "legacy" /\ legacy # None /\ j.seen \notin j.routes
  /\ IF j.heir # None THEN Record(w, j.heir) ELSE Resolved(w, "legacy") /\ UNCHANGED ref

\* The legacy account of a deployment that has none any more is an account nobody knows.
Unknown(j) == IF j.seen = "legacy" /\ legacy = None THEN [j EXCEPT !.seen = "old"] ELSE j

Reroute(w) == LET j == Unknown(job[w]) IN
  Deciding(w) /\ Reroutable(j) /\ \E r \in j.routes : Record(w, r)

Unavailable(w) == LET j == Unknown(job[w]) IN
  /\ Deciding(w) /\ j.seen \notin {None, "legacy"} /\ j.seen \notin j.routes /\ ~Reroutable(j)
  /\ Failed(w) /\ UNCHANGED ref

\* The passkey goes into the metainfo right before the request to qBittorrent, after NewGreedy
\* answered.  The torrent is there already, or is added, answered or not.
Add(w) ==
  /\ job[w].at = "resolved"
  /\ \/ qb # None /\ job' = [job EXCEPT ![w].at = "added"] /\ UNCHANGED qb
     \/ qb = None /\ qb' = job[w].route /\ job' = [job EXCEPT ![w].at = "added"]
     \/ qb = None /\ qb' = job[w].route /\ Failed(w)
     \/ Failed(w) /\ UNCHANGED qb
  /\ UNCHANGED <<ref, key, legacy, holder, activity>>

\* The end of the add, one transaction on the locked row: the activity is recorded under the
\* account of the row, or nothing is saved.
Commit(w) ==
  /\ job[w].at = "added" /\ RowFree /\ Failed(w)
  /\ activity' = IF activity = None /\ ref = job[w].route THEN ref ELSE activity
  /\ UNCHANGED <<ref, key, legacy, holder, qb>>

-----------------------------------------------------------------------------
(* Observation and purge *)

\* resolve_inspector: the qBittorrent account alone, whatever the tracker account is; no lock and no
\* route is asked for, so nothing the administrator does stands in the way.
Inspect(w) ==
  /\ job[w].at = "idle" /\ job' = [job EXCEPT ![w].at = "inspected"]
  /\ UNCHANGED <<ref, key, legacy, holder, qb, activity>>

Inspected(w) ==
  job[w].at = "inspected" /\ Failed(w) /\ UNCHANGED <<ref, key, legacy, holder, qb, activity>>

-----------------------------------------------------------------------------
(* The administrator and the deployment *)

\* A passkey is in one slot at most.
Configure(s, p) ==
  /\ \A t \in Slot : key[t] # p
  /\ key' = [key EXCEPT ![s] = p] /\ UNCHANGED <<ref, legacy, holder, job, qb, activity>>

Empty(s) ==
  key[s] # None /\ key' = [key EXCEPT ![s] = None] /\ UNCHANGED <<ref, legacy, holder, job, qb, activity>>

\* The workers are restarted without the legacy account.
Redeploy ==
  /\ legacy # None /\ legacy' = None
  /\ holder' = None /\ job' = [w \in Worker |-> NoJob] /\ UNCHANGED <<ref, key, qb, activity>>

Next ==
  \/ \E w \in Worker : \/ Lock(w) \/ Snapshot(w) \/ Assign(w) \/ Keep(w) \/ Inherit(w) \/ Reroute(w)
                       \/ Unavailable(w) \/ Add(w) \/ Commit(w) \/ Inspect(w) \/ Inspected(w)
  \/ \E s \in Slot : Empty(s) \/ \E p \in Passkey : Configure(s, p)
  \/ Redeploy

Spec == Init /\ [][Next]_vars

-----------------------------------------------------------------------------
(* Properties *)

\* Types of the routing's state.
TypeOK ==
  /\ ref \in Account \cup {None} /\ qb \in Account \cup {None} /\ activity \in Account \cup {None}
  /\ key \in [Slot -> Passkey \cup {None}] /\ holder \in Worker \cup {None}
  /\ \A w \in Worker : job[w].routes \subseteq Account

\* A torrent recorded under a slot stays there: no worker, in whatever order the slots are emptied
\* and filled, moves it to another tracker account.
RouteStickyStep == (ref \in Slot) => (ref' = ref)
RouteSticky == [][RouteStickyStep]_vars

\* A torrent that was added to qBittorrent with the passkey of a slot is recorded under that slot.
AddedUnderRecord == qb \in Slot => ref = qb

-----------------------------------------------------------------------------
(* Why they hold: what a job has read of the row is so while it holds the   *)
(* row, and what a job has recorded under a slot nobody changes.            *)

\* The names that the code gives to accounts are not names of slots.
Parameters == {None, "legacy", "old"} \cap Slot = {} /\ None \notin Worker

Route == Slot \cup {"legacy"}
Job == [at : {"idle", "locked", "routes", "resolved", "added", "inspected"},
        seen : Account \cup {None}, routes : SUBSET Route, heir : Slot \cup {None},
        route : Route \cup {None}]

\* What the job of one worker knows of the row.
Holds(w, j) ==
  /\ j.at \in {"locked", "routes"} <=> holder = w
  /\ j.at \in {"locked", "routes"} => j.seen = ref
  /\ j.at \in {"resolved", "added"} /\ j.route \in Slot => ref = j.route

\* The inductive invariant.
RoutingInv ==
  /\ TypeOK /\ AddedUnderRecord /\ job \in [Worker -> Job]
  /\ \A w \in Worker : Holds(w, job[w])
=============================================================================
