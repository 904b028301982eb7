---------------------------- MODULE Provisioning ----------------------------
(***************************************************************************)
(* Creation of accounts (users/provisioning.py, api/external/users.py) and *)
(* the pool that hashes their passwords (auth/passwords.py).  A client of  *)
(* the external API repeats a request under its Idempotency-Key when it has*)
(* lost the answer; requests hash outside any transaction and decide under *)
(* an advisory lock.                                                       *)
(***************************************************************************)
EXTENDS Integers, FiniteSets

CONSTANTS
    Request, Key, Member,   \* requests, idempotency keys, Discord members
    KeyOf, BodyOf,          \* the key and the member (or NoMember) of a request
    NoMember,
    MaxAccounts, MaxQuota,  \* bounds
    Workers, MaxPending     \* of PasswordWorkPool

\* Requests in flight are finitely many; a request has a key, and a member or none.
Parameters ==
    /\ IsFiniteSet(Request) /\ NoMember \notin Member
    /\ KeyOf \in [Request -> Key] /\ BodyOf \in [Request -> Member \cup {NoMember}]
    /\ MaxAccounts \in Nat /\ MaxQuota \in Nat /\ MaxPending \in Nat

VARIABLES
    phase,     \* of each request
    task,      \* its task in the executor
    pending,   \* PasswordWorkPool._pending
    closed,    \*   _closed
    accounts,  \* accounts that are not deleted
    created,   \* accounts made so far
    idem, link,   \* ExternalApiIdempotency and DiscordAccountLink rows
    quota      \* WOS_MAX_USER_ACCOUNTS

vars == <<phase, task, pending, closed, accounts, created, idem, link, quota>>
db == <<accounts, created, idem, link, quota>>

NoAccount == 0
TypeOK ==
    /\ phase \in [Request -> {"new", "hashing", "hashed", "made", "replayed", "refused"}]
    /\ task \in [Request -> {"none", "queued", "running"}]
    /\ pending \in 0..MaxPending /\ closed \in BOOLEAN
    /\ accounts \subseteq 1..MaxAccounts /\ created \in 0..MaxAccounts
    /\ idem \in [Key -> [user : 0..MaxAccounts, body : Member \cup {NoMember}]]
    /\ link \in [Member -> 0..MaxAccounts] /\ quota \in 0..MaxQuota

Init ==
    /\ phase = [r \in Request |-> "new"] /\ task = [r \in Request |-> "none"]
    /\ pending = 0 /\ closed = FALSE
    /\ accounts = {} /\ created = 0
    /\ idem = [k \in Key |-> [user |-> NoAccount, body |-> NoMember]]
    /\ link = [m \in Member |-> NoAccount] /\ quota = MaxQuota

Goes(r, p) == phase' = [phase EXCEPT ![r] = p]

-----------------------------------------------------------------------------
(* The pool                                                                *)

Submit(r) ==
    /\ task' = [task EXCEPT ![r] = "queued"] /\ pending' = pending + 1
    /\ Goes(r, "hashing")

Run(r) ==
    /\ task[r] = "queued"
    /\ Cardinality({q \in Request : task[q] = "running"}) < Workers
    /\ task' = [task EXCEPT ![r] = "running"]
    /\ UNCHANGED <<phase, pending, closed, db>>

\* The task is over, or was abandoned before it started: only now is its place
\* free.
Complete(r) ==
    /\ task[r] = "running"
    /\ task' = [task EXCEPT ![r] = "none"] /\ pending' = pending - 1
    /\ phase' = IF phase[r] = "hashing" THEN [phase EXCEPT ![r] = "hashed"] ELSE phase
    /\ UNCHANGED <<closed, db>>

\* Mutated form: a request that gives up frees its place.
GiveUpFreeing(r) ==
    /\ phase[r] = "hashing"
    /\ Goes(r, "refused")
    /\ pending' = pending - 1
    /\ UNCHANGED <<task, closed, db>>

\* The timeout of the pool, or a client that disconnects.
GiveUp(r) ==
    /\ phase[r] = "hashing"
    /\ Goes(r, "refused")
    /\ UNCHANGED <<task, pending, closed, db>>

\* aclose cancels what is queued and waits for what runs.
Close ==
    /\ ~closed
    /\ closed' = TRUE
    /\ task' = [r \in Request |-> IF task[r] = "queued" THEN "none" ELSE task[r]]
    /\ pending' = pending - Cardinality({r \in Request : task[r] = "queued"})
    /\ phase' = [r \in Request |-> IF task[r] = "queued" /\ phase[r] = "hashing" THEN "refused"
                                   ELSE phase[r]]
    /\ UNCHANGED db
Start ==
    /\ closed /\ pending = 0
    /\ closed' = FALSE
    /\ UNCHANGED <<phase, task, pending, db>>

-----------------------------------------------------------------------------
(* create_external_user                                                    *)

Known(r) == idem[KeyOf[r]].user # NoAccount
Replay(r) == Goes(r, IF idem[KeyOf[r]].body = BodyOf[r] THEN "replayed" ELSE "refused")

Lookup(r) ==
    /\ phase[r] = "new"
    /\ \/ Known(r) /\ Replay(r) /\ UNCHANGED <<task, pending>>
       \/ /\ ~Known(r)
          /\ IF closed \/ pending >= MaxPending
             THEN Goes(r, "refused") /\ UNCHANGED <<task, pending>>
             ELSE Submit(r)
    /\ UNCHANGED <<closed, db>>

\* Mutated form: the quota is compared after the fact.
QuotaOpenLate == Cardinality(accounts) <= quota
QuotaOpen == Cardinality(accounts) < quota
\* Mutated form: a member who has an account gets another one.
LinkableAlways(r) == TRUE
Linkable(r) == BodyOf[r] # NoMember => link[BodyOf[r]] = NoAccount

NewAccount ==
    /\ created < MaxAccounts
    /\ created' = created + 1 /\ accounts' = accounts \cup {created + 1}

\* The transaction under the advisory lock; a requested name may be taken.
Decide(r) ==
    /\ phase[r] = "hashed"
    /\ \/ Known(r) /\ Replay(r) /\ UNCHANGED <<accounts, created, idem, link>>
       \/ /\ ~Known(r)
          /\ Goes(r, "refused") /\ UNCHANGED <<accounts, created, idem, link>>
       \/ /\ ~Known(r) /\ Linkable(r) /\ QuotaOpen
          /\ NewAccount /\ Goes(r, "made")
          /\ link' = IF BodyOf[r] = NoMember THEN link
                     ELSE [link EXCEPT ![BodyOf[r]] = created + 1]
          /\ idem' = [idem EXCEPT ![KeyOf[r]] = [user |-> created + 1, body |-> BodyOf[r]]]
    /\ UNCHANGED <<task, pending, closed, quota>>

-----------------------------------------------------------------------------
(* The other ways to change accounts                                       *)

\* generate_user and create-admin, with a password that is ready.
CreateOther ==
    /\ QuotaOpen /\ NewAccount
    /\ UNCHANGED <<phase, task, pending, closed, idem, link, quota>>

\* The rows of a deleted account stay, its links and keys too.
DeleteAccount(a) ==
    /\ a \in accounts
    /\ accounts' = accounts \ {a}
    /\ UNCHANGED <<phase, task, pending, closed, created, idem, link, quota>>

SetQuota(q) ==
    /\ q # quota
    /\ quota' = q
    /\ UNCHANGED <<phase, task, pending, closed, accounts, created, idem, link>>

Next ==
    \/ \E r \in Request : Lookup(r) \/ Run(r) \/ Complete(r) \/ GiveUp(r) \/ Decide(r)
    \/ Close \/ Start \/ CreateOther
    \/ \E a \in 1..MaxAccounts : DeleteAccount(a)
    \/ \E q \in 0..MaxQuota : SetQuota(q)

Spec == Init /\ [][Next]_vars

-----------------------------------------------------------------------------
(* Properties                                                              *)

\* A key makes one account and a member has one, whatever requests are in
\* flight together, and a replay answers only the request it was made for.
OneAccountPerKey ==
    /\ \A q, r \in Request :
          q # r /\ phase[q] = "made" /\ phase[r] = "made" =>
             /\ KeyOf[q] # KeyOf[r]
             /\ BodyOf[q] # NoMember => BodyOf[q] # BodyOf[r]
    /\ \A r \in Request :
          phase[r] \in {"made", "replayed"} => idem[KeyOf[r]].body = BodyOf[r]

\* The accounts never grow beyond the quota in force, also when an
\* administrator lowers it while requests hash.
QuotaKeptStep == accounts' \ accounts # {} => Cardinality(accounts') <= quota
QuotaKept == [][QuotaKeptStep]_vars

\* The pool holds exactly the tasks the executor holds: a request that gave up
\* keeps its place until the worker is done with it.
PoolCounts == pending = Cardinality({r \in Request : task[r] # "none"})

-----------------------------------------------------------------------------
(* Why they hold: what a request made is written down under its key and    *)
(* its member before the lock is given up, and is never written again.     *)

Recorded ==
    \A r \in Request :
        /\ phase[r] \in {"made", "replayed"} =>
              idem[KeyOf[r]].user # NoAccount /\ idem[KeyOf[r]].body = BodyOf[r]
        /\ phase[r] = "made" /\ BodyOf[r] # NoMember => link[BodyOf[r]] # NoAccount

\* A request that has not come has no task.
NoTaskYet == \A r \in Request : phase[r] = "new" => task[r] = "none"

\* The inductive invariant: what a request made is written down under its key
\* and its member, and every place of the pool is held by a task.
ProvisioningInv == TypeOK /\ OneAccountPerKey /\ PoolCounts /\ Recorded /\ NoTaskYet
=============================================================================
