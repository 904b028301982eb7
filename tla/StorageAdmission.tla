-------------------------- MODULE StorageAdmission --------------------------
(***************************************************************************)
(* The database transactions that share the storage counters               *)
(* (storage/accounting.py, torrents/deduplication.py,                      *)
(* torrents/lifecycle.py, admin/cleanup.py, api/routes/torrents_v2.py),    *)
(* with the row locks they take one after the other (SELECT FOR UPDATE).   *)
(*                                                                         *)
(* TorrentLifecycle takes each of them as one step.  Here the steps are    *)
(* the locks: a transaction waits for a lock another one holds, what it    *)
(* read before it waited may be outdated when it goes on, and its writes   *)
(* appear when it commits and releases everything (READ COMMITTED).        *)
(*                                                                         *)
(* The lock of a right is only taken under the lock of its torrent, and    *)
(* an uncommitted insert of an infohash blocks a second one: both are the  *)
(* torrent's lock.                                                         *)
(***************************************************************************)
EXTENDS Integers, Sequences, FiniteSets, FiniteSetsExt, Functions

CONSTANTS
    UserOrder, TorrentOrder, \* users and torrents in the order of their ids
    Tx,                      \* database sessions at work
    NoTx,
    Size,                    \* total_size of each torrent
    Capacity,                \* managed_reservation_capacity of the disk
    UserMax,                 \* WOS_STORAGE_USER_MAX_BYTES; 0 is no quota
    MaxActive,               \* WOS_TORRENT_MAX_ACTIVE_PER_USER
    AdminBatch,              \* torrents one administrative purge may name
    ReconcileBatch           \* batch_size of reconcile_storage_counters

\* What the configuration guarantees
Parameters ==
    /\ UserOrder \in Seq(Range(UserOrder)) \ {<<>>} /\ IsInjective(UserOrder)
    /\ TorrentOrder \in Seq(Range(TorrentOrder)) /\ IsInjective(TorrentOrder)
    /\ NoTx \notin Tx
    /\ Size \in [Range(TorrentOrder) -> Nat]
    /\ {Capacity, UserMax, MaxActive, AdminBatch, ReconcileBatch} \subseteq Nat

User == Range(UserOrder)
Torrent == Range(TorrentOrder)

Lock == ({"user", "usage"} \X User) \cup ({"torrent"} \X Torrent) \cup {<<"ledger">>}

VARIABLES
    managed, \* state of each ManagedTorrent
    right,   \* each user's right on each torrent
    usage,   \* UserStorageUsage.logical_bytes
    ledger,  \* StorageLedger.managed_bytes
    holder,  \* who holds each row lock
    tx       \* what each session does

rows == <<managed, right, usage, ledger>>
vars == <<managed, right, usage, ledger, holder, tx>>

\* "due": READY with unsubscribe_at passed
Rights == {"none", "active", "due"}
\* "LIVE" stands for every state that is none of the others
States == {"NONE", "LIVE", "ERROR", "PURGING", "PURGED"}

\* plan: the locks still to take, in order; torrents: those still to be
\* treated; pairs: the rights to end; sums: what reconciliation read before it
\* waited
Kinds == {"idle", "admit", "cancel", "expire", "purge", "delete", "retry", "reconcile"}
Session == [kind : Kinds, plan : Seq(Lock), user : User, torrents : Seq(Torrent),
            pairs : SUBSET (User \X Torrent), sums : [User -> Nat], read : BOOLEAN]

NoSums == [u \in User |-> 0]
IdleTx == [kind |-> "idle", plan |-> <<>>, user |-> Head(UserOrder), torrents |-> <<>>,
           pairs |-> {}, sums |-> NoSums, read |-> FALSE]

TypeOK ==
    /\ managed \in [Torrent -> States]
    /\ right \in [User -> [Torrent -> Rights]]
    /\ usage \in [User -> Nat]
    /\ ledger \in Nat
    /\ holder \in [Lock -> Tx \cup {NoTx}]
    /\ tx \in [Tx -> Session]

Init ==
    /\ managed = [t \in Torrent |-> "NONE"]
    /\ right = [u \in User |-> [t \in Torrent |-> "none"]]
    /\ usage = [u \in User |-> 0]
    /\ ledger = 0
    /\ holder = [l \in Lock |-> NoTx]
    /\ tx = [x \in Tx |-> IdleTx]

-----------------------------------------------------------------------------
\* S listed in the order of the ids
Sorted(order, S) ==
    {s \in [1..Cardinality(S) -> S] :
        /\ Range(s) = S
        /\ \A i, j \in DOMAIN s : i < j =>
              \E k, l \in DOMAIN order : k < l /\ order[k] = s[i] /\ order[l] = s[j]}

\* The bytes of a set of torrents
SizeOf[T \in SUBSET Torrent] ==
    IF T = {} THEN 0 ELSE LET t == CHOOSE t \in T : TRUE IN Size[t] + SizeOf[T \ {t}]
Bytes(T) == SizeOf[T]

Held(t) == {u \in User : right[u][t] # "none"}
Rated(u) == {t \in Torrent : right[u][t] # "none"}
Visible(u) == {t \in Torrent : right[u][t] = "active"}
Stored == {t \in Torrent : managed[t] \notin {"NONE", "PURGED"}}

UserLock(u) == <<"user", u>>
UsageLock(u) == <<"usage", u>>
TorrentLock(t) == <<"torrent", t>>
UserLocks(s) == [i \in DOMAIN s |-> UserLock(s[i])]
UsageLocks(s) == [i \in DOMAIN s |-> UsageLock(s[i])]
TorrentLocks(s) == [i \in DOMAIN s |-> TorrentLock(s[i])]
LedgerLock == <<"ledger">>

Free(l) == holder[l] = NoTx

Begin(x, session) ==
    /\ tx[x] = IdleTx
    /\ tx' = [tx EXCEPT ![x] = session]

\* The owner, the torrent, the owner's usage and the ledger, in this order.
BeginAdmit(x, u, t) ==
    /\ Begin(x, [IdleTx EXCEPT !.kind = "admit", !.user = u, !.torrents = <<t>>,
                               !.plan = <<UserLock(u), TorrentLock(t), UsageLock(u), LedgerLock>>])
    /\ UNCHANGED <<rows, holder>>

\* Mutated form: the usage is locked before the torrent.
BeginCancelSwapped(x, u, t) ==
    /\ right[u][t] # "none"
    /\ Begin(x, [IdleTx EXCEPT !.kind = "cancel", !.user = u, !.torrents = <<t>>,
                               !.plan = <<UserLock(u), UsageLock(u), TorrentLock(t)>>])
    /\ UNCHANGED <<rows, holder>>

BeginCancel(x, u, t) ==
    /\ right[u][t] # "none"
    /\ Begin(x, [IdleTx EXCEPT !.kind = "cancel", !.user = u, !.torrents = <<t>>,
                               !.plan = <<UserLock(u), TorrentLock(t), UsageLock(u)>>])
    /\ UNCHANGED <<rows, holder>>

\* The torrents of due rights that nobody has locked are locked at once
\* (SKIP LOCKED), then their users' usage in one global order.  A batch takes
\* as many torrents and rights as its limit allows.
BeginExpire(x, D) ==
    LET T == {p[2] : p \in D} IN
    /\ D # {}
    /\ \A p \in D : right[p[1]][p[2]] = "due" /\ Free(TorrentLock(p[2]))
    /\ \E s \in Sorted(UserOrder, {p[1] : p \in D}) :
          Begin(x, [IdleTx EXCEPT !.kind = "expire", !.pairs = D, !.plan = UsageLocks(s)])
    /\ holder' = [l \in DOMAIN holder |-> IF \E t \in T : l = TorrentLock(t) THEN x ELSE holder[l]]
    /\ UNCHANGED rows

\* The administrator names torrents in an order of his own; they are locked in
\* the order of their ids.
BeginPurge(x, named) ==
    /\ \E s \in Sorted(TorrentOrder, Range(named)) :
          Begin(x, [IdleTx EXCEPT !.kind = "purge", !.torrents = named, !.plan = TorrentLocks(s)])
    /\ UNCHANGED <<rows, holder>>

\* Torrent after torrent, as they were named: its holders' rights will end, and
\* their usage is locked, sorted for this torrent only.  One is skipped when its
\* subscribers are no longer those the administrator saw, or its state forbids.
ReadHolders(x) ==
    LET t == Head(tx[x].torrents) IN
    /\ tx[x].kind = "purge" /\ tx[x].plan = <<>> /\ tx[x].torrents # <<>>
    /\ \/ /\ managed[t] = "LIVE"
          /\ \E s \in Sorted(UserOrder, Held(t)) :
                tx' = [tx EXCEPT ![x] = [tx[x] EXCEPT !.torrents = Tail(@), !.plan = UsageLocks(s),
                                                  !.pairs = @ \cup (Held(t) \X {t})]]
       \/ tx' = [tx EXCEPT ![x] = [tx[x] EXCEPT !.torrents = Tail(@)]]
    /\ UNCHANGED <<rows, holder>>

BeginDelete(x, t) ==
    /\ managed[t] = "PURGING"
    /\ Begin(x, [IdleTx EXCEPT !.kind = "delete", !.torrents = <<t>>,
                               !.plan = <<TorrentLock(t), LedgerLock>>])
    /\ UNCHANGED <<rows, holder>>

\* The state and the right are read before the payload and checked again
\* under the locks.
BeginRetry(x, u, t) ==
    /\ managed[t] = "ERROR" /\ right[u][t] = "active"
    /\ Begin(x, [IdleTx EXCEPT !.kind = "retry", !.user = u, !.torrents = <<t>>,
                               !.plan = <<TorrentLock(t), LedgerLock>>])
    /\ UNCHANGED <<rows, holder>>

\* Mutated form: the users are not locked.
BeginReconcileUnlocked(x, U) ==
    /\ Begin(x, [IdleTx EXCEPT !.kind = "reconcile", !.pairs = U \X Torrent])
    /\ UNCHANGED <<rows, holder>>

BeginReconcile(x, U) ==
    /\ \E s \in Sorted(UserOrder, U) :
          Begin(x, [IdleTx EXCEPT !.kind = "reconcile", !.pairs = U \X Torrent, !.plan = UserLocks(s)])
    /\ UNCHANGED <<rows, holder>>

\* The users' rights are summed up before their usage is locked (in no order).
ReadSums(x, order) ==
    LET U == {p[1] : p \in tx[x].pairs} IN
    /\ tx[x].kind = "reconcile" /\ tx[x].plan = <<>> /\ ~tx[x].read
    /\ Range(order) = U /\ Len(order) = Cardinality(U)
    /\ tx' = [tx EXCEPT ![x] = [tx[x] EXCEPT !.read = TRUE,
                   !.sums = [u \in User |-> IF u \in U THEN Bytes(Rated(u)) ELSE 0],
                   !.plan = Append(UsageLocks(order), LedgerLock)]]
    /\ UNCHANGED <<rows, holder>>

Acquire(x) ==
    /\ tx[x].plan # <<>>
    /\ holder[Head(tx[x].plan)] \in {NoTx, x}
    /\ holder' = [holder EXCEPT ![Head(tx[x].plan)] = x]
    /\ tx' = [tx EXCEPT ![x] = [tx[x] EXCEPT !.plan = Tail(@)]]
    /\ UNCHANGED rows

End(x) ==
    /\ tx' = [tx EXCEPT ![x] = IdleTx]
    /\ holder' = [l \in DOMAIN holder |-> IF holder[l] = x THEN NoTx ELSE holder[l]]

Ready(x, kind) ==
    /\ tx[x].kind = kind /\ tx[x].plan = <<>>
    /\ kind = "purge" => tx[x].torrents = <<>>
    /\ kind = "reconcile" => tx[x].read
    /\ End(x)

\* A rollback: a refusal, an error, a lost connection, a deadlock's victim.
Abort(x) ==
    /\ tx[x].kind # "idle"
    /\ End(x)
    /\ UNCHANGED rows

-----------------------------------------------------------------------------
(* What the transactions write                                             *)

\* prepare_storage_accounting and the limit of active requests: a due right
\* is ended first and does not count.
MayReserve(t) ==
    managed[t] \in {"NONE", "PURGED"} => ledger + Size[t] <= Capacity

WithinQuota(bytes) == UserMax > 0 => bytes <= UserMax

\* Mutated form: the limit of active requests is off by one.
MayHoldOneMore(u, t) ==
    right[u][t] # "active" => Cardinality(Visible(u)) <= MaxActive

MayHold(u, t) ==
    right[u][t] # "active" =>
        /\ WithinQuota(usage[u] - (IF right[u][t] = "due" THEN Size[t] ELSE 0) + Size[t])
        /\ Cardinality(Visible(u)) < MaxActive

Admit(x) ==
    LET u == tx[x].user  t == tx[x].torrents[1] IN
    /\ Ready(x, "admit")
    /\ managed[t] # "PURGING"
    /\ MayReserve(t) /\ MayHold(u, t)
    /\ managed' = [managed EXCEPT ![t] = IF @ \in {"NONE", "PURGED"} THEN "LIVE" ELSE @]
    /\ ledger' = ledger + (IF managed[t] \in {"NONE", "PURGED"} THEN Size[t] ELSE 0)
    /\ right' = [right EXCEPT ![u][t] = "active"]
    /\ usage' = [usage EXCEPT ![u] = @ + (IF right[u][t] = "none" THEN Size[t] ELSE 0)]

Refund(P) ==
    /\ right' = [u \in User |-> [t \in Torrent |-> IF <<u, t>> \in P THEN "none" ELSE right[u][t]]]
    /\ usage' = [u \in User |-> Max({0, usage[u] - Bytes({t \in Torrent : <<u, t>> \in P})})]

Cancel(x) ==
    LET u == tx[x].user  t == tx[x].torrents[1] IN
    /\ Ready(x, "cancel")
    /\ right[u][t] # "none"
    /\ Refund({<<u, t>>})
    /\ UNCHANGED <<managed, ledger>>

Expire(x) ==
    /\ Ready(x, "expire")
    /\ Refund(tx[x].pairs)
    /\ UNCHANGED <<managed, ledger>>

Purge(x) ==
    /\ Ready(x, "purge")
    /\ Refund(tx[x].pairs)
    /\ UNCHANGED <<managed, ledger>>

\* Mutated form: the state is not read again under the lock.
DeleteUnchecked(x) ==
    LET t == tx[x].torrents[1] IN
    /\ Ready(x, "delete")
    /\ managed' = [managed EXCEPT ![t] = "PURGED"]
    /\ ledger' = Max({0, ledger - Size[t]})
    /\ UNCHANGED <<right, usage>>

Delete(x) ==
    LET t == tx[x].torrents[1] IN
    /\ Ready(x, "delete")
    /\ managed[t] = "PURGING"
    /\ managed' = [managed EXCEPT ![t] = "PURGED"]
    /\ ledger' = Max({0, ledger - Size[t]})
    /\ UNCHANGED <<right, usage>>

Retry(x) ==
    LET u == tx[x].user  t == tx[x].torrents[1] IN
    /\ Ready(x, "retry")
    /\ managed[t] = "ERROR" /\ right[u][t] = "active"
    /\ Bytes({s \in Torrent : managed[s] = "LIVE"}) + Size[t] <= Capacity
    /\ managed' = [managed EXCEPT ![t] = "LIVE"]
    /\ UNCHANGED <<right, usage, ledger>>

\* The ledger is summed up under its lock; the usage was summed up before.
Reconcile(x) ==
    /\ Ready(x, "reconcile")
    /\ usage' = [u \in User |-> IF \E p \in tx[x].pairs : p[1] = u THEN tx[x].sums[u] ELSE usage[u]]
    /\ ledger' = Bytes(Stored)
    /\ UNCHANGED <<managed, right>>

\* The handlers' own transactions lock the torrent only.
StartPurge(t) ==
    /\ Free(TorrentLock(t)) /\ managed[t] \in {"LIVE", "ERROR"} /\ Held(t) = {}
    /\ managed' = [managed EXCEPT ![t] = "PURGING"]
    /\ UNCHANGED <<right, usage, ledger, holder, tx>>

Fail(t) ==
    /\ Free(TorrentLock(t)) /\ managed[t] = "LIVE"
    /\ managed' = [managed EXCEPT ![t] = "ERROR"]
    /\ UNCHANGED <<right, usage, ledger, holder, tx>>

FallsDue(u, t) ==
    /\ right[u][t] = "active"
    /\ right' = [right EXCEPT ![u][t] = "due"]
    /\ UNCHANGED <<managed, usage, ledger, holder, tx>>

-----------------------------------------------------------------------------
\* A session does one thing at a time.
Begins(x) ==
    /\ tx[x].kind = "idle"
    /\ \/ \E u \in User, t \in Torrent :
             BeginAdmit(x, u, t) \/ BeginCancel(x, u, t) \/ BeginRetry(x, u, t)
       \/ \E D \in SUBSET {p \in User \X Torrent : right[p[1]][p[2]] = "due"} : BeginExpire(x, D)
       \/ \E n \in 1..AdminBatch : \E s \in [1..n -> Torrent] : IsInjective(s) /\ BeginPurge(x, s)
       \/ \E t \in Torrent : BeginDelete(x, t)
       \/ \E U \in SUBSET User : Cardinality(U) \in 1..ReconcileBatch /\ BeginReconcile(x, U)

Commits(x) ==
    Admit(x) \/ Cancel(x) \/ Expire(x) \/ Purge(x) \/ Delete(x) \/ Retry(x) \/ Reconcile(x)

Next ==
    \/ \E x \in Tx :
          \/ Begins(x)
          \/ Acquire(x)
          \/ ReadHolders(x)
          \/ \E n \in 1..ReconcileBatch : \E order \in [1..n -> User] : ReadSums(x, order)
          \/ Commits(x)
          \/ Abort(x)
    \/ \E t \in Torrent : StartPurge(t) \/ Fail(t)
    \/ \E u \in User, t \in Torrent : FallsDue(u, t)

Spec == Init /\ [][Next]_vars

-----------------------------------------------------------------------------
(* Properties                                                              *)

Waits(x) == tx[x].plan # <<>> /\ holder[Head(tx[x].plan)] \notin {NoTx, x}

\* Sessions that wait for locks which are all held among themselves.
Circle(X) == X # {} /\ \A x \in X : Waits(x) /\ holder[Head(tx[x].plan)] \in X

\* A purge that ends rights on two torrents, or a reconciliation of two users:
\* the usages are not all locked in the global order.
Batched(x) ==
    \/ tx[x].kind = "purge" /\ \E p, q \in tx[x].pairs : p[2] # q[2]
    \/ tx[x].kind = "reconcile" /\ \E p, q \in tx[x].pairs : p[1] # q[1]

\* Postgres never has to break a deadlock.  It does not hold where batches and
\* expirations of several users meet.
NoDeadlock == \A X \in SUBSET Tx : ~Circle(X)

\* Sessions deadlock only by way of a batch: admissions, cancellations, expirations
\* of any users, retries, deletions, purges of one torrent and reconciliations of
\* one user, however many run at once, never wait for each other in a circle.
\* The circles that Postgres breaks all contain a purge that has come to its
\* second torrent, or a reconciliation of several users.
CirclesBatched == \A X \in SUBSET Tx : Circle(X) => \E x \in X : Batched(x)

\* The reserved bytes never exceed the capacity, although each admission read
\* the disk before it waited for the ledger, and the ledger is exact after
\* every interleaving of admissions, deletions, retries and reconciliations.
LedgerExact == ledger = Bytes(Stored) /\ ledger <= Capacity

\* No user holds more bytes than the quota or more active requests than the
\* limit, however many admissions of the user run at once.
UserLimits ==
    \A u \in User : WithinQuota(usage[u]) /\ Cardinality(Visible(u)) <= MaxActive

\* Whatever reconciliation overwrites, a user's counter never drops below the
\* rights held: the quota cannot be passed by way of the counter.
UsageCovers == \A u \in User : Bytes(Rated(u)) <= usage[u]

\* The counters keep what they promise, for the disk and for every user.
StorageKept == LedgerExact /\ UserLimits /\ UsageCovers
=============================================================================
