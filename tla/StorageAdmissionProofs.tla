----------------------- MODULE StorageAdmissionProofs -----------------------
(***************************************************************************)
(* Proofs about StorageAdmission: for any users, torrents, sizes, limits   *)
(* and number of database sessions, the ledger is exact and within the     *)
(* disk, and no user passes a limit; and the order in which the sessions   *)
(* take their locks keeps them from waiting for each other in a circle.    *)
(***************************************************************************)
EXTENDS StorageAdmission, FiniteSetTheorems, WellFoundedInduction, SequenceTheorems, TLAPS

-----------------------------------------------------------------------------
(* Sums over finite sets.  The provers have no induction, so a set of      *)
(* counterexamples is given its least element instead.                     *)

\* A non-empty set of numbers has a least element.
LEMMA LeastNumber ==
  ASSUME NEW B \in SUBSET Nat, B # {}
  PROVE  \E n \in B : \A m \in B : n <= m
  <1> DEFINE R == {p \in Nat \X Nat : p[1] < p[2]}
  <1>1. IsWellFoundedOn(R, Nat)
    BY NatLessThanWellFounded DEF OpToRel
  <1>2. \A m, n \in Nat : m < n => <<m, n>> \in R
    OBVIOUS
  <1> HIDE DEF R
  <1>3. PICK n \in B : \A m \in B : ~(<<m, n>> \in R)
    BY <1>1, WFMin
  <1>4. ASSUME NEW m \in B PROVE n <= m
    <2>1. ~(m < n)
      BY <1>2, <1>3
    <2> QED
      BY <2>1
  <1> QED
    BY <1>4

Pick(T) == CHOOSE t \in T : TRUE
Small(n) == {T \in SUBSET Torrent : Cardinality(T) <= n}

\* f follows the recursive definition of SizeOf on the sets of at most n torrents.
SumsUpTo(f, n) ==
    /\ f \in [Small(n) -> Nat]
    /\ \A T \in Small(n) : f[T] = IF T = {} THEN 0 ELSE Size[Pick(T)] + f[T \ {Pick(T)}]

\* Taking one torrent away.
LEMMA TakeOne ==
  ASSUME IsFiniteSet(Torrent), NEW T \in SUBSET Torrent, NEW t \in T
  PROVE  /\ T \ {t} \in SUBSET Torrent
         /\ Cardinality(T) \in Nat /\ Cardinality(T \ {t}) \in Nat
         /\ Cardinality(T \ {t}) = Cardinality(T) - 1
  <1>1. IsFiniteSet(T) /\ IsFiniteSet(T \ {t})
    BY FS_Subset
  <1> QED
    BY <1>1, FS_RemoveElement, FS_CardinalityType

\* Among sets of torrents there is one that taking a torrent away leads out of.
LEMMA LeastSet ==
  ASSUME IsFiniteSet(Torrent), NEW W \in SUBSET (SUBSET Torrent), W # {}
  PROVE  \E T \in W : \A t \in T : T \ {t} \in SUBSET Torrent /\ T \ {t} \notin W
  <1> DEFINE B == {Cardinality(V) : V \in W}
  <1>1. \A V \in W : Cardinality(V) \in Nat
    BY FS_Subset, FS_CardinalityType
  <1>a. B \in SUBSET Nat /\ B # {}
    BY <1>1
  <1>b. \E n \in B : \A m \in B : n <= m
    <2> HIDE DEF B
    <2> QED
      BY <1>a, LeastNumber
  <1>2. PICK n \in B : \A m \in B : n <= m
    BY <1>b
  <1>3. PICK T \in W : Cardinality(T) = n
    BY <1>2
  <1>4. ASSUME NEW t \in T, T \ {t} \in W PROVE FALSE
    <2>1. Cardinality(T) \in Nat /\ Cardinality(T \ {t}) = Cardinality(T) - 1
      BY <1>3, TakeOne
    <2>2. Cardinality(T) <= Cardinality(T \ {t})
      BY <1>2, <1>3, <1>4
    <2> QED
      BY <2>1, <2>2
  <1> QED
    BY <1>3, <1>4

\* The definition of SizeOf can be followed up to any number of torrents.
LEMMA SumsExist ==
  ASSUME IsFiniteSet(Torrent), Size \in [Torrent -> Nat]
  PROVE  \A n \in Nat : \E f : SumsUpTo(f, n)
  <1> DEFINE B == {n \in Nat : ~ \E f : SumsUpTo(f, n)}
  <1> SUFFICES ASSUME B # {} PROVE FALSE
    OBVIOUS
  <1>1. PICK n \in B : \A m \in B : n <= m
    BY LeastNumber
  <1>2. CASE n = 0
    <2> DEFINE f == [T \in Small(0) |-> 0]
    <2>1. \A T \in Small(0) : T = {}
      <3> SUFFICES ASSUME NEW T \in Small(0), T # {} PROVE FALSE
        OBVIOUS
      <3>1. T \in SUBSET Torrent /\ Cardinality(T) <= 0
        BY DEF Small
      <3>2. PICK t \in T : TRUE
        OBVIOUS
      <3>3. /\ Cardinality(T) \in Nat /\ Cardinality(T \ {t}) \in Nat
            /\ Cardinality(T \ {t}) = Cardinality(T) - 1
        BY <3>1, <3>2, TakeOne
      <3> QED
        BY <3>1, <3>3
    <2>2. SumsUpTo(f, 0)
      BY <2>1 DEF SumsUpTo
    <2> QED
      BY <1>1, <1>2, <2>2
  <1>3. CASE n # 0
    <2>1. n - 1 \in Nat /\ n - 1 \notin B
      BY <1>1, <1>3
    <2>2. PICK f : SumsUpTo(f, n - 1)
      BY <2>1
    <2> DEFINE g == [T \in Small(n) |-> IF T = {} THEN 0 ELSE Size[Pick(T)] + f[T \ {Pick(T)}]]
    <2>3. ASSUME NEW T \in Small(n), T # {}
          PROVE  Pick(T) \in T /\ Size[Pick(T)] \in Nat /\ T \ {Pick(T)} \in Small(n - 1)
      <3>1. T \in SUBSET Torrent /\ Cardinality(T) <= n
        BY DEF Small
      <3>2. Pick(T) \in T
        BY <2>3 DEF Pick
      <3>3. T \ {Pick(T)} \in SUBSET Torrent /\ Cardinality(T \ {Pick(T)}) <= n - 1
        BY <1>1, <3>1, <3>2, TakeOne
      <3> QED
        BY <3>1, <3>2, <3>3 DEF Small
    <2>4. Small(n - 1) \subseteq Small(n)
      <3> SUFFICES ASSUME NEW T \in Small(n - 1) PROVE T \in Small(n)
        OBVIOUS
      <3>1. T \in SUBSET Torrent /\ Cardinality(T) <= n - 1 /\ IsFiniteSet(T)
        BY FS_Subset DEF Small
      <3> QED
        BY <1>1, <3>1, FS_CardinalityType DEF Small
    <2>5. \A T \in Small(n - 1) : g[T] = f[T]
      BY <2>2, <2>4 DEF SumsUpTo
    <2>6. g \in [Small(n) -> Nat]
      BY <2>2, <2>3 DEF SumsUpTo
    <2>7. \A T \in Small(n) : g[T] = IF T = {} THEN 0 ELSE Size[Pick(T)] + g[T \ {Pick(T)}]
      BY <2>3, <2>5
    <2> HIDE DEF g
    <2>8. SumsUpTo(g, n)
      BY <2>6, <2>7 DEF SumsUpTo
    <2> QED
      BY <1>1, <2>8
  <1> QED
    BY <1>2, <1>3

\* So SizeOf is what its definition says.
LEMMA SizeOfDef ==
  ASSUME IsFiniteSet(Torrent), Size \in [Torrent -> Nat]
  PROVE  /\ SizeOf \in [SUBSET Torrent -> Nat]
         /\ \A T \in SUBSET Torrent :
              SizeOf[T] = IF T = {} THEN 0 ELSE Size[Pick(T)] + SizeOf[T \ {Pick(T)}]
  <1> DEFINE n == Cardinality(Torrent)
             E(f) == [T \in SUBSET Torrent |->
                        IF T = {} THEN 0
                        ELSE LET t == CHOOSE t \in T : TRUE IN Size[t] + f[T \ {t}]]
  <1>1. n \in Nat /\ Small(n) = SUBSET Torrent
    BY FS_CardinalityType, FS_Subset DEF Small
  <1>2. PICK f : SumsUpTo(f, n)
    BY <1>1, SumsExist
  <1>3. f = E(f)
    <2>1. /\ f \in [SUBSET Torrent -> Nat]
          /\ \A T \in SUBSET Torrent : f[T] = IF T = {} THEN 0 ELSE Size[Pick(T)] + f[T \ {Pick(T)}]
      BY <1>1, <1>2 DEF SumsUpTo
    <2> QED
      BY <2>1 DEF Pick
  <1>4. SizeOf = CHOOSE h : h = E(h)
    BY Zenon DEF SizeOf
  <1> HIDE DEF E
  <1>5. SizeOf = E(SizeOf)
    BY <1>3, <1>4, Zenon
  <1> USE DEF E
  <1>6. \A T \in SUBSET Torrent :
              SizeOf[T] = IF T = {} THEN 0 ELSE Size[Pick(T)] + SizeOf[T \ {Pick(T)}]
    BY <1>5 DEF Pick
  <1>7. ASSUME NEW T \in SUBSET Torrent, SizeOf[T] \notin Nat PROVE FALSE
    <2> DEFINE W == {V \in SUBSET Torrent : SizeOf[V] \notin Nat}
    <2>1. PICK V \in W : \A v \in V : V \ {v} \in SUBSET Torrent /\ V \ {v} \notin W
      BY <1>7, LeastSet
    <2>2. V \in SUBSET Torrent /\ SizeOf[V] \notin Nat
      BY <2>1
    <2>3. \A v \in V : V \ {v} \in SUBSET Torrent /\ SizeOf[V \ {v}] \in Nat
      BY <2>1
    <2> HIDE DEF W
    <2>4. V # {}
      <3>1. SizeOf[{}] = 0
        BY <1>6
      <3> QED
        BY <2>2, <3>1
    <2>5. Pick(V) \in V /\ Size[Pick(V)] \in Nat
      BY <2>2, <2>4 DEF Pick
    <2>6. SizeOf[V] = Size[Pick(V)] + SizeOf[V \ {Pick(V)}]
      BY <1>6, <2>2, <2>4
    <2> QED
      BY <2>2, <2>3, <2>5, <2>6
  <1>8. SizeOf = [T \in SUBSET Torrent |-> SizeOf[T]]
    BY <1>5
  <1> QED
    BY <1>6, <1>7, <1>8

\* Any torrent of a set may be counted first.
LEMMA SumTake ==
  ASSUME IsFiniteSet(Torrent), Size \in [Torrent -> Nat],
         NEW T \in SUBSET Torrent, NEW t \in T
  PROVE  SizeOf[T] = Size[t] + SizeOf[T \ {t}]
  <1> DEFINE Bad(V) == \E v \in V : SizeOf[V] # Size[v] + SizeOf[V \ {v}]
             W == {V \in SUBSET Torrent : Bad(V)}
  <1> SUFFICES ASSUME W # {} PROVE FALSE
    OBVIOUS
  <1>1. PICK V \in W : \A v \in V : V \ {v} \in SUBSET Torrent /\ V \ {v} \notin W
    BY LeastSet
  <1>2. PICK v \in V : SizeOf[V] # Size[v] + SizeOf[V \ {v}]
    BY <1>1
  <1> DEFINE p == Pick(V)
  <1>3. p \in V /\ p # v /\ SizeOf[V] = Size[p] + SizeOf[V \ {p}]
    BY <1>1, <1>2, SizeOfDef DEF Pick
  <1>4. V \ {p} \in SUBSET Torrent /\ V \ {p} \notin W /\ V \ {v} \in SUBSET Torrent /\ V \ {v} \notin W
    BY <1>1, <1>2, <1>3
  <1> HIDE DEF p
  <1>5. SizeOf[V \ {p}] = Size[v] + SizeOf[(V \ {p}) \ {v}]
    BY <1>2, <1>3, <1>4
  <1>6. SizeOf[V \ {v}] = Size[p] + SizeOf[(V \ {v}) \ {p}]
    BY <1>2, <1>3, <1>4
  <1>7. (V \ {p}) \ {v} = (V \ {v}) \ {p} /\ (V \ {p}) \ {v} \in SUBSET Torrent
    BY <1>4
  <1> DEFINE a == Size[v]  b == Size[p]  c == SizeOf[(V \ {p}) \ {v}]
             k == SizeOf[V]  l == SizeOf[V \ {p}]  m == SizeOf[V \ {v}]
  <1>8. a \in Nat /\ b \in Nat /\ c \in Nat
    BY <1>1, <1>2, <1>3, <1>7, SizeOfDef
  <1>9. k # a + m /\ k = b + l /\ l = a + c /\ m = b + c
    BY <1>2, <1>3, <1>5, <1>6, <1>7
  <1> HIDE DEF a, b, c, k, l, m
  <1> QED
    BY <1>8, <1>9

\* The bytes of a set are those of a part of it and those of the rest.
LEMMA SumSplit ==
  ASSUME IsFiniteSet(Torrent), Size \in [Torrent -> Nat],
         NEW T \in SUBSET Torrent, NEW S \in SUBSET T
  PROVE  /\ SizeOf[T] \in Nat /\ SizeOf[S] \in Nat /\ SizeOf[T \ S] \in Nat
         /\ SizeOf[T] = SizeOf[S] + SizeOf[T \ S]
  <1> DEFINE Bad(A) == \E V \in SUBSET Torrent : A \subseteq V /\ SizeOf[V] # SizeOf[A] + SizeOf[V \ A]
             W == {A \in SUBSET Torrent : Bad(A)}
  <1>1. S \in SUBSET Torrent /\ SizeOf[T] \in Nat /\ SizeOf[S] \in Nat /\ SizeOf[T \ S] \in Nat
    BY SizeOfDef
  <1> SUFFICES ASSUME W # {} PROVE FALSE
    BY <1>1
  <1>2. PICK A \in W : \A t \in A : A \ {t} \in SUBSET Torrent /\ A \ {t} \notin W
    BY LeastSet
  <1>3. PICK V \in SUBSET Torrent : A \subseteq V /\ SizeOf[V] # SizeOf[A] + SizeOf[V \ A]
    BY <1>2
  <1>4. A # {}
    <2> SUFFICES ASSUME A = {} PROVE FALSE
      OBVIOUS
    <2>1. V \ A = V /\ SizeOf[A] = 0 /\ SizeOf[V] \in Nat
      BY <1>3, SizeOfDef
    <2> QED
      BY <1>3, <2>1
  <1>5. PICK t \in A : TRUE
    BY <1>4
  <1>6. A \ {t} \in SUBSET Torrent /\ A \ {t} \notin W
    BY <1>2, <1>5
  <1>7. V \ {t} \in SUBSET Torrent /\ A \ {t} \subseteq V \ {t} /\ (V \ {t}) \ (A \ {t}) = V \ A
    BY <1>3, <1>5
  <1>8. SizeOf[V \ {t}] = SizeOf[A \ {t}] + SizeOf[V \ A]
    BY <1>6, <1>7
  <1>9. SizeOf[V] = Size[t] + SizeOf[V \ {t}] /\ SizeOf[A] = Size[t] + SizeOf[A \ {t}]
    BY <1>2, <1>3, <1>5, SumTake
  <1>10. Size[t] \in Nat /\ SizeOf[A \ {t}] \in Nat /\ SizeOf[V \ A] \in Nat
    BY <1>2, <1>3, <1>5, <1>6, SizeOfDef
  <1> QED
    BY <1>3, <1>8, <1>9, <1>10

-----------------------------------------------------------------------------
(* What the parameters give                                                *)

LEMMA Finite ==
  ASSUME Parameters
  PROVE  /\ IsFiniteSet(User) /\ IsFiniteSet(Torrent)
         /\ Size \in [Torrent -> Nat] /\ Head(UserOrder) \in User
         /\ NoTx \notin Tx /\ Capacity \in Nat /\ UserMax \in Nat /\ MaxActive \in Nat
  <1>1. ASSUME NEW order, order \in Seq(Range(order)) PROVE IsFiniteSet(Range(order))
    <2>1. Len(order) \in Nat /\ order \in [1..Len(order) -> Range(order)] /\ DOMAIN order = 1..Len(order)
      BY <1>1, LenProperties
    <2>2. order \in Surjection(1..Len(order), Range(order))
      BY <2>1 DEF Surjection, Range
    <2>3. IsFiniteSet(1..Len(order))
      BY <2>1, FS_Interval
    <2> QED
      BY <2>2, <2>3, FS_Surjection
  <1>2. IsFiniteSet(User) /\ IsFiniteSet(Torrent)
    BY <1>1 DEF Parameters, User, Torrent
  <1>3. Head(UserOrder) \in User
    BY HeadTailProperties DEF Parameters, User
  <1> QED
    BY <1>2, <1>3 DEF Parameters, Torrent

\* The locks are told apart by the rows they are of.
LEMMA Locks ==
  /\ LedgerLock \in Lock
  /\ \A u \in User : UserLock(u) \in Lock /\ UsageLock(u) \in Lock
  /\ \A t \in Torrent : TorrentLock(t) \in Lock
  /\ \A t, s : TorrentLock(t) = TorrentLock(s) => t = s
  /\ \A t, u : TorrentLock(t) # UserLock(u)
  BY DEF Lock, LedgerLock, UserLock, UsageLock, TorrentLock

\* A list of users or torrents becomes a list of their locks.
LEMMA PlanOfUsers ==
  ASSUME NEW n \in Nat, NEW s \in [1..n -> User]
  PROVE  /\ UserLocks(s) \in Seq(Lock) /\ UsageLocks(s) \in Seq(Lock)
         /\ \A u \in Range(s) : UserLock(u) \in Range(UserLocks(s))
  <1>1. UserLocks(s) \in [1..n -> Lock] /\ UsageLocks(s) \in [1..n -> Lock]
    BY Locks DEF UserLocks, UsageLocks
  <1>2. UserLocks(s) \in Seq(Lock) /\ UsageLocks(s) \in Seq(Lock)
    BY <1>1, SeqDef
  <1> QED
    BY <1>2 DEF UserLocks, Range

LEMMA PlanOfTorrents ==
  ASSUME NEW n \in Nat, NEW s \in [1..n -> Torrent]
  PROVE  /\ TorrentLocks(s) \in Seq(Lock)
         /\ \A t \in Range(s) : TorrentLock(t) \in Range(TorrentLocks(s))
  <1>1. TorrentLocks(s) \in [1..n -> Lock]
    BY Locks DEF TorrentLocks
  <1>2. TorrentLocks(s) \in Seq(Lock)
    BY <1>1, SeqDef
  <1> QED
    BY <1>2 DEF TorrentLocks, Range

\* Taking the first of a list leaves the others in it.
LEMMA HeadOrTail ==
  ASSUME NEW S, NEW s \in Seq(S), s # <<>>
  PROVE  /\ Head(s) \in S /\ Tail(s) \in Seq(S) /\ Head(s) \in Range(s)
         /\ s[1] = Head(s)
         /\ Range(s) \subseteq {Head(s)} \cup Range(Tail(s))
         /\ Range(Tail(s)) \subseteq Range(s)
  <1>1. /\ Len(s) \in Nat \ {0} /\ DOMAIN s = 1..Len(s)
        /\ Head(s) = s[1] /\ Head(s) \in S /\ Tail(s) \in Seq(S)
        /\ Len(Tail(s)) = Len(s) - 1 /\ DOMAIN Tail(s) = 1..Len(Tail(s))
        /\ \A i \in 1..Len(Tail(s)) : Tail(s)[i] = s[i + 1]
    BY HeadTailProperties, LenProperties, EmptySeq
  <1>2. ASSUME NEW i \in 1..Len(s), i # 1 PROVE s[i] \in Range(Tail(s))
    <2>1. i - 1 \in 1..Len(Tail(s)) /\ s[i] = Tail(s)[i - 1]
      BY <1>1, <1>2
    <2> QED
      BY <1>1, <2>1 DEF Range
  <1>3. ASSUME NEW i \in 1..Len(Tail(s)) PROVE Tail(s)[i] \in Range(s)
    <2>1. i + 1 \in 1..Len(s) /\ Tail(s)[i] = s[i + 1]
      BY <1>1
    <2> QED
      BY <1>1, <2>1 DEF Range
  <1>4. s[1] \in Range(s)
    BY <1>1 DEF Range
  <1> QED
    BY <1>1, <1>2, <1>3, <1>4 DEF Range

-----------------------------------------------------------------------------
(* The inductive invariant: what each session holds, or is still to wait   *)
(* for, and what it relies on once it holds it                             *)

\* x holds the lock or takes it before it commits.
Needs(x, l) == holder[l] = x \/ l \in Range(tx[x].plan)

\* One torrent: an admission and a cancellation lock their user and torrent.
OneTorrent(x) ==
    /\ tx[x].kind \in {"admit", "cancel", "delete", "retry"} => tx[x].torrents # <<>>
    /\ tx[x].kind \in {"admit", "cancel"} =>
          Needs(x, UserLock(tx[x].user)) /\ Needs(x, TorrentLock(tx[x].torrents[1]))

\* The rights an expiration or a purge will end are held under the locks of
\* their torrents, so none of them ends before.
PairsHeld(x) ==
    tx[x].kind \in {"expire", "purge"} =>
        \A p \in tx[x].pairs : holder[TorrentLock(p[2])] = x /\ right[p[1]][p[2]] # "none"

PurgeLocks(x) ==
    tx[x].kind = "purge" => \A t \in Range(tx[x].torrents) : Needs(x, TorrentLock(t))

\* What a reconciliation read still covers the rights of its users, since
\* their locks keep admissions out.
SumsCover(x) ==
    tx[x].kind = "reconcile" =>
        \A p \in tx[x].pairs :
            /\ Needs(x, UserLock(p[1]))
            /\ tx[x].read =>
                  /\ holder[UserLock(p[1])] = x
                  /\ Bytes(Rated(p[1])) <= tx[x].sums[p[1]] /\ WithinQuota(tx[x].sums[p[1]])

Prepared(x) == OneTorrent(x) /\ PairsHeld(x) /\ PurgeLocks(x) /\ SumsCover(x)

StorageInv == TypeOK /\ StorageKept /\ \A x \in Tx : Prepared(x)

-----------------------------------------------------------------------------
(* What a step of one session leaves to the others                         *)

\* x's step takes no lock away from another session, and works on no other.
Apart(x) ==
    \A y \in Tx \ {x} :
        tx'[y] = tx[y] /\ \A l \in Lock : holder[l] = y => holder'[l] = y

\* A right of a torrent that y has locked does not end, and no bytes are added
\* to a user that y has locked.
Respects(y) ==
    /\ \A u \in User, t \in Torrent :
          holder[TorrentLock(t)] = y /\ right[u][t] # "none" => right'[u][t] # "none"
    /\ \A u \in User : holder[UserLock(u)] = y => Bytes(Rated(u))' <= Bytes(Rated(u))

LEMMA OthersPrepared ==
  ASSUME Parameters, StorageInv, TypeOK', NEW x, Apart(x), NEW y \in Tx \ {x}, Respects(y)
  PROVE  Prepared(y)'
  <1> DEFINE s == tx[y]
  <1>1. tx'[y] = s /\ s \in Session /\ \A l \in Lock : holder[l] = y => holder'[l] = y
    BY DEF Apart, StorageInv, TypeOK
  <1>2. s.user \in User /\ s.torrents \in Seq(Torrent) /\ s.plan \in Seq(Lock)
        /\ s.pairs \subseteq User \X Torrent /\ s.sums \in [User -> Nat]
    BY <1>1 DEF Session
  <1>3. ASSUME NEW l \in Lock, Needs(y, l) PROVE Needs(y, l)'
    BY <1>1, <1>3 DEF Needs
  <1>4. Prepared(y)
    BY DEF StorageInv
  <1>5. OneTorrent(y)'
    <2>1. s.torrents # <<>> => s.torrents[1] \in Torrent
      BY <1>2, HeadOrTail
    <2> QED
      BY <1>1, <1>2, <1>3, <1>4, <2>1, Locks DEF Prepared, OneTorrent
  <1>6. PairsHeld(y)'
    BY <1>1, <1>2, <1>4, Locks DEF Prepared, PairsHeld, Respects
  <1>7. PurgeLocks(y)'
    <2>1. Range(s.torrents) \subseteq Torrent
      BY <1>2, RangeOfSeq
    <2> QED
      BY <1>1, <1>3, <1>4, <2>1, Locks DEF Prepared, PurgeLocks
  <1>8. SumsCover(y)'
    <2> SUFFICES ASSUME s.kind = "reconcile", NEW p \in s.pairs
                 PROVE  /\ Needs(y, UserLock(p[1]))'
                        /\ s.read =>
                             /\ holder'[UserLock(p[1])] = y
                             /\ Bytes(Rated(p[1]))' <= s.sums[p[1]] /\ WithinQuota(s.sums[p[1]])
      BY <1>1 DEF SumsCover
    <2>1. p[1] \in User /\ UserLock(p[1]) \in Lock
      BY <1>2, Locks
    <2>2. /\ Needs(y, UserLock(p[1]))
          /\ s.read => /\ holder[UserLock(p[1])] = y
                       /\ Bytes(Rated(p[1])) <= s.sums[p[1]] /\ WithinQuota(s.sums[p[1]])
      BY <1>4 DEF Prepared, SumsCover
    <2>3. Needs(y, UserLock(p[1]))'
      BY <1>3, <2>1, <2>2
    <2>4. s.read => holder'[UserLock(p[1])] = y /\ Bytes(Rated(p[1]))' <= Bytes(Rated(p[1]))
      BY <1>1, <2>1, <2>2 DEF Respects
    <2>5. Bytes(Rated(p[1])) \in Nat /\ Bytes(Rated(p[1]))' \in Nat
      BY Finite, SizeOfDef DEF Bytes, Rated
    <2>6. s.sums[p[1]] \in Nat
      BY <1>2, <2>1
    <2> HIDE DEF s
    <2> QED
      BY <2>2, <2>3, <2>4, <2>5, <2>6
  <1> QED
    BY <1>5, <1>6, <1>7, <1>8 DEF Prepared

\* Rows that do not change respect everyone, and keep the counters right.
LEMMA RowsKept ==
  ASSUME StorageInv, UNCHANGED rows, Parameters
  PROVE  StorageKept' /\ \A y \in Tx : Respects(y)
  <1>1. StorageKept'
    BY DEF StorageInv, StorageKept, LedgerExact, UserLimits, UsageCovers, rows, Stored, Visible, Rated, Bytes
  <1>2. \A u \in User : Bytes(Rated(u))' = Bytes(Rated(u)) /\ Bytes(Rated(u)) \in Nat
    BY Finite, SizeOfDef DEF rows, Rated, Bytes
  <1> QED
    BY <1>1, <1>2 DEF Respects, rows

\* A step that changes no row is right when it is apart from the others and
\* its own session stays prepared.
LEMMA QuietStep ==
  ASSUME Parameters, StorageInv, TypeOK', UNCHANGED rows,
         NEW x \in Tx, Apart(x), Prepared(x)'
  PROVE  StorageInv'
  <1>1. \A y \in Tx \ {x} : Prepared(y)'
    BY RowsKept, OthersPrepared
  <1> QED
    BY <1>1, RowsKept DEF StorageInv

-----------------------------------------------------------------------------
(* A transaction begins                                                    *)

LEMMA IdleIsSession ==
  ASSUME Parameters
  PROVE  IdleTx \in Session
  <1>1. Head(UserOrder) \in User
    BY Finite
  <1>2. <<>> \in Seq(Lock) /\ <<>> \in Seq(Torrent)
    BY EmptySeq
  <1> QED
    BY <1>1, <1>2 DEF IdleTx, Session, Kinds, NoSums

\* A session gets something to do, and no lock changes hands.
LEMMA TakesUp ==
  ASSUME StorageInv, UNCHANGED <<rows, holder>>, NEW x \in Tx, NEW s \in Session,
         tx' = [tx EXCEPT ![x] = s]
  PROVE  TypeOK' /\ Apart(x) /\ tx'[x] = s
  BY DEF StorageInv, TypeOK, Apart, rows

\* The lists of one torrent.
LEMMA OfOne ==
  ASSUME NEW u \in User, NEW t \in Torrent
  PROVE  /\ <<t>> \in Seq(Torrent) /\ <<t>> # <<>> /\ <<t>>[1] = t
         /\ <<UserLock(u), TorrentLock(t), UsageLock(u), LedgerLock>> \in Seq(Lock)
         /\ <<UserLock(u), TorrentLock(t), UsageLock(u)>> \in Seq(Lock)
         /\ <<TorrentLock(t), LedgerLock>> \in Seq(Lock)
         /\ {UserLock(u), TorrentLock(t)}
               \subseteq Range(<<UserLock(u), TorrentLock(t), UsageLock(u), LedgerLock>>)
         /\ {UserLock(u), TorrentLock(t)}
               \subseteq Range(<<UserLock(u), TorrentLock(t), UsageLock(u)>>)
  <1> DEFINE a == UserLock(u)  b == TorrentLock(t)  c == UsageLock(u)  d == LedgerLock
  <1>1. a \in Lock /\ b \in Lock /\ c \in Lock /\ d \in Lock
    BY Locks
  <1> HIDE DEF a, b, c, d
  <1>2. <<a, b, c, d>> \in Seq(Lock) /\ <<a, b, c>> \in Seq(Lock) /\ <<b, d>> \in Seq(Lock)
    BY <1>1
  <1>3. {a, b} \subseteq Range(<<a, b, c, d>>) /\ {a, b} \subseteq Range(<<a, b, c>>)
    <2>1. \A f : \A i \in DOMAIN f : f[i] \in Range(f)
      BY DEF Range
    <2>2. DOMAIN <<a, b, c, d>> = 1..4 /\ DOMAIN <<a, b, c>> = 1..3
      OBVIOUS
    <2>3. 1 \in 1..4 /\ 2 \in 1..4 /\ 1 \in 1..3 /\ 2 \in 1..3
      OBVIOUS
    <2>4. <<a, b, c, d>>[1] = a /\ <<a, b, c, d>>[2] = b /\ <<a, b, c>>[1] = a /\ <<a, b, c>>[2] = b
      OBVIOUS
    <2> QED
      BY <2>1, <2>2, <2>3, <2>4
  <1>4. <<t>> \in Seq(Torrent) /\ <<t>> # <<>> /\ <<t>>[1] = t
    OBVIOUS
  <1> QED
    BY <1>2, <1>3, <1>4 DEF a, b, c, d

LEMMA BeginAdmitInv ==
  ASSUME Parameters, StorageInv, NEW x \in Tx, NEW u \in User, NEW t \in Torrent, BeginAdmit(x, u, t)
  PROVE  StorageInv'
  <1> DEFINE q == <<UserLock(u), TorrentLock(t), UsageLock(u), LedgerLock>>
             s == [IdleTx EXCEPT !.kind = "admit", !.user = u, !.torrents = <<t>>, !.plan = q]
  <1>1. tx' = [tx EXCEPT ![x] = s] /\ UNCHANGED <<rows, holder>>
    BY DEF BeginAdmit, Begin
  <1>2. q \in Seq(Lock) /\ UserLock(u) \in Range(q) /\ TorrentLock(t) \in Range(q)
    BY OfOne
  <1> HIDE DEF q
  <1>3. s \in Session /\ s.kind = "admit" /\ s.user = u /\ s.torrents = <<t>> /\ s.plan = q
    BY <1>2, IdleIsSession, OfOne DEF Session, Kinds
  <1> HIDE DEF s
  <1>4. TypeOK' /\ Apart(x) /\ tx'[x] = s
    BY <1>1, <1>3, TakesUp
  <1>5. Prepared(x)'
    BY <1>2, <1>3, <1>4, OfOne DEF Prepared, OneTorrent, PairsHeld, PurgeLocks, SumsCover, Needs
  <1> QED
    BY <1>1, <1>4, <1>5, QuietStep

LEMMA BeginCancelInv ==
  ASSUME Parameters, StorageInv, NEW x \in Tx, NEW u \in User, NEW t \in Torrent, BeginCancel(x, u, t)
  PROVE  StorageInv'
  <1> DEFINE q == <<UserLock(u), TorrentLock(t), UsageLock(u)>>
             s == [IdleTx EXCEPT !.kind = "cancel", !.user = u, !.torrents = <<t>>, !.plan = q]
  <1>1. tx' = [tx EXCEPT ![x] = s] /\ UNCHANGED <<rows, holder>>
    BY DEF BeginCancel, Begin
  <1>2. q \in Seq(Lock) /\ UserLock(u) \in Range(q) /\ TorrentLock(t) \in Range(q)
    BY OfOne
  <1> HIDE DEF q
  <1>3. s \in Session /\ s.kind = "cancel" /\ s.user = u /\ s.torrents = <<t>> /\ s.plan = q
    BY <1>2, IdleIsSession, OfOne DEF Session, Kinds
  <1> HIDE DEF s
  <1>4. TypeOK' /\ Apart(x) /\ tx'[x] = s
    BY <1>1, <1>3, TakesUp
  <1>5. Prepared(x)'
    BY <1>2, <1>3, <1>4, OfOne DEF Prepared, OneTorrent, PairsHeld, PurgeLocks, SumsCover, Needs
  <1> QED
    BY <1>1, <1>4, <1>5, QuietStep

\* A deletion and a retry read what they need again under their locks.
LEMMA BeginRecheckedInv ==
  ASSUME Parameters, StorageInv, NEW x \in Tx, NEW u \in User, NEW t \in Torrent,
         BeginDelete(x, t) \/ BeginRetry(x, u, t)
  PROVE  StorageInv'
  <1> DEFINE q == <<TorrentLock(t), LedgerLock>>
             d == [IdleTx EXCEPT !.kind = "delete", !.torrents = <<t>>, !.plan = q]
             r == [IdleTx EXCEPT !.kind = "retry", !.user = u, !.torrents = <<t>>, !.plan = q]
  <1>1. \E s \in {d, r} : tx' = [tx EXCEPT ![x] = s] /\ UNCHANGED <<rows, holder>>
    BY DEF BeginDelete, BeginRetry, Begin
  <1>2. q \in Seq(Lock)
    BY OfOne
  <1> HIDE DEF q
  <1>3. /\ d \in Session /\ d.kind = "delete" /\ d.torrents = <<t>>
        /\ r \in Session /\ r.kind = "retry" /\ r.torrents = <<t>>
    BY <1>2, IdleIsSession, OfOne DEF Session, Kinds
  <1> HIDE DEF d, r
  <1>4. PICK s \in {d, r} : tx' = [tx EXCEPT ![x] = s] /\ UNCHANGED <<rows, holder>>
    BY <1>1
  <1>5. s \in Session /\ s.kind \in {"delete", "retry"} /\ s.torrents = <<t>>
    BY <1>3
  <1>6. TypeOK' /\ Apart(x) /\ tx'[x] = s
    BY <1>4, <1>5, TakesUp
  <1>7. Prepared(x)'
    BY <1>5, <1>6, OfOne DEF Prepared, OneTorrent, PairsHeld, PurgeLocks, SumsCover, Needs
  <1> QED
    BY <1>4, <1>6, <1>7, QuietStep

\* A set listed in order is listed completely.
LEMMA SortedLists ==
  ASSUME NEW order, NEW S, IsFiniteSet(S), NEW s \in Sorted(order, S)
  PROVE  Cardinality(S) \in Nat /\ s \in [1..Cardinality(S) -> S] /\ Range(s) = S
  BY FS_CardinalityType DEF Sorted

LEMMA BeginExpireInv ==
  ASSUME Parameters, StorageInv, NEW x \in Tx, NEW D \in SUBSET (User \X Torrent), BeginExpire(x, D)
  PROVE  StorageInv'
  <1> DEFINE U == {p[1] : p \in D}
             S(q) == [IdleTx EXCEPT !.kind = "expire", !.pairs = D, !.plan = q]
  <1>1. PICK o \in Sorted(UserOrder, U) : tx' = [tx EXCEPT ![x] = S(UsageLocks(o))]
    BY DEF BeginExpire, Begin
  <1>2. UsageLocks(o) \in Seq(Lock)
    <2>1. U \subseteq User /\ IsFiniteSet(User)
      BY Finite
    <2>2. IsFiniteSet(U)
      BY <2>1, FS_Subset
    <2> HIDE DEF U
    <2>3. Cardinality(U) \in Nat /\ o \in [1..Cardinality(U) -> User]
      BY <1>1, <2>1, <2>2, SortedLists
    <2> QED
      BY <2>3, PlanOfUsers
  <1> DEFINE s == S(UsageLocks(o))
  <1>3. s \in Session /\ s.kind = "expire" /\ s.pairs = D /\ s.plan = UsageLocks(o)
    BY <1>2, IdleIsSession DEF Session, Kinds
  <1>4. tx' = [tx EXCEPT ![x] = s]
    BY <1>1
  <1> HIDE DEF s, S
  <1>5. /\ holder' = [l \in Lock |-> IF \E p \in D : l = TorrentLock(p[2]) THEN x ELSE holder[l]]
        /\ UNCHANGED rows
        /\ \A p \in D : right[p[1]][p[2]] # "none" /\ holder[TorrentLock(p[2])] = NoTx
    BY DEF BeginExpire, StorageInv, TypeOK, Free
  <1>6. TypeOK' /\ tx'[x] = s
    BY <1>3, <1>4, <1>5 DEF StorageInv, TypeOK, rows
  <1>7. Apart(x)
    <2> SUFFICES ASSUME NEW y \in Tx \ {x}
                 PROVE  tx'[y] = tx[y] /\ \A l \in Lock : holder[l] = y => holder'[l] = y
      BY DEF Apart
    <2>1. tx'[y] = tx[y]
      BY <1>4 DEF StorageInv, TypeOK
    <2>2. ASSUME NEW l \in Lock, holder[l] = y PROVE holder'[l] = y
      BY <1>5, <2>2, Finite
    <2> QED
      BY <2>1, <2>2
  <1>8. Prepared(x)'
    <2>1. \A p \in D : holder'[TorrentLock(p[2])] = x /\ right'[p[1]][p[2]] # "none"
      BY <1>5, Locks DEF rows
    <2> QED
      BY <1>3, <1>6, <2>1 DEF Prepared, OneTorrent, PairsHeld, PurgeLocks, SumsCover
  <1> QED
    BY <1>5, <1>6, <1>7, <1>8, QuietStep

LEMMA BeginPurgeInv ==
  ASSUME Parameters, StorageInv, NEW x \in Tx, NEW n \in Nat, NEW named \in [1..n -> Torrent],
         BeginPurge(x, named)
  PROVE  StorageInv'
  <1> DEFINE S(q) == [IdleTx EXCEPT !.kind = "purge", !.torrents = named, !.plan = q]
  <1>1. PICK o \in Sorted(TorrentOrder, Range(named)) : tx' = [tx EXCEPT ![x] = S(TorrentLocks(o))]
    BY DEF BeginPurge, Begin
  <1>2. named \in Seq(Torrent) /\ Range(named) \subseteq Torrent
    BY SeqDef DEF Range
  <1>3. /\ TorrentLocks(o) \in Seq(Lock)
        /\ \A t \in Range(named) : TorrentLock(t) \in Range(TorrentLocks(o))
    <2>1. IsFiniteSet(Range(named))
      BY <1>2, Finite, FS_Subset
    <2>2. /\ Cardinality(Range(named)) \in Nat /\ Range(o) = Range(named)
          /\ o \in [1..Cardinality(Range(named)) -> Torrent]
      BY <1>1, <1>2, <2>1, SortedLists
    <2> QED
      BY <2>2, PlanOfTorrents
  <1> DEFINE s == S(TorrentLocks(o))
  <1>4. /\ s \in Session /\ s.kind = "purge" /\ s.torrents = named /\ s.pairs = {}
        /\ s.plan = TorrentLocks(o)
    BY <1>2, <1>3, IdleIsSession DEF Session, Kinds, IdleTx
  <1>5. tx' = [tx EXCEPT ![x] = s] /\ UNCHANGED <<rows, holder>>
    BY <1>1 DEF BeginPurge
  <1> HIDE DEF s, S
  <1>6. TypeOK' /\ Apart(x) /\ tx'[x] = s
    BY <1>4, <1>5, TakesUp
  <1>7. Prepared(x)'
    BY <1>3, <1>4, <1>6 DEF Prepared, OneTorrent, PairsHeld, PurgeLocks, SumsCover, Needs
  <1> QED
    BY <1>5, <1>6, <1>7, QuietStep

LEMMA BeginReconcileInv ==
  ASSUME Parameters, StorageInv, NEW x \in Tx, NEW U \in SUBSET User, BeginReconcile(x, U)
  PROVE  StorageInv'
  <1> DEFINE S(q) == [IdleTx EXCEPT !.kind = "reconcile", !.pairs = U \X Torrent, !.plan = q]
  <1>1. PICK o \in Sorted(UserOrder, U) : tx' = [tx EXCEPT ![x] = S(UserLocks(o))]
    BY DEF BeginReconcile, Begin
  <1>2. /\ UserLocks(o) \in Seq(Lock)
        /\ \A u \in U : UserLock(u) \in Range(UserLocks(o))
    <2>1. IsFiniteSet(U)
      BY Finite, FS_Subset
    <2>2. Cardinality(U) \in Nat /\ o \in [1..Cardinality(U) -> User] /\ Range(o) = U
      BY <1>1, <2>1, SortedLists
    <2> QED
      BY <2>2, PlanOfUsers
  <1> DEFINE s == S(UserLocks(o))
  <1>3. /\ s \in Session /\ s.kind = "reconcile" /\ s.pairs = U \X Torrent /\ s.read = FALSE
        /\ s.plan = UserLocks(o)
    BY <1>2, IdleIsSession DEF Session, Kinds, IdleTx
  <1>4. tx' = [tx EXCEPT ![x] = s] /\ UNCHANGED <<rows, holder>>
    BY <1>1 DEF BeginReconcile
  <1> HIDE DEF s, S
  <1>5. TypeOK' /\ Apart(x) /\ tx'[x] = s
    BY <1>3, <1>4, TakesUp
  <1>6. Prepared(x)'
    BY <1>2, <1>3, <1>5 DEF Prepared, OneTorrent, PairsHeld, PurgeLocks, SumsCover, Needs
  <1> QED
    BY <1>4, <1>5, <1>6, QuietStep

-----------------------------------------------------------------------------
(* A transaction goes on: it takes a lock, reads what it will act on, or   *)
(* gives up                                                                *)

LEMMA AcquireInv ==
  ASSUME Parameters, StorageInv, NEW x \in Tx, Acquire(x)
  PROVE  StorageInv'
  <1> DEFINE h == Head(tx[x].plan)
             s == [tx[x] EXCEPT !.plan = Tail(@)]
  <1>1. tx[x] \in Session /\ tx[x].plan # <<>> /\ tx[x].plan \in Seq(Lock)
    BY DEF StorageInv, TypeOK, Session, Acquire
  <1>2. /\ h \in Lock /\ Tail(tx[x].plan) \in Seq(Lock)
        /\ Range(tx[x].plan) \subseteq {h} \cup Range(Tail(tx[x].plan))
    BY <1>1, HeadOrTail
  <1>3. /\ holder[h] \in {NoTx, x} /\ holder' = [holder EXCEPT ![h] = x]
        /\ tx' = [tx EXCEPT ![x] = s] /\ UNCHANGED rows
    BY DEF Acquire
  <1>4. /\ s \in Session /\ s.kind = tx[x].kind /\ s.user = tx[x].user /\ s.torrents = tx[x].torrents
        /\ s.pairs = tx[x].pairs /\ s.sums = tx[x].sums /\ s.read = tx[x].read /\ s.plan = Tail(tx[x].plan)
    BY <1>1, <1>2 DEF Session
  <1> HIDE DEF s, h
  <1>5. TypeOK' /\ tx'[x] = s /\ holder \in [Lock -> Tx \cup {NoTx}]
    BY <1>2, <1>3, <1>4 DEF StorageInv, TypeOK, rows
  <1>6. Apart(x)
    BY <1>2, <1>3, <1>5, Finite DEF Apart, StorageInv, TypeOK
  <1>7. ASSUME NEW l \in Lock, Needs(x, l) PROVE Needs(x, l)'
    BY <1>2, <1>3, <1>4, <1>5, <1>7 DEF Needs
  <1>8. ASSUME NEW l \in Lock, holder[l] = x PROVE holder'[l] = x
    BY <1>2, <1>3, <1>5, <1>8
  <1>9. Prepared(x)'
    <2>1. Prepared(x)
      BY DEF StorageInv
    <2>2. /\ tx[x].user \in User /\ tx[x].torrents \in Seq(Torrent)
          /\ tx[x].pairs \subseteq User \X Torrent
      BY <1>1 DEF Session
    <2>3. Range(tx[x].torrents) \subseteq Torrent /\ (tx[x].torrents # <<>> => tx[x].torrents[1] \in Torrent)
      BY <2>2, RangeOfSeq, HeadOrTail
    <2>4. OneTorrent(x)'
      BY <1>4, <1>5, <1>7, <2>1, <2>2, <2>3, Locks DEF Prepared, OneTorrent
    <2>5. PairsHeld(x)'
      BY <1>3, <1>4, <1>5, <1>8, <2>1, <2>2, Locks DEF Prepared, PairsHeld, rows
    <2>6. PurgeLocks(x)'
      BY <1>4, <1>5, <1>7, <2>1, <2>3, Locks DEF Prepared, PurgeLocks
    <2>7. SumsCover(x)'
      <3>1. \A u \in User : Bytes(Rated(u))' = Bytes(Rated(u))
        BY <1>3 DEF Bytes, Rated, rows
      <3> QED
        BY <1>4, <1>5, <1>7, <1>8, <2>1, <2>2, <3>1, Locks DEF Prepared, SumsCover
    <2> QED
      BY <2>4, <2>5, <2>6, <2>7 DEF Prepared
  <1> QED
    BY <1>3, <1>5, <1>6, <1>9, QuietStep

\* A session that ends gives its locks back.
LEMMA Ends ==
  ASSUME Parameters, StorageInv, NEW x \in Tx, End(x)
  PROVE  /\ tx' \in [Tx -> Session] /\ holder' \in [Lock -> Tx \cup {NoTx}]
         /\ Apart(x) /\ Prepared(x)'
  <1>1. /\ tx' = [tx EXCEPT ![x] = IdleTx]
        /\ holder' = [l \in Lock |-> IF holder[l] = x THEN NoTx ELSE holder[l]]
        /\ tx \in [Tx -> Session] /\ holder \in [Lock -> Tx \cup {NoTx}]
    BY DEF End, StorageInv, TypeOK
  <1>2. tx'[x].kind = "idle"
    BY <1>1 DEF IdleTx
  <1> QED
    BY <1>1, <1>2, IdleIsSession DEF Apart, Prepared, OneTorrent, PairsHeld, PurgeLocks, SumsCover

LEMMA AbortInv ==
  ASSUME Parameters, StorageInv, NEW x \in Tx, Abort(x)
  PROVE  StorageInv'
  <1>1. UNCHANGED rows /\ End(x)
    BY DEF Abort
  <1>2. TypeOK'
    BY <1>1, Ends DEF StorageInv, TypeOK, rows
  <1> QED
    BY <1>1, <1>2, Ends, QuietStep

LEMMA ReadHoldersInv ==
  ASSUME Parameters, StorageInv, NEW x \in Tx, ReadHolders(x)
  PROVE  StorageInv'
  <1> DEFINE T == tx[x].torrents  t == Head(T)
             R(q, P) == [tx[x] EXCEPT !.torrents = Tail(@), !.plan = q, !.pairs = P]
  <1>1. /\ tx[x] \in Session /\ tx[x].kind = "purge" /\ tx[x].plan = <<>>
        /\ T # <<>> /\ T \in Seq(Torrent) /\ tx[x].pairs \subseteq User \X Torrent
    BY DEF StorageInv, TypeOK, Session, ReadHolders
  <1>2. t \in Torrent /\ Tail(T) \in Seq(Torrent) /\ t \in Range(T) /\ Range(Tail(T)) \subseteq Range(T)
    BY <1>1, HeadOrTail
  <1>3. Prepared(x) /\ UNCHANGED <<rows, holder>>
    BY DEF StorageInv, ReadHolders
  <1>4. \A s \in Range(T) : holder[TorrentLock(s)] = x
    <2>1. Range(tx[x].plan) = {}
      BY <1>1 DEF Range
    <2> QED
      BY <1>1, <1>3, <2>1 DEF Prepared, PurgeLocks, Needs
  <1>5. \A p \in tx[x].pairs : holder[TorrentLock(p[2])] = x /\ right[p[1]][p[2]] # "none"
    BY <1>1, <1>3 DEF Prepared, PairsHeld
  <1>6. \E q \in Seq(Lock), P \in SUBSET (User \X Torrent) :
          /\ tx' = [tx EXCEPT ![x] = R(q, P)]
          /\ \A p \in P : p \in tx[x].pairs \/ p \in Held(t) \X {t}
    <2>1. CASE tx' = [tx EXCEPT ![x] = [tx[x] EXCEPT !.torrents = Tail(@)]]
      <3>1. [tx[x] EXCEPT !.torrents = Tail(@)] = R(tx[x].plan, tx[x].pairs)
        BY <1>1 DEF Session
      <3>2. tx[x].plan \in Seq(Lock)
        BY <1>1 DEF Session
      <3> HIDE DEF R
      <3> QED
        BY <1>1, <2>1, <3>1, <3>2
    <2>2. CASE \E s \in Sorted(UserOrder, Held(t)) :
                 tx' = [tx EXCEPT ![x] = [tx[x] EXCEPT !.torrents = Tail(@), !.plan = UsageLocks(s),
                                                   !.pairs = @ \cup (Held(t) \X {t})]]
      <3>1. PICK s \in Sorted(UserOrder, Held(t)) :
                 tx' = [tx EXCEPT ![x] = R(UsageLocks(s), tx[x].pairs \cup (Held(t) \X {t}))]
        BY <2>2
      <3>2. IsFiniteSet(Held(t)) /\ Held(t) \subseteq User
        BY Finite, FS_Subset DEF Held
      <3>3. Cardinality(Held(t)) \in Nat /\ s \in [1..Cardinality(Held(t)) -> User]
        BY <3>1, <3>2, SortedLists
      <3>4. UsageLocks(s) \in Seq(Lock)
        BY <3>3, PlanOfUsers
      <3>5. tx[x].pairs \cup (Held(t) \X {t}) \in SUBSET (User \X Torrent)
        BY <1>1, <1>2, <3>2
      <3> HIDE DEF R
      <3> QED
        BY <3>1, <3>4, <3>5
    <2> QED
      BY <2>1, <2>2 DEF ReadHolders
  <1>7. PICK q \in Seq(Lock), P \in SUBSET (User \X Torrent) :
          /\ tx' = [tx EXCEPT ![x] = R(q, P)]
          /\ \A p \in P : p \in tx[x].pairs \/ p \in Held(t) \X {t}
    BY <1>6
  <1> DEFINE s == R(q, P)
  <1>8. s \in Session /\ s.kind = "purge" /\ s.torrents = Tail(T) /\ s.pairs = P
    BY <1>1, <1>2 DEF Session
  <1> HIDE DEF R
  <1>9. tx' = [tx EXCEPT ![x] = s]
    BY <1>7
  <1> HIDE DEF s
  <1>10. TypeOK' /\ Apart(x) /\ tx'[x] = s
    BY <1>3, <1>8, <1>9, TakesUp
  <1>11. Prepared(x)'
    <2>1. \A p \in P : holder[TorrentLock(p[2])] = x /\ right[p[1]][p[2]] # "none"
      BY <1>2, <1>4, <1>5, <1>7 DEF Held
    <2>2. PairsHeld(x)'
      BY <1>3, <1>8, <1>10, <2>1 DEF PairsHeld, rows
    <2>3. PurgeLocks(x)'
      BY <1>2, <1>3, <1>4, <1>8, <1>10 DEF PurgeLocks, Needs
    <2> QED
      BY <1>8, <1>10, <2>2, <2>3 DEF Prepared, OneTorrent, SumsCover
  <1> QED
    BY <1>3, <1>10, <1>11, QuietStep

LEMMA ReadSumsInv ==
  ASSUME Parameters, StorageInv, NEW x \in Tx, NEW n \in Nat, NEW order \in [1..n -> User],
         ReadSums(x, order)
  PROVE  StorageInv'
  <1> DEFINE U == {p[1] : p \in tx[x].pairs}
             m == [u \in User |-> IF u \in U THEN Bytes(Rated(u)) ELSE 0]
             q == Append(UsageLocks(order), LedgerLock)
             s == [tx[x] EXCEPT !.read = TRUE, !.sums = m, !.plan = q]
  <1>1. /\ tx[x] \in Session /\ tx[x].kind = "reconcile" /\ tx[x].plan = <<>>
        /\ tx[x].pairs \subseteq User \X Torrent
        /\ Prepared(x) /\ UNCHANGED <<rows, holder>> /\ UsageCovers /\ UserLimits
    BY DEF StorageInv, TypeOK, Session, ReadSums, StorageKept
  <1>2. tx' = [tx EXCEPT ![x] = s]
    BY DEF ReadSums
  <1>3. \A u \in User : Bytes(Rated(u)) \in Nat /\ usage[u] \in Nat
    BY Finite, SizeOfDef DEF Bytes, Rated, StorageInv, TypeOK
  <1>4. \A p \in tx[x].pairs : p[1] \in User /\ m[p[1]] = Bytes(Rated(p[1])) /\ holder[UserLock(p[1])] = x
    <2>1. Range(tx[x].plan) = {}
      BY <1>1 DEF Range
    <2> QED
      BY <1>1, <2>1 DEF Prepared, SumsCover, Needs
  <1>5. m \in [User -> Nat]
    BY <1>3
  <1>6. q \in Seq(Lock)
    BY PlanOfUsers, Locks, AppendProperties
  <1> HIDE DEF m, q
  <1>7. s \in Session /\ s.kind = "reconcile" /\ s.pairs = tx[x].pairs /\ s.sums = m
    BY <1>1, <1>5, <1>6 DEF Session
  <1> HIDE DEF s
  <1>8. TypeOK' /\ Apart(x) /\ tx'[x] = s
    BY <1>1, <1>2, <1>7, TakesUp
  <1>9. SumsCover(x)'
    <2>1. \A p \in tx[x].pairs : Bytes(Rated(p[1])) <= m[p[1]] /\ WithinQuota(m[p[1]])
      <3> TAKE p \in tx[x].pairs
      <3>1. m[p[1]] = Bytes(Rated(p[1])) /\ p[1] \in User
        BY <1>4
      <3>2. Bytes(Rated(p[1])) <= usage[p[1]] /\ WithinQuota(usage[p[1]])
        BY <1>1, <3>1 DEF UsageCovers, UserLimits
      <3>3. Bytes(Rated(p[1])) \in Nat /\ usage[p[1]] \in Nat /\ UserMax \in Nat
        BY <1>3, <3>1, Finite
      <3> QED
        BY <3>1, <3>2, <3>3 DEF WithinQuota
    <2>2. \A u \in User : Bytes(Rated(u))' = Bytes(Rated(u))
      BY <1>1 DEF Bytes, Rated, rows
    <2> QED
      BY <1>1, <1>4, <1>7, <1>8, <2>1, <2>2 DEF SumsCover, Needs
  <1>10. Prepared(x)'
    BY <1>7, <1>8, <1>9 DEF Prepared, OneTorrent, PairsHeld, PurgeLocks
  <1> QED
    BY <1>1, <1>8, <1>10, QuietStep

-----------------------------------------------------------------------------
(* A transaction commits                                                   *)

RowsOK ==
    /\ managed \in [Torrent -> States] /\ right \in [User -> [Torrent -> Rights]]
    /\ usage \in [User -> Nat] /\ ledger \in Nat

LEMMA CommitStep ==
  ASSUME Parameters, StorageInv, NEW x \in Tx, End(x), RowsOK', StorageKept',
         \A y \in Tx \ {x} : Respects(y)
  PROVE  StorageInv'
  <1>1. TypeOK' /\ Apart(x) /\ Prepared(x)'
    BY Ends DEF TypeOK, RowsOK
  <1> QED
    BY <1>1, OthersPrepared DEF StorageInv

\* A step outside the sessions.
LEMMA OutsideStep ==
  ASSUME Parameters, StorageInv, UNCHANGED <<holder, tx>>, RowsOK', StorageKept',
         \A y \in Tx : Respects(y)
  PROVE  StorageInv'
  <1>1. TypeOK' /\ Apart(NoTx) /\ Tx \ {NoTx} = Tx
    BY Finite DEF StorageInv, TypeOK, RowsOK, Apart
  <1> QED
    BY <1>1, OthersPrepared DEF StorageInv

\* A transaction that is ready holds all it needs.
LEMMA ReadyHolds ==
  ASSUME StorageInv, NEW x \in Tx, NEW k, Ready(x, k), NEW l, Needs(x, l)
  PROVE  holder[l] = x
  BY DEF Ready, Needs, Range

LEMMA MaxZero ==
  ASSUME NEW a \in Int
  PROVE  Max({0, a}) = IF a >= 0 THEN a ELSE 0
  <1> DEFINE m == IF a >= 0 THEN a ELSE 0
  <1>1. m \in {0, a} /\ \A y \in {0, a} : m >= y
    OBVIOUS
  <1>2. \A n \in {0, a} : (\A y \in {0, a} : n >= y) => n = m
    OBVIOUS
  <1> QED
    BY <1>1, <1>2 DEF Max

\* Rights of torrents that x has locked end, and their bytes are given back.
LEMMA RefundKeeps ==
  ASSUME Parameters, StorageInv, NEW x \in Tx, NEW P \in SUBSET (User \X Torrent),
         \A p \in P : holder[TorrentLock(p[2])] = x /\ right[p[1]][p[2]] # "none",
         Refund(P), UNCHANGED <<managed, ledger>>
  PROVE  RowsOK' /\ StorageKept' /\ \A y \in Tx \ {x} : Respects(y)
  <1> DEFINE A(u) == {t \in Torrent : <<u, t>> \in P}
  <1>1. /\ managed \in [Torrent -> States] /\ right \in [User -> [Torrent -> Rights]]
        /\ usage \in [User -> Nat] /\ ledger \in Nat
        /\ LedgerExact /\ UserLimits /\ UsageCovers
    BY DEF StorageInv, TypeOK, StorageKept
  <1>2. /\ right' = [u \in User |-> [t \in Torrent |-> IF t \in A(u) THEN "none" ELSE right[u][t]]]
        /\ usage' = [u \in User |-> Max({0, usage[u] - Bytes(A(u))})]
    BY DEF Refund
  <1>3. ASSUME NEW u \in User
        PROVE  /\ usage'[u] \in Nat /\ WithinQuota(usage'[u])
               /\ Bytes(Rated(u)) \in Nat /\ Bytes(Rated(u))' <= Bytes(Rated(u))
               /\ Bytes(Rated(u))' <= usage'[u]
               /\ Cardinality(Visible(u))' <= MaxActive
    <2> DEFINE a == SizeOf[A(u)]  b == SizeOf[Rated(u) \ A(u)]  c == SizeOf[Rated(u)]
    <2>1. Rated(u) \in SUBSET Torrent /\ A(u) \subseteq Rated(u)
      BY DEF Rated
    <2>2. Rated(u)' = Rated(u) \ A(u)
      BY <1>1, <1>2 DEF Rated
    <2>3. a \in Nat /\ b \in Nat /\ c \in Nat /\ c = a + b
      BY <2>1, Finite, SumSplit
    <2>4. /\ Bytes(Rated(u)) = c /\ Bytes(Rated(u))' = b
          /\ c <= usage[u] /\ usage[u] \in Nat /\ WithinQuota(usage[u])
      BY <1>1, <2>2 DEF UsageCovers, UserLimits, Bytes
    <2>5. usage'[u] = Max({0, usage[u] - a})
      BY <1>2 DEF Bytes
    <2> HIDE DEF a, b, c, A
    <2>6. usage'[u] = usage[u] - a
      <3>1. usage[u] - a \in Int /\ usage[u] - a >= 0
        BY <2>3, <2>4
      <3> QED
        BY <2>5, <3>1, MaxZero
    <2>7. Cardinality(Visible(u))' <= MaxActive
      <3>1. Visible(u)' \subseteq Visible(u) /\ Visible(u) \subseteq Torrent
        BY <1>1, <1>2 DEF Visible
      <3>2. Visible(u)' \in SUBSET Visible(u) /\ IsFiniteSet(Visible(u))
        BY <3>1, Finite, FS_Subset
      <3>3. Cardinality(Visible(u)') \in Nat /\ Cardinality(Visible(u)) \in Nat
            /\ Cardinality(Visible(u)') <= Cardinality(Visible(u))
        BY <3>2, FS_Subset, FS_CardinalityType
      <3> QED
        BY <1>1, <3>3, Finite DEF UserLimits
    <2> QED
      BY <2>3, <2>4, <2>6, <2>7, Finite DEF WithinQuota
  <1>4. RowsOK'
    BY <1>1, <1>2, <1>3 DEF RowsOK, Rights
  <1>5. StorageKept'
    <2>1. LedgerExact'
      BY <1>1 DEF LedgerExact, Stored, Bytes
    <2> QED
      BY <1>3, <2>1 DEF StorageKept, UserLimits, UsageCovers
  <1>6. ASSUME NEW y \in Tx \ {x} PROVE Respects(y)
    <2>1. ASSUME NEW u \in User, NEW t \in Torrent, holder[TorrentLock(t)] = y, right[u][t] # "none"
          PROVE  right'[u][t] # "none"
      <3>1. <<u, t>> \notin P
        BY <2>1
      <3> QED
        BY <1>1, <1>2, <2>1, <3>1
    <2> QED
      BY <1>3, <2>1 DEF Respects
  <1> QED
    BY <1>4, <1>5, <1>6

LEMMA CancelInv ==
  ASSUME Parameters, StorageInv, NEW x \in Tx, Cancel(x)
  PROVE  StorageInv'
  <1> DEFINE u == tx[x].user  t == tx[x].torrents[1]
  <1>1. tx[x] \in Session /\ Ready(x, "cancel") /\ tx[x].kind = "cancel" /\ End(x)
    BY DEF StorageInv, TypeOK, Cancel, Ready
  <1>2. tx[x].torrents # <<>> /\ Needs(x, TorrentLock(t))
    BY <1>1 DEF StorageInv, Prepared, OneTorrent
  <1>3. u \in User /\ t \in Torrent
    BY <1>1, <1>2, HeadOrTail DEF Session
  <1>4. holder[TorrentLock(t)] = x /\ right[u][t] # "none"
    BY <1>1, <1>2, ReadyHolds DEF Cancel
  <1>5. Refund({<<u, t>>}) /\ UNCHANGED <<managed, ledger>>
    BY DEF Cancel
  <1> HIDE DEF u, t
  <1>6. RowsOK' /\ StorageKept' /\ \A y \in Tx \ {x} : Respects(y)
    <2> DEFINE P == {<<u, t>>}
    <2>1. /\ P \in SUBSET (User \X Torrent)
          /\ \A p \in P : holder[TorrentLock(p[2])] = x /\ right[p[1]][p[2]] # "none"
      BY <1>3, <1>4
    <2>2. Refund(P)
      BY <1>5
    <2> HIDE DEF P
    <2> QED
      BY <1>5, <2>1, <2>2, RefundKeeps
  <1> QED
    BY <1>1, <1>6, CommitStep

LEMMA EndsRightsInv ==
  ASSUME Parameters, StorageInv, NEW x \in Tx, Expire(x) \/ Purge(x)
  PROVE  StorageInv'
  <1>1. tx[x] \in Session /\ tx[x].kind \in {"expire", "purge"} /\ End(x)
    BY DEF StorageInv, TypeOK, Expire, Purge, Ready
  <1>2. tx[x].pairs \in SUBSET (User \X Torrent)
    BY <1>1 DEF Session
  <1>3. \A p \in tx[x].pairs : holder[TorrentLock(p[2])] = x /\ right[p[1]][p[2]] # "none"
    BY <1>1 DEF StorageInv, Prepared, PairsHeld
  <1>4. Refund(tx[x].pairs) /\ UNCHANGED <<managed, ledger>>
    BY DEF Expire, Purge
  <1> QED
    BY <1>1, <1>2, <1>3, <1>4, RefundKeeps, CommitStep

LEMMA AdmitInv ==
  ASSUME Parameters, StorageInv, NEW x \in Tx, Admit(x)
  PROVE  StorageInv'
  <1>1. tx[x] \in Session /\ Ready(x, "admit") /\ tx[x].kind = "admit" /\ End(x)
    BY DEF StorageInv, TypeOK, Admit, Ready
  <1>2. /\ tx[x].torrents # <<>> /\ Needs(x, UserLock(tx[x].user))
        /\ tx[x].user \in User /\ tx[x].torrents \in Seq(Torrent)
    BY <1>1 DEF StorageInv, Prepared, OneTorrent, Session
  <1>3. PICK u \in User, t \in Torrent : u = tx[x].user /\ t = tx[x].torrents[1]
    BY <1>2, HeadOrTail
  <1>4. holder[UserLock(u)] = x
    BY <1>1, <1>2, <1>3, ReadyHolds
  <1>5. /\ MayReserve(t) /\ MayHold(u, t)
        /\ managed' = [managed EXCEPT ![t] = IF @ \in {"NONE", "PURGED"} THEN "LIVE" ELSE @]
        /\ ledger' = ledger + (IF managed[t] \in {"NONE", "PURGED"} THEN Size[t] ELSE 0)
        /\ right' = [right EXCEPT ![u][t] = "active"]
        /\ usage' = [usage EXCEPT ![u] = @ + (IF right[u][t] = "none" THEN Size[t] ELSE 0)]
    BY <1>3 DEF Admit
  <1>6. /\ managed \in [Torrent -> States] /\ right \in [User -> [Torrent -> Rights]]
        /\ usage \in [User -> Nat] /\ ledger \in Nat
        /\ LedgerExact /\ UserLimits /\ UsageCovers
    BY DEF StorageInv, TypeOK, StorageKept
  <1>7. /\ Size[t] \in Nat /\ Capacity \in Nat /\ UserMax \in Nat /\ MaxActive \in Nat
        /\ \A T \in SUBSET Torrent : SizeOf[T] \in Nat
    BY <1>3, Finite, SizeOfDef
  <1>8. RowsOK'
    <2>1. managed' \in [Torrent -> States]
      BY <1>3, <1>5, <1>6 DEF States
    <2>2. right' \in [User -> [Torrent -> Rights]]
      BY <1>3, <1>5, <1>6 DEF Rights
    <2>3. usage' \in [User -> Nat] /\ ledger' \in Nat
      BY <1>3, <1>5, <1>6, <1>7
    <2> QED
      BY <2>1, <2>2, <2>3 DEF RowsOK
  <1>9. LedgerExact'
    <2>1. CASE managed[t] \in {"NONE", "PURGED"}
      <3>1. t \in Stored' /\ Stored = Stored' \ {t} /\ Stored' \in SUBSET Torrent
        BY <1>3, <1>5, <1>6, <2>1 DEF Stored
      <3>2. SizeOf[Stored'] = Size[t] + SizeOf[Stored]
        BY <3>1, Finite, SumTake
      <3>3. ledger' = ledger + Size[t] /\ ledger + Size[t] <= Capacity
        BY <1>5, <2>1 DEF MayReserve
      <3>4. ledger = SizeOf[Stored]
        BY <1>6 DEF LedgerExact, Bytes
      <3>5. ledger' = SizeOf[Stored']
        <4> DEFINE a == SizeOf[Stored']  b == SizeOf[Stored]
        <4> SUFFICES ledger' = a
          OBVIOUS
        <4>1. a = Size[t] + b /\ ledger = b /\ ledger' = ledger + Size[t]
          BY <3>2, <3>3, <3>4
        <4> HIDE DEF a, b
        <4> QED
          BY <1>6, <1>7, <4>1
      <3> QED
        BY <3>3, <3>5 DEF LedgerExact, Bytes
    <2>2. CASE managed[t] \notin {"NONE", "PURGED"}
      <3>1. Stored' = Stored /\ ledger' = ledger
        BY <1>3, <1>5, <1>6, <2>2 DEF Stored
      <3> QED
        BY <1>6, <3>1 DEF LedgerExact, Bytes
    <2> QED
      BY <2>1, <2>2
  <1>10. ASSUME NEW v \in User, v # u
         PROVE  /\ usage'[v] = usage[v] /\ Rated(v)' = Rated(v) /\ Visible(v)' = Visible(v)
    BY <1>3, <1>5, <1>6, <1>10 DEF Rated, Visible
  <1>11. Bytes(Rated(u))' <= usage'[u] /\ WithinQuota(usage'[u])
    <2>1. CASE right[u][t] = "none"
      <3>1. t \in Rated(u)' /\ Rated(u) = Rated(u)' \ {t} /\ Rated(u)' \in SUBSET Torrent
        BY <1>3, <1>5, <1>6, <2>1 DEF Rated
      <3>2. SizeOf[Rated(u)'] = Size[t] + SizeOf[Rated(u)] /\ SizeOf[Rated(u)] \in Nat
        BY <1>7, <3>1, Finite, SumTake
      <3>3. usage'[u] = usage[u] + Size[t] /\ WithinQuota(usage[u] - 0 + Size[t]) /\ usage[u] \in Nat
        BY <1>3, <1>5, <1>6, <2>1 DEF MayHold
      <3>4. SizeOf[Rated(u)] <= usage[u]
        BY <1>3, <1>6 DEF UsageCovers, Bytes
      <3>5. SizeOf[Rated(u)'] <= usage'[u]
        <4> DEFINE a == SizeOf[Rated(u)']  b == SizeOf[Rated(u)]
        <4> SUFFICES a <= usage'[u]
          OBVIOUS
        <4>1. a = Size[t] + b /\ b <= usage[u] /\ b \in Nat
          BY <3>2, <3>4
        <4> HIDE DEF a, b
        <4> QED
          BY <1>7, <3>3, <4>1
      <3> QED
        BY <1>7, <3>3, <3>5 DEF Bytes, WithinQuota
    <2>2. CASE right[u][t] # "none"
      <3>1. Rated(u)' = Rated(u) /\ usage'[u] = usage[u]
        BY <1>3, <1>5, <1>6, <2>2 DEF Rated
      <3> QED
        BY <1>3, <1>6, <3>1 DEF UsageCovers, UserLimits, Bytes
    <2> QED
      BY <2>1, <2>2
  <1>12. Cardinality(Visible(u)') <= MaxActive
    <2>1. Visible(u) \in SUBSET Torrent /\ Visible(u)' = Visible(u) \cup {t}
      BY <1>3, <1>5, <1>6 DEF Visible
    <2>2. IsFiniteSet(Visible(u))
      BY <2>1, Finite, FS_Subset
    <2>3. Cardinality(Visible(u)) \in Nat /\ Cardinality(Visible(u)) <= MaxActive
      BY <1>3, <1>6, <2>2, FS_CardinalityType DEF UserLimits
    <2>4. CASE right[u][t] = "active"
      <3>1. Visible(u)' = Visible(u)
        BY <1>3, <2>1, <2>4 DEF Visible
      <3> QED
        BY <2>3, <3>1
    <2>5. CASE right[u][t] # "active"
      <3>1. Cardinality(Visible(u)) < MaxActive
        BY <1>5, <2>5 DEF MayHold
      <3>2. Cardinality(Visible(u) \cup {t}) \in {Cardinality(Visible(u)), Cardinality(Visible(u)) + 1}
        BY <2>2, FS_AddElement
      <3> QED
        BY <1>7, <2>1, <2>3, <3>1, <3>2
    <2> QED
      BY <2>4, <2>5
  <1>13. StorageKept'
    <2> SUFFICES ASSUME NEW v \in User
                 PROVE  /\ WithinQuota(usage[v])' /\ (Cardinality(Visible(v)) <= MaxActive)'
                        /\ (Bytes(Rated(v)) <= usage[v])'
      BY <1>9 DEF StorageKept, UserLimits, UsageCovers
    <2>1. CASE v = u
      BY <1>11, <1>12, <2>1
    <2>2. CASE v # u
      BY <1>6, <1>10, <2>2 DEF UserLimits, UsageCovers, Bytes
    <2> QED
      BY <2>1, <2>2
  <1>14. ASSUME NEW y \in Tx \ {x} PROVE Respects(y)
    <2>1. ASSUME NEW v \in User, NEW s \in Torrent, right[v][s] # "none" PROVE right'[v][s] # "none"
      BY <1>3, <1>5, <1>6, <2>1
    <2>2. ASSUME NEW v \in User, holder[UserLock(v)] = y PROVE Bytes(Rated(v))' <= Bytes(Rated(v))
      <3>1. v # u
        BY <1>4, <2>2
      <3>2. Rated(v)' = Rated(v) /\ SizeOf[Rated(v)] \in Nat
        BY <1>7, <1>10, <3>1 DEF Rated
      <3> QED
        BY <3>2 DEF Bytes
    <2> QED
      BY <2>1, <2>2 DEF Respects
  <1> QED
    BY <1>1, <1>8, <1>13, <1>14, CommitStep

\* Steps that leave the rights and the usage alone disturb no other session.
LEMMA RightsKept ==
  ASSUME Parameters, StorageInv, UNCHANGED <<right, usage>>
  PROVE  UserLimits' /\ UsageCovers' /\ \A y : Respects(y)
  <1>1. \A u \in User : /\ Rated(u)' = Rated(u) /\ Visible(u)' = Visible(u)
                        /\ SizeOf[Rated(u)] \in Nat
    BY Finite, SizeOfDef DEF Rated, Visible
  <1> QED
    BY <1>1 DEF StorageInv, StorageKept, UserLimits, UsageCovers, Respects, Bytes

LEMMA DeleteInv ==
  ASSUME Parameters, StorageInv, NEW x \in Tx, Delete(x)
  PROVE  StorageInv'
  <1>1. tx[x] \in Session /\ tx[x].kind = "delete" /\ End(x) /\ UNCHANGED <<right, usage>>
    BY DEF StorageInv, TypeOK, Delete, Ready
  <1>2. tx[x].torrents # <<>> /\ tx[x].torrents \in Seq(Torrent)
    BY <1>1 DEF StorageInv, Prepared, OneTorrent, Session
  <1>3. PICK t \in Torrent : t = tx[x].torrents[1]
    BY <1>2, HeadOrTail
  <1>4. /\ managed[t] = "PURGING" /\ managed' = [managed EXCEPT ![t] = "PURGED"]
        /\ ledger' = Max({0, ledger - Size[t]})
    BY <1>3 DEF Delete
  <1>5. /\ managed \in [Torrent -> States] /\ right \in [User -> [Torrent -> Rights]]
        /\ usage \in [User -> Nat] /\ ledger \in Nat /\ LedgerExact
    BY DEF StorageInv, TypeOK, StorageKept
  <1>6. t \in Stored /\ Stored' = Stored \ {t} /\ Stored \in SUBSET Torrent
    BY <1>4, <1>5 DEF Stored
  <1> DEFINE a == SizeOf[Stored]  b == SizeOf[Stored']
  <1>7. a = Size[t] + b /\ b \in Nat /\ Size[t] \in Nat /\ Capacity \in Nat
    BY <1>6, Finite, SumTake, SizeOfDef
  <1>8. ledger = a /\ a <= Capacity
    BY <1>5 DEF LedgerExact, Bytes
  <1>9. ledger' = b /\ b <= Capacity
    <2> HIDE DEF a, b
    <2> QED
      BY <1>4, <1>5, <1>7, <1>8, MaxZero
  <1>10. RowsOK'
    BY <1>1, <1>4, <1>5, <1>7, <1>9 DEF RowsOK, States
  <1>11. StorageKept'
    BY <1>1, <1>9, RightsKept DEF StorageKept, LedgerExact, Bytes
  <1> QED
    BY <1>1, <1>10, <1>11, RightsKept, CommitStep

LEMMA RetryInv ==
  ASSUME Parameters, StorageInv, NEW x \in Tx, Retry(x)
  PROVE  StorageInv'
  <1>1. tx[x] \in Session /\ tx[x].kind = "retry" /\ End(x) /\ UNCHANGED <<right, usage, ledger>>
    BY DEF StorageInv, TypeOK, Retry, Ready
  <1>2. tx[x].torrents # <<>> /\ tx[x].torrents \in Seq(Torrent)
    BY <1>1 DEF StorageInv, Prepared, OneTorrent, Session
  <1>3. PICK t \in Torrent : t = tx[x].torrents[1]
    BY <1>2, HeadOrTail
  <1>4. managed[t] = "ERROR" /\ managed' = [managed EXCEPT ![t] = "LIVE"]
    BY <1>3 DEF Retry
  <1>5. RowsOK /\ LedgerExact
    BY DEF StorageInv, TypeOK, StorageKept, RowsOK
  <1>6. RowsOK' /\ Stored' = Stored
    BY <1>1, <1>4, <1>5 DEF RowsOK, States, Stored
  <1>7. StorageKept'
    BY <1>1, <1>5, <1>6, RightsKept DEF StorageKept, LedgerExact, Bytes
  <1> QED
    BY <1>1, <1>6, <1>7, RightsKept, CommitStep

LEMMA ReconcileInv ==
  ASSUME Parameters, StorageInv, NEW x \in Tx, Reconcile(x)
  PROVE  StorageInv'
  <1>1. /\ tx[x] \in Session /\ tx[x].kind = "reconcile" /\ tx[x].read /\ End(x)
        /\ UNCHANGED <<managed, right>> /\ ledger' = Bytes(Stored)
        /\ usage' = [u \in User |-> IF \E p \in tx[x].pairs : p[1] = u THEN tx[x].sums[u] ELSE usage[u]]
    BY DEF StorageInv, TypeOK, Reconcile, Ready
  <1>2. tx[x].pairs \subseteq User \X Torrent /\ tx[x].sums \in [User -> Nat]
    BY <1>1 DEF Session
  <1>3. RowsOK /\ LedgerExact /\ UserLimits /\ UsageCovers
    BY DEF StorageInv, TypeOK, StorageKept, RowsOK
  <1>4. \A p \in tx[x].pairs :
           Bytes(Rated(p[1])) <= tx[x].sums[p[1]] /\ WithinQuota(tx[x].sums[p[1]])
    BY <1>1 DEF StorageInv, Prepared, SumsCover
  <1>5. Stored' = Stored /\ ledger' = ledger
    BY <1>1, <1>3 DEF Stored, LedgerExact
  <1>6. RowsOK'
    BY <1>1, <1>2, <1>3, <1>5 DEF RowsOK
  <1>7. \A u \in User : Rated(u)' = Rated(u) /\ Visible(u)' = Visible(u) /\ SizeOf[Rated(u)] \in Nat
    BY <1>1, Finite, SizeOfDef DEF Rated, Visible
  <1>8. \A u \in User : Bytes(Rated(u)) <= usage'[u] /\ WithinQuota(usage'[u])
    BY <1>1, <1>3, <1>4 DEF UserLimits, UsageCovers
  <1>9. StorageKept'
    BY <1>3, <1>5, <1>7, <1>8 DEF StorageKept, LedgerExact, UserLimits, UsageCovers, Bytes
  <1>10. \A y : Respects(y)
    BY <1>1, <1>7 DEF Respects, Bytes
  <1> QED
    BY <1>1, <1>6, <1>9, <1>10, CommitStep

\* The handlers' own steps on one torrent, and a right that falls due.
LEMMA HandlersInv ==
  ASSUME Parameters, StorageInv, NEW t \in Torrent, StartPurge(t) \/ Fail(t)
  PROVE  StorageInv'
  <1>1. /\ UNCHANGED <<right, usage, ledger, holder, tx>> /\ managed[t] \in {"LIVE", "ERROR"}
        /\ \E s \in {"PURGING", "ERROR"} : managed' = [managed EXCEPT ![t] = s]
    BY DEF StartPurge, Fail
  <1>2. RowsOK /\ LedgerExact
    BY DEF StorageInv, TypeOK, StorageKept, RowsOK
  <1>3. RowsOK' /\ Stored' = Stored
    BY <1>1, <1>2 DEF RowsOK, States, Stored
  <1>4. StorageKept'
    BY <1>1, <1>2, <1>3, RightsKept DEF StorageKept, LedgerExact, Bytes
  <1> QED
    BY <1>1, <1>3, <1>4, RightsKept, OutsideStep

LEMMA FallsDueInv ==
  ASSUME Parameters, StorageInv, NEW u \in User, NEW t \in Torrent, FallsDue(u, t)
  PROVE  StorageInv'
  <1>1. /\ right[u][t] = "active" /\ right' = [right EXCEPT ![u][t] = "due"]
        /\ UNCHANGED <<managed, usage, ledger, holder, tx>>
    BY DEF FallsDue
  <1>2. RowsOK /\ LedgerExact /\ UserLimits /\ UsageCovers
    BY DEF StorageInv, TypeOK, StorageKept, RowsOK
  <1>3. RowsOK'
    BY <1>1, <1>2 DEF RowsOK, Rights
  <1>4. /\ Stored' = Stored
        /\ \A v \in User : Rated(v)' = Rated(v) /\ Visible(v)' \subseteq Visible(v)
    BY <1>1, <1>2 DEF RowsOK, Stored, Rated, Visible
  <1>5. \A v \in User : SizeOf[Rated(v)] \in Nat
    BY Finite, SizeOfDef DEF Rated
  <1>6. ASSUME NEW v \in User PROVE Cardinality(Visible(v)') <= MaxActive
    <2>1. Visible(v)' \in SUBSET Visible(v) /\ IsFiniteSet(Visible(v))
      BY <1>4, Finite, FS_Subset DEF Visible
    <2>2. Cardinality(Visible(v)') \in Nat /\ Cardinality(Visible(v)) \in Nat
          /\ Cardinality(Visible(v)') <= Cardinality(Visible(v))
      BY <2>1, FS_Subset, FS_CardinalityType
    <2> QED
      BY <1>2, <2>2, Finite DEF UserLimits
  <1>7. StorageKept'
    BY <1>1, <1>2, <1>4, <1>6 DEF StorageKept, LedgerExact, UserLimits, UsageCovers, Bytes
  <1>8. \A y : Respects(y)
    BY <1>1, <1>2, <1>4, <1>5 DEF Respects, Bytes, RowsOK
  <1> QED
    BY <1>1, <1>3, <1>7, <1>8, OutsideStep

-----------------------------------------------------------------------------
(* The theorem                                                             *)

LEMMA StorageInit ==
  ASSUME Parameters, Init
  PROVE  StorageInv
  <1>1. TypeOK
    BY Finite, IdleIsSession DEF Init, TypeOK, States, Rights
  <1>2. \A u \in User : Rated(u) = {} /\ Visible(u) = {}
    BY DEF Init, Rated, Visible
  <1>3. Stored = {}
    BY DEF Init, Stored
  <1>4. SizeOf[{}] = 0
    BY Finite, SizeOfDef
  <1>5. StorageKept
    <2>1. LedgerExact
      BY <1>3, <1>4, Finite DEF Init, LedgerExact, Bytes
    <2>2. UserLimits
      <3>1. \A u \in User : usage[u] = 0 /\ Cardinality(Visible(u)) = 0
        BY <1>2, FS_EmptySet DEF Init
      <3>2. UserMax \in Nat /\ MaxActive \in Nat
        BY Finite
      <3> QED
        BY <3>1, <3>2 DEF UserLimits, WithinQuota
    <2>3. UsageCovers
      BY <1>2, <1>4 DEF Init, UsageCovers, Bytes
    <2> QED
      BY <2>1, <2>2, <2>3 DEF StorageKept
  <1>6. \A x \in Tx : tx[x].kind = "idle"
    BY DEF Init, IdleTx
  <1> QED
    BY <1>1, <1>5, <1>6 DEF StorageInv, Prepared, OneTorrent, PairsHeld, PurgeLocks, SumsCover

LEMMA StorageStep ==
  ASSUME Parameters, StorageInv, Next
  PROVE  StorageInv'
  <1>1. ASSUME NEW x \in Tx, Begins(x) PROVE StorageInv'
    <2>1. CASE \E u \in User, t \in Torrent :
                  BeginAdmit(x, u, t) \/ BeginCancel(x, u, t) \/ BeginRetry(x, u, t)
      BY <2>1, BeginAdmitInv, BeginCancelInv, BeginRecheckedInv
    <2>2. CASE \E D \in SUBSET {p \in User \X Torrent : right[p[1]][p[2]] = "due"} : BeginExpire(x, D)
      <3>1. PICK D \in SUBSET {p \in User \X Torrent : right[p[1]][p[2]] = "due"} : BeginExpire(x, D)
        BY <2>2
      <3>2. D \in SUBSET (User \X Torrent)
        OBVIOUS
      <3> QED
        BY <3>1, <3>2, BeginExpireInv
    <2>3. CASE \E n \in 1..AdminBatch : \E s \in [1..n -> Torrent] : IsInjective(s) /\ BeginPurge(x, s)
      <3>1. PICK n \in 1..AdminBatch : \E s \in [1..n -> Torrent] : IsInjective(s) /\ BeginPurge(x, s)
        BY <2>3
      <3>2. n \in Nat
        OBVIOUS
      <3> QED
        BY <3>1, <3>2, BeginPurgeInv
    <2>4. CASE \E t \in Torrent : BeginDelete(x, t)
      BY <2>4, Finite, BeginRecheckedInv
    <2>5. CASE \E U \in SUBSET User : Cardinality(U) \in 1..ReconcileBatch /\ BeginReconcile(x, U)
      BY <2>5, BeginReconcileInv
    <2> QED
      BY <1>1, <2>1, <2>2, <2>3, <2>4, <2>5 DEF Begins
  <1>2. ASSUME NEW x \in Tx, \E n \in 1..ReconcileBatch : \E order \in [1..n -> User] : ReadSums(x, order)
        PROVE  StorageInv'
    <2>1. PICK n \in 1..ReconcileBatch : \E order \in [1..n -> User] : ReadSums(x, order)
      BY <1>2
    <2>2. n \in Nat
      OBVIOUS
    <2> QED
      BY <2>1, <2>2, ReadSumsInv
  <1>3. ASSUME NEW x \in Tx, Acquire(x) \/ ReadHolders(x) \/ Commits(x) \/ Abort(x)
        PROVE  StorageInv'
    BY <1>3, AcquireInv, ReadHoldersInv, AbortInv, AdmitInv, CancelInv, EndsRightsInv, DeleteInv,
       RetryInv, ReconcileInv DEF Commits
  <1> QED
    BY <1>1, <1>2, <1>3, HandlersInv, FallsDueInv DEF Next

\* For any users, torrents, sizes, limits and number of sessions, and every
\* interleaving of their transactions lock by lock: the ledger is the sum of
\* the stored torrents and within the capacity, no user passes the quota or the
\* limit of requests, and no counter drops below the rights held.
THEOREM CountersKept ==
  ASSUME Parameters
  PROVE  Spec => []StorageKept
  <1>1. Init => StorageInv
    BY StorageInit
  <1>2. StorageInv /\ [Next]_vars => StorageInv'
    <2>1. CASE Next
      BY <2>1, StorageStep
    <2>2. ASSUME StorageInv, UNCHANGED vars PROVE StorageInv'
      <3>1. UNCHANGED rows /\ UNCHANGED <<holder, tx>> /\ RowsOK'
        BY <2>2 DEF vars, rows, StorageInv, TypeOK, RowsOK
      <3> QED
        BY <2>2, <3>1, RowsKept, OutsideStep
    <2> QED
      BY <2>1, <2>2
  <1>3. StorageInv => StorageKept
    BY DEF StorageInv
  <1> QED
    BY <1>1, <1>2, <1>3, PTL DEF Spec

-----------------------------------------------------------------------------
(* No deadlock without a batch: the locks have ranks, and a session that   *)
(* is no batch waits only for a lock of a higher rank than all it holds    *)

Place(order, e) == CHOOSE i \in DOMAIN order : order[i] = e

\* The users before the torrents before the usages before the ledger, each in the
\* order of their ids.
LastUser == Len(UserOrder)
LastTorrent == LastUser + Len(TorrentOrder)
Highest == LastTorrent + LastUser + 1
Rank(l) ==
    IF l[1] = "user" THEN Place(UserOrder, l[2])
    ELSE IF l[1] = "torrent" THEN LastUser + Place(TorrentOrder, l[2])
    ELSE IF l[1] = "usage" THEN LastTorrent + Place(UserOrder, l[2])
    ELSE Highest

LEMMA Places ==
  ASSUME NEW order, order \in Seq(Range(order)), IsInjective(order)
  PROVE  /\ Len(order) \in Nat /\ DOMAIN order = 1..Len(order)
         /\ \A e \in Range(order) : Place(order, e) \in 1..Len(order)
         /\ \A i \in DOMAIN order : Place(order, order[i]) = i
  <1>1. Len(order) \in Nat /\ DOMAIN order = 1..Len(order)
    BY LenProperties
  <1>2. \A e \in Range(order) : \E i \in DOMAIN order : order[i] = e
    BY DEF Range
  <1>3. \A e \in Range(order) : Place(order, e) \in DOMAIN order
    BY <1>2 DEF Place
  <1>4. \A i \in DOMAIN order : Place(order, order[i]) = i
    BY DEF Place, IsInjective
  <1> QED
    BY <1>1, <1>3, <1>4

LEMMA Ranks ==
  ASSUME Parameters
  PROVE  /\ LastUser \in Nat /\ LastTorrent \in Nat /\ Highest \in Nat
         /\ LastUser <= LastTorrent /\ LastTorrent < Highest
         /\ \A u \in User : /\ Rank(UserLock(u)) = Place(UserOrder, u)
                            /\ Place(UserOrder, u) \in 1..LastUser
                            /\ Rank(UsageLock(u)) = LastTorrent + Place(UserOrder, u)
                            /\ LastTorrent + Place(UserOrder, u) < Highest
         /\ \A t \in Torrent : /\ Rank(TorrentLock(t)) = LastUser + Place(TorrentOrder, t)
                               /\ Place(TorrentOrder, t) \in Nat \ {0}
                               /\ LastUser + Place(TorrentOrder, t) <= LastTorrent
         /\ Rank(LedgerLock) = Highest
         /\ \A l \in Lock : Rank(l) \in 1..Highest
  <1> DEFINE n == Len(UserOrder)  k == Len(TorrentOrder)
  <1>1. n \in Nat /\ \A u \in User : Place(UserOrder, u) \in 1..n
    BY Places DEF Parameters, User
  <1>2. k \in Nat /\ \A t \in Torrent : Place(TorrentOrder, t) \in 1..k
    BY Places DEF Parameters, Torrent
  <1> HIDE DEF n, k
  <1>3. LastUser = n /\ LastTorrent = n + k /\ Highest = n + k + n + 1
    BY DEF LastUser, LastTorrent, Highest, n, k
  <1>4. /\ \A u : Rank(UserLock(u)) = Place(UserOrder, u)
        /\ \A t : Rank(TorrentLock(t)) = LastUser + Place(TorrentOrder, t)
        /\ \A u : Rank(UsageLock(u)) = LastTorrent + Place(UserOrder, u)
        /\ Rank(LedgerLock) = Highest
    BY DEF Rank, UserLock, TorrentLock, UsageLock, LedgerLock
  <1>5. \A l \in Lock : \/ \E u \in User : l = UserLock(u) \/ l = UsageLock(u)
                        \/ \E t \in Torrent : l = TorrentLock(t)
                        \/ l = LedgerLock
    BY DEF Lock, UserLock, TorrentLock, UsageLock, LedgerLock
  <1> HIDE DEF Rank
  <1>6. \A u \in User : /\ Rank(UserLock(u)) = Place(UserOrder, u)
                        /\ Place(UserOrder, u) \in 1..LastUser
                        /\ Rank(UsageLock(u)) = LastTorrent + Place(UserOrder, u)
                        /\ LastTorrent + Place(UserOrder, u) < Highest
    BY <1>1, <1>2, <1>3, <1>4
  <1>7. \A t \in Torrent : /\ Rank(TorrentLock(t)) = LastUser + Place(TorrentOrder, t)
                           /\ Place(TorrentOrder, t) \in Nat \ {0}
                           /\ LastUser + Place(TorrentOrder, t) <= LastTorrent
    BY <1>1, <1>2, <1>3, <1>4
  <1>8. /\ LastUser \in Nat /\ LastTorrent \in Nat /\ Highest \in Nat
        /\ LastUser <= LastTorrent /\ LastTorrent < Highest
    BY <1>1, <1>2, <1>3
  <1>9. \A l \in Lock : Rank(l) \in 1..Highest
    BY <1>4, <1>5, <1>6, <1>7, <1>8
  <1> QED
    BY <1>4, <1>6, <1>7, <1>8, <1>9

\* The locks of a list have ascending ranks.
Ascending(s) == \A i, j \in DOMAIN s : i < j => Rank(s[i]) < Rank(s[j])

\* Ids that are sorted have ascending places.
LEMMA SortedPlaces ==
  ASSUME NEW order, order \in Seq(Range(order)), IsInjective(order),
         NEW S \in SUBSET Range(order), NEW s \in Sorted(order, S)
  PROVE  /\ \A i \in DOMAIN s : s[i] \in S
         /\ \A i, j \in DOMAIN s : i < j => Place(order, s[i]) < Place(order, s[j])
  <1>1. /\ \A i \in DOMAIN s : s[i] \in S
        /\ \A i, j \in DOMAIN s : i < j =>
              \E k, l \in DOMAIN order : k < l /\ order[k] = s[i] /\ order[l] = s[j]
    BY DEF Sorted
  <1>2. \A k \in DOMAIN order : Place(order, order[k]) = k
    BY Places
  <1> QED
    BY <1>1, <1>2

\* Users, torrents and usages that are sorted by the ids are locked in ascending ranks.
LEMMA UsersAscend ==
  ASSUME Parameters, NEW U \in SUBSET User, NEW s \in Sorted(UserOrder, U)
  PROVE  /\ Ascending(UserLocks(s)) /\ Ascending(UsageLocks(s))
         /\ \A l \in Range(UserLocks(s)) : Rank(l) <= LastUser
         /\ \A l \in Range(UsageLocks(s)) : Rank(l) > LastTorrent /\ Rank(l) \in Nat
  <1>1. /\ \A i \in DOMAIN s : s[i] \in User
        /\ \A i, j \in DOMAIN s : i < j => Place(UserOrder, s[i]) < Place(UserOrder, s[j])
    BY SortedPlaces DEF User, Parameters
  <1>2. /\ DOMAIN UserLocks(s) = DOMAIN s /\ DOMAIN UsageLocks(s) = DOMAIN s
        /\ \A i \in DOMAIN s : /\ UserLocks(s)[i] = UserLock(s[i])
                               /\ UsageLocks(s)[i] = UsageLock(s[i])
    BY DEF UserLocks, UsageLocks
  <1>3. /\ LastUser \in Nat /\ LastTorrent \in Nat
        /\ \A i \in DOMAIN s : /\ Place(UserOrder, s[i]) \in 1..LastUser
                               /\ Rank(UserLock(s[i])) = Place(UserOrder, s[i])
                               /\ Rank(UsageLock(s[i])) = LastTorrent + Place(UserOrder, s[i])
    BY <1>1, Ranks
  <1>4. Ascending(UserLocks(s)) /\ Ascending(UsageLocks(s))
    BY <1>1, <1>2, <1>3 DEF Ascending
  <1>5. \A l \in Range(UserLocks(s)) : Rank(l) <= LastUser
    BY <1>2, <1>3 DEF Range
  <1>6. \A l \in Range(UsageLocks(s)) : Rank(l) > LastTorrent /\ Rank(l) \in Nat
    BY <1>2, <1>3 DEF Range
  <1> QED
    BY <1>4, <1>5, <1>6

LEMMA TorrentsAscend ==
  ASSUME Parameters, NEW T \in SUBSET Torrent, NEW s \in Sorted(TorrentOrder, T)
  PROVE  Ascending(TorrentLocks(s)) /\ \A l \in Range(TorrentLocks(s)) : Rank(l) <= LastTorrent
  <1>1. /\ \A i \in DOMAIN s : s[i] \in Torrent
        /\ \A i, j \in DOMAIN s : i < j => Place(TorrentOrder, s[i]) < Place(TorrentOrder, s[j])
    BY SortedPlaces DEF Torrent, Parameters
  <1>2. /\ DOMAIN TorrentLocks(s) = DOMAIN s
        /\ \A i \in DOMAIN s : TorrentLocks(s)[i] = TorrentLock(s[i])
    BY DEF TorrentLocks
  <1>3. /\ LastUser \in Nat /\ LastTorrent \in Nat
        /\ \A i \in DOMAIN s : /\ Place(TorrentOrder, s[i]) \in Nat
                               /\ Rank(TorrentLock(s[i])) = LastUser + Place(TorrentOrder, s[i])
                               /\ LastUser + Place(TorrentOrder, s[i]) <= LastTorrent
    BY <1>1, Ranks
  <1>4. Ascending(TorrentLocks(s))
    BY <1>1, <1>2, <1>3 DEF Ascending
  <1>5. \A l \in Range(TorrentLocks(s)) : Rank(l) <= LastTorrent
    BY <1>2, <1>3 DEF Range
  <1> QED
    BY <1>4, <1>5

\* An idle session has no locks, a purge that has no right to end yet has only
\* torrents, a reconciliation that has yet to read has only users.
Early(x, l) ==
    /\ tx[x].kind # "idle"
    /\ tx[x].kind = "purge" /\ tx[x].pairs = {} => Rank(l) <= LastTorrent
    /\ tx[x].kind = "reconcile" /\ ~tx[x].read => Rank(l) <= LastUser

\* What a session that is no batch holds ranks below all it is still to take,
\* which is taken in ascending ranks.  A purge comes to a torrent once.
Climbs(x) ==
    /\ tx[x].kind = "purge" => /\ IsInjective(tx[x].torrents)
                               /\ \A p \in tx[x].pairs : p[2] \notin Range(tx[x].torrents)
    /\ ~Batched(x) =>
          /\ Ascending(tx[x].plan)
          /\ \A l \in Lock : holder[l] = x =>
                Early(x, l) /\ \A m \in Range(tx[x].plan) : Rank(l) < Rank(m)
          /\ \A m \in Range(tx[x].plan) : Early(x, m)

LockInv == StorageInv /\ \A x \in Tx : Climbs(x)

\* Sessions that climb do not wait in a circle: of those in it, the one that waits
\* for the lock of the highest rank waits for one that waits for a higher one.
LEMMA ClimbersPass ==
  ASSUME Parameters, LockInv
  PROVE  CirclesBatched
  <1> SUFFICES ASSUME NEW X \in SUBSET Tx, X # {}, \A x \in X : ~Batched(x),
                      \A x \in X : Waits(x) /\ holder[Head(tx[x].plan)] \in X
               PROVE  FALSE
    BY DEF CirclesBatched, Circle
  <1> DEFINE W(x) == Head(tx[x].plan)
             B == {Highest - Rank(W(x)) : x \in X}
  <1>1. \A x \in X : tx[x].plan # <<>> /\ tx[x].plan \in Seq(Lock)
    BY DEF Waits, LockInv, StorageInv, TypeOK, Session
  <1>2. \A x \in X : W(x) \in Lock /\ W(x) \in Range(tx[x].plan)
    BY <1>1, HeadOrTail
  <1>3. Highest \in Nat /\ \A x \in X : Rank(W(x)) \in Nat /\ Rank(W(x)) <= Highest
    BY <1>2, Ranks
  <1>4. B \in SUBSET Nat /\ B # {}
    <2> HIDE DEF W
    <2>1. \A x \in X : Highest - Rank(W(x)) \in Nat
      BY <1>3
    <2> QED
      BY <2>1
  <1>5. PICK b \in B : \A c \in B : b <= c
    <2> HIDE DEF B
    <2> QED
      BY <1>4, LeastNumber
  <1>6. PICK x \in X : b = Highest - Rank(W(x))
    BY <1>5
  <1>7. PICK y \in X : holder[W(x)] = y
    OBVIOUS
  <1>8. Rank(W(x)) < Rank(W(y))
    <2>1. y \in Tx /\ Climbs(y) /\ ~Batched(y)
      BY DEF LockInv
    <2> QED
      BY <1>2, <1>7, <2>1 DEF Climbs
  <1>9. Highest - Rank(W(x)) <= Highest - Rank(W(y))
    BY <1>5, <1>6
  <1> QED
    BY <1>3, <1>8, <1>9

\* x's step gives no lock to another session, and works on no other.
Alone(x) ==
    \A y \in Tx \ {x} :
        tx'[y] = tx[y] /\ \A l \in Lock : holder'[l] = y => holder[l] = y

LEMMA OthersClimb ==
  ASSUME LockInv, NEW x, Alone(x), NEW y \in Tx \ {x}
  PROVE  Climbs(y)'
  <1>1. Climbs(y) /\ tx'[y] = tx[y] /\ \A l \in Lock : holder'[l] = y => holder[l] = y
    BY DEF LockInv, Alone
  <1> QED
    BY <1>1 DEF Climbs, Ascending, Batched, Early

\* A session that was idle takes up a list of locks in ascending ranks.
LEMMA BeginClimbs ==
  ASSUME LockInv, NEW x \in Tx, NEW s, Begin(x, s), UNCHANGED holder,
         Ascending(s.plan), s.kind # "idle",
         s.kind = "purge" => /\ IsInjective(s.torrents) /\ s.pairs = {}
                             /\ \A m \in Range(s.plan) : Rank(m) <= LastTorrent,
         s.kind = "reconcile" => \A m \in Range(s.plan) : Rank(m) <= LastUser
  PROVE  \A y \in Tx : Climbs(y)'
  <1>1. tx' = [tx EXCEPT ![x] = s] /\ tx[x].kind = "idle" /\ tx \in [Tx -> Session]
    BY DEF Begin, IdleTx, LockInv, StorageInv, TypeOK
  <1>2. \A l \in Lock : holder'[l] # x
    BY <1>1 DEF LockInv, Climbs, Batched, Early
  <1>3. tx'[x] = s
    BY <1>1
  <1>4. Climbs(x)'
    BY <1>2, <1>3 DEF Climbs, Early
  <1>5. Alone(x)
    BY <1>1 DEF Alone
  <1> QED
    BY <1>4, <1>5, OthersClimb

\* The lists of one torrent ascend.
LEMMA OneAscends ==
  ASSUME Parameters, NEW u \in User, NEW t \in Torrent
  PROVE  /\ Ascending(<<UserLock(u), TorrentLock(t), UsageLock(u), LedgerLock>>)
         /\ Ascending(<<UserLock(u), TorrentLock(t), UsageLock(u)>>)
         /\ Ascending(<<TorrentLock(t), LedgerLock>>)
  <1> DEFINE a == UserLock(u)  b == TorrentLock(t)  c == UsageLock(u)  d == LedgerLock
  <1>1. /\ LastUser \in Nat /\ LastTorrent \in Nat /\ Highest \in Nat
        /\ Rank(a) \in 1..LastUser
        /\ Rank(b) \in Nat /\ LastUser < Rank(b) /\ Rank(b) <= LastTorrent
        /\ Rank(c) \in Nat /\ LastTorrent < Rank(c) /\ Rank(c) < Highest
        /\ Rank(d) = Highest
    BY Ranks
  <1> HIDE DEF a, b, c, d
  <1>2. Rank(a) < Rank(b) /\ Rank(b) < Rank(c) /\ Rank(c) < Rank(d) /\ Rank(a) < Rank(c)
        /\ Rank(a) < Rank(d) /\ Rank(b) < Rank(d)
    BY <1>1
  <1>3. Ascending(<<a, b, c, d>>)
    BY <1>2 DEF Ascending
  <1>4. Ascending(<<a, b, c>>) /\ Ascending(<<b, d>>)
    BY <1>2 DEF Ascending
  <1> QED
    BY <1>3, <1>4 DEF a, b, c, d

LEMMA OneTorrentClimbs ==
  ASSUME Parameters, LockInv, NEW x \in Tx, NEW u \in User, NEW t \in Torrent,
         \/ BeginAdmit(x, u, t) \/ BeginCancel(x, u, t) \/ BeginRetry(x, u, t) \/ BeginDelete(x, t)
  PROVE  \A y \in Tx : Climbs(y)'
  <1> DEFINE Fine(s) == s.kind \in {"admit", "cancel", "retry", "delete"} /\ Ascending(s.plan)
  <1>1. \E s : Begin(x, s) /\ Fine(s) /\ UNCHANGED holder
    <2>1. CASE BeginAdmit(x, u, t)
      <3> DEFINE q == <<UserLock(u), TorrentLock(t), UsageLock(u), LedgerLock>>
                 s == [IdleTx EXCEPT !.kind = "admit", !.user = u, !.torrents = <<t>>, !.plan = q]
      <3>1. Begin(x, s) /\ UNCHANGED holder
        BY <2>1 DEF BeginAdmit
      <3>2. s.kind = "admit" /\ s.plan = q
        BY DEF IdleTx
      <3> HIDE DEF s
      <3> QED
        BY <3>1, <3>2, OneAscends
    <2>2. CASE BeginCancel(x, u, t)
      <3> DEFINE q == <<UserLock(u), TorrentLock(t), UsageLock(u)>>
                 s == [IdleTx EXCEPT !.kind = "cancel", !.user = u, !.torrents = <<t>>, !.plan = q]
      <3>1. Begin(x, s) /\ UNCHANGED holder
        BY <2>2 DEF BeginCancel
      <3>2. s.kind = "cancel" /\ s.plan = q
        BY DEF IdleTx
      <3> HIDE DEF s
      <3> QED
        BY <3>1, <3>2, OneAscends
    <2>3. CASE BeginRetry(x, u, t)
      <3> DEFINE q == <<TorrentLock(t), LedgerLock>>
                 s == [IdleTx EXCEPT !.kind = "retry", !.user = u, !.torrents = <<t>>, !.plan = q]
      <3>1. Begin(x, s) /\ UNCHANGED holder
        BY <2>3 DEF BeginRetry
      <3>2. s.kind = "retry" /\ s.plan = q
        BY DEF IdleTx
      <3> HIDE DEF s
      <3> QED
        BY <3>1, <3>2, OneAscends
    <2>4. CASE BeginDelete(x, t)
      <3> DEFINE q == <<TorrentLock(t), LedgerLock>>
                 s == [IdleTx EXCEPT !.kind = "delete", !.torrents = <<t>>, !.plan = q]
      <3>1. Begin(x, s) /\ UNCHANGED holder
        BY <2>4 DEF BeginDelete
      <3>2. s.kind = "delete" /\ s.plan = q
        BY DEF IdleTx
      <3> HIDE DEF s
      <3> QED
        BY <3>1, <3>2, OneAscends
    <2> QED
      BY <2>1, <2>2, <2>3, <2>4
  <1> QED
    BY <1>1, BeginClimbs

LEMMA PurgeClimbs ==
  ASSUME Parameters, LockInv, NEW x \in Tx, NEW n \in Nat, NEW named \in [1..n -> Torrent],
         IsInjective(named), BeginPurge(x, named)
  PROVE  \A y \in Tx : Climbs(y)'
  <1> DEFINE S(q) == [IdleTx EXCEPT !.kind = "purge", !.torrents = named, !.plan = q]
  <1>1. PICK o \in Sorted(TorrentOrder, Range(named)) : Begin(x, S(TorrentLocks(o))) /\ UNCHANGED holder
    BY DEF BeginPurge
  <1>2. Range(named) \in SUBSET Torrent
    BY DEF Range
  <1>3. Ascending(TorrentLocks(o)) /\ \A m \in Range(TorrentLocks(o)) : Rank(m) <= LastTorrent
    BY <1>1, <1>2, TorrentsAscend
  <1> DEFINE s == S(TorrentLocks(o))
  <1>4. s.kind = "purge" /\ s.plan = TorrentLocks(o) /\ s.torrents = named /\ s.pairs = {}
    BY DEF IdleTx
  <1>5. Begin(x, s)
    BY <1>1
  <1> HIDE DEF s, S
  <1> QED
    BY <1>1, <1>3, <1>4, <1>5, BeginClimbs

LEMMA ReconcileClimbs ==
  ASSUME Parameters, LockInv, NEW x \in Tx, NEW U \in SUBSET User, BeginReconcile(x, U)
  PROVE  \A y \in Tx : Climbs(y)'
  <1> DEFINE S(q) == [IdleTx EXCEPT !.kind = "reconcile", !.pairs = U \X Torrent, !.plan = q]
  <1>1. PICK o \in Sorted(UserOrder, U) : Begin(x, S(UserLocks(o))) /\ UNCHANGED holder
    BY DEF BeginReconcile
  <1>2. Ascending(UserLocks(o)) /\ \A m \in Range(UserLocks(o)) : Rank(m) <= LastUser
    BY <1>1, UsersAscend
  <1> DEFINE s == S(UserLocks(o))
  <1>3. s.kind = "reconcile" /\ s.plan = UserLocks(o)
    BY DEF IdleTx
  <1>4. Begin(x, s)
    BY <1>1
  <1> HIDE DEF s, S
  <1> QED
    BY <1>1, <1>2, <1>3, <1>4, BeginClimbs

LEMMA ExpireClimbs ==
  ASSUME Parameters, LockInv, NEW x \in Tx, NEW D \in SUBSET (User \X Torrent), BeginExpire(x, D)
  PROVE  \A y \in Tx : Climbs(y)'
  <1> DEFINE U == {p[1] : p \in D}
             S(q) == [IdleTx EXCEPT !.kind = "expire", !.pairs = D, !.plan = q]
  <1>1. PICK o \in Sorted(UserOrder, U) : Begin(x, S(UsageLocks(o)))
    BY DEF BeginExpire
  <1>2. U \in SUBSET User
    OBVIOUS
  <1>3. Ascending(UsageLocks(o)) /\ \A l \in Range(UsageLocks(o)) : Rank(l) > LastTorrent /\ Rank(l) \in Nat
    <2> HIDE DEF U
    <2> QED
      BY <1>1, <1>2, UsersAscend
  <1> DEFINE s == S(UsageLocks(o))
  <1>4. s.kind = "expire" /\ s.plan = UsageLocks(o)
    BY DEF IdleTx
  <1>5. tx' = [tx EXCEPT ![x] = s] /\ tx[x] = IdleTx
    BY <1>1 DEF Begin
  <1> HIDE DEF s, S, U
  <1>6. /\ holder' = [l \in Lock |-> IF \E p \in D : l = TorrentLock(p[2]) THEN x ELSE holder[l]]
        /\ tx \in [Tx -> Session] /\ tx[x].kind = "idle"
    BY <1>5 DEF BeginExpire, LockInv, StorageInv, TypeOK, IdleTx
  <1>7. \A l \in Lock : holder'[l] = x => Rank(l) \in Nat /\ Rank(l) <= LastTorrent
    <2>1. \A l \in Lock : holder[l] # x
      BY <1>6 DEF LockInv, Climbs, Batched, Early
    <2>2. \A p \in D : p[2] \in Torrent
      OBVIOUS
    <2>3. \A t \in Torrent : Rank(TorrentLock(t)) \in Nat /\ Rank(TorrentLock(t)) <= LastTorrent
      BY Ranks
    <2> QED
      BY <1>6, <2>1, <2>2, <2>3
  <1>8. Climbs(x)'
    <2>1. tx'[x].kind = "expire" /\ tx'[x].plan = UsageLocks(o) /\ LastTorrent \in Nat
      BY <1>4, <1>5, <1>6, Ranks
    <2> QED
      BY <1>3, <1>7, <2>1 DEF Climbs, Early
  <1>9. Alone(x)
    BY <1>5, <1>6 DEF Alone
  <1> QED
    BY <1>8, <1>9, OthersClimb

\* The rest of a list without repetitions has none and leaves its first element out.
LEMMA TailInjective ==
  ASSUME NEW T \in Seq(Torrent), T # <<>>, IsInjective(T)
  PROVE  /\ IsInjective(Tail(T)) /\ Head(T) \in Range(T) /\ Head(T) \notin Range(Tail(T))
         /\ Range(Tail(T)) \subseteq Range(T)
  <1>1. /\ Len(T) \in Nat \ {0} /\ DOMAIN T = 1..Len(T) /\ T[1] = Head(T)
        /\ DOMAIN Tail(T) = 1..(Len(T) - 1)
        /\ \A i \in 1..(Len(T) - 1) : Tail(T)[i] = T[i + 1]
    BY HeadTailProperties, LenProperties, EmptySeq, HeadOrTail
  <1>2. \A i \in DOMAIN Tail(T) : i + 1 \in DOMAIN T /\ Tail(T)[i] = T[i + 1] /\ i + 1 # 1 /\ i \in Int
    BY <1>1
  <1>3. IsInjective(Tail(T))
    <2> SUFFICES ASSUME NEW i \in DOMAIN Tail(T), NEW j \in DOMAIN Tail(T), Tail(T)[i] = Tail(T)[j]
                 PROVE  i = j
      BY DEF IsInjective
    <2>1. i + 1 = j + 1
      BY <1>2 DEF IsInjective
    <2> QED
      BY <1>2, <2>1
  <1>4. 1 \in DOMAIN T
    BY <1>1
  <1>5. Head(T) \in Range(T)
    BY <1>1, <1>4 DEF Range
  <1>6. Head(T) \notin Range(Tail(T))
    BY <1>1, <1>2, <1>4 DEF Range, IsInjective
  <1>7. Range(Tail(T)) \subseteq Range(T)
    BY <1>2 DEF Range
  <1> QED
    BY <1>3, <1>5, <1>6, <1>7

\* A purge reads the holders of a torrent: the first that has any gives it the
\* usages of its holders to lock, the second makes it a batch.
LEMMA ReadHoldersClimbs ==
  ASSUME Parameters, LockInv, NEW x \in Tx, ReadHolders(x)
  PROVE  \A y \in Tx : Climbs(y)'
  <1> DEFINE T == tx[x].torrents  t == Head(T)  P == tx[x].pairs
  <1>1. /\ tx[x] \in Session /\ tx[x].kind = "purge" /\ tx[x].plan = <<>> /\ Climbs(x)
        /\ T # <<>> /\ T \in Seq(Torrent) /\ UNCHANGED holder /\ tx \in [Tx -> Session]
    BY DEF LockInv, StorageInv, TypeOK, Session, ReadHolders
  <1>2. IsInjective(T) /\ \A p \in P : p[2] \notin Range(T)
    BY <1>1 DEF Climbs
  <1>3. IsInjective(Tail(T)) /\ t \in Range(T) /\ t \notin Range(Tail(T)) /\ Range(Tail(T)) \subseteq Range(T)
    <2> HIDE DEF T
    <2> QED
      BY <1>1, <1>2, TailInjective
  <1>4. Ascending(<<>>) /\ Range(<<>>) = {}
    BY DEF Ascending, Range
  <1>5. CASE tx' = [tx EXCEPT ![x] = [tx[x] EXCEPT !.torrents = Tail(@)]]
    <2> DEFINE s == [tx[x] EXCEPT !.torrents = Tail(@)]
    <2>1. s.kind = "purge" /\ s.torrents = Tail(T) /\ s.plan = <<>> /\ s.pairs = P
      BY <1>1 DEF Session
    <2>2. tx'[x] = s
      BY <1>1, <1>5
    <2> HIDE DEF s
    <2>3. tx'[x].kind = "purge" /\ tx'[x].torrents = Tail(T) /\ tx'[x].plan = <<>> /\ tx'[x].pairs = P
      BY <2>1, <2>2
    <2>4. ~Batched(x)' => ~Batched(x)
      BY <1>1, <2>3 DEF Batched
    <2>5. \A l \in Lock : holder[l] = x /\ ~Batched(x) /\ P = {} => Rank(l) <= LastTorrent
      BY <1>1 DEF Climbs, Early
    <2>6. Climbs(x)'
      BY <1>1, <1>2, <1>3, <1>4, <2>3, <2>4, <2>5 DEF Climbs, Early
    <2>7. Alone(x)
      BY <1>1, <1>5 DEF Alone
    <2> QED
      BY <2>6, <2>7, OthersClimb
  <1>6. CASE \E o \in Sorted(UserOrder, Held(t)) :
               tx' = [tx EXCEPT ![x] = [tx[x] EXCEPT !.torrents = Tail(@), !.plan = UsageLocks(o),
                                                     !.pairs = @ \cup (Held(t) \X {t})]]
    <2>1. PICK o \in Sorted(UserOrder, Held(t)) :
               tx' = [tx EXCEPT ![x] = [tx[x] EXCEPT !.torrents = Tail(@), !.plan = UsageLocks(o),
                                                     !.pairs = @ \cup (Held(t) \X {t})]]
      BY <1>6
    <2> DEFINE s == [tx[x] EXCEPT !.torrents = Tail(@), !.plan = UsageLocks(o),
                                  !.pairs = @ \cup (Held(t) \X {t})]
    <2>2. /\ s.kind = "purge" /\ s.torrents = Tail(T) /\ s.plan = UsageLocks(o)
          /\ s.pairs = P \cup (Held(t) \X {t})
      BY <1>1 DEF Session
    <2>3. tx'[x] = s
      BY <1>1, <2>1
    <2> HIDE DEF s
    <2>4. /\ tx'[x].kind = "purge" /\ tx'[x].torrents = Tail(T) /\ tx'[x].plan = UsageLocks(o)
          /\ tx'[x].pairs = P \cup (Held(t) \X {t})
      BY <2>2, <2>3
    <2>5. Held(t) \in SUBSET User
      BY DEF Held
    <2>6. /\ Ascending(UsageLocks(o))
          /\ \A m \in Range(UsageLocks(o)) : Rank(m) > LastTorrent /\ Rank(m) \in Nat
      BY <2>1, <2>5, UsersAscend
    <2>7. Held(t) = {} => Range(UsageLocks(o)) = {}
      <3>1. ASSUME Held(t) = {} PROVE DOMAIN o = {}
        BY <2>1, <3>1, SortedPlaces, FS_EmptySet DEF Sorted
      <3> QED
        BY <3>1 DEF UsageLocks, Range
    <2>8. ASSUME ~Batched(x)'
          PROVE  /\ ~Batched(x)
                 /\ Held(t) # {} => P = {} /\ tx'[x].pairs # {}
                 /\ Held(t) = {} => tx'[x].pairs = P
      <3>1. ~Batched(x)
        BY <1>1, <2>4, <2>8 DEF Batched
      <3>2. ASSUME NEW u \in Held(t), NEW p \in P PROVE FALSE
        <4>0. p \in tx'[x].pairs /\ <<u, t>> \in tx'[x].pairs /\ p[2] # t
          <5> HIDE DEF T, t, P
          <5>1. Held(t) \X {t} \subseteq tx'[x].pairs /\ P \subseteq tx'[x].pairs
            BY <2>4
          <5>2. <<u, t>> \in Held(t) \X {t}
            BY <3>2
          <5>3. p[2] \notin Range(T)
            BY <1>2, <3>2 DEF P
          <5> QED
            BY <1>3, <3>2, <5>1, <5>2, <5>3
        <4>1. p \in tx'[x].pairs /\ \E q \in tx'[x].pairs : p[2] # q[2]
          <5> HIDE DEF T, t, P
          <5>1. p[2] # <<u, t>>[2]
            BY <4>0
          <5> QED
            BY <4>0, <5>1
        <4>2. tx'[x].kind = "purge"
          BY <2>4
        <4> QED
          BY <2>8, <4>1, <4>2, Zenon DEF Batched
      <3>3. ASSUME Held(t) # {} PROVE tx'[x].pairs # {}
        <4> HIDE DEF T, t, P
        <4>1. PICK u \in Held(t) : TRUE
          BY <3>3
        <4>2. <<u, t>> \in Held(t) \X {t}
          BY <4>1
        <4> QED
          BY <2>4, <4>2
      <3>4. Held(t) = {} => tx'[x].pairs = P
        BY <2>4
      <3> QED
        BY <3>1, <3>2, <3>3, <3>4
    <2>9. \A p \in tx'[x].pairs : p[2] \notin Range(Tail(T))
      BY <1>2, <1>3, <2>4
    <2>10. ASSUME ~Batched(x)', NEW l \in Lock, holder[l] = x
           PROVE  /\ Rank(l) \in Nat /\ (P = {} => Rank(l) <= LastTorrent)
                  /\ \A m \in Range(UsageLocks(o)) : Rank(l) < Rank(m)
      <3>1. ~Batched(x) /\ Rank(l) \in Nat /\ LastTorrent \in Nat
        BY <2>8, <2>10, Ranks
      <3>2. P = {} => Rank(l) <= LastTorrent
        BY <1>1, <2>10, <3>1 DEF Climbs, Early
      <3> HIDE DEF T, t, P
      <3>3. ASSUME NEW m \in Range(UsageLocks(o)) PROVE Rank(l) < Rank(m)
        BY <2>6, <2>7, <2>8, <2>10, <3>1, <3>2, <3>3
      <3> QED
        BY <3>1, <3>2, <3>3
    <2>11. Climbs(x)'
      <3> HIDE DEF T, t, P
      <3>1. /\ IsInjective(tx'[x].torrents)
            /\ \A p \in tx'[x].pairs : p[2] \notin Range(tx'[x].torrents)
        BY <1>3, <2>4, <2>9
      <3>2. ASSUME ~Batched(x)', NEW l \in Lock, holder'[l] = x
            PROVE  Early(x, l)' /\ \A m \in Range(tx'[x].plan) : Rank(l) < Rank(m)
        <4>1. holder[l] = x
          BY <1>1, <3>2
        <4>2. tx'[x].pairs = {} => Rank(l) <= LastTorrent
          BY <2>8, <2>10, <3>2, <4>1
        <4> QED
          BY <2>4, <2>10, <3>2, <4>1, <4>2 DEF Early
      <3>3. ASSUME ~Batched(x)', NEW m \in Range(tx'[x].plan) PROVE Early(x, m)'
        <4>1. tx'[x].pairs # {}
          BY <2>4, <2>7, <2>8, <3>3
        <4> QED
          BY <2>4, <4>1 DEF Early
      <3> QED
        BY <2>4, <2>6, <3>1, <3>2, <3>3 DEF Climbs
    <2>12. Alone(x)
      BY <1>1, <2>1 DEF Alone
    <2> QED
      BY <2>11, <2>12, OthersClimb
  <1> QED
    BY <1>5, <1>6 DEF ReadHolders

LEMMA ReadSumsClimbs ==
  ASSUME Parameters, LockInv, NEW x \in Tx, NEW n \in Nat, NEW order \in [1..n -> User],
         ReadSums(x, order)
  PROVE  \A y \in Tx : Climbs(y)'
  <1> DEFINE U == {p[1] : p \in tx[x].pairs}
             m == [u \in User |-> IF u \in U THEN Bytes(Rated(u)) ELSE 0]
             q == Append(UsageLocks(order), LedgerLock)
             s == [tx[x] EXCEPT !.read = TRUE, !.sums = m, !.plan = q]
  <1>1. /\ tx[x] \in Session /\ tx[x].kind = "reconcile" /\ tx[x].plan = <<>> /\ tx[x].read = FALSE
        /\ Climbs(x) /\ UNCHANGED holder /\ tx \in [Tx -> Session]
    BY DEF LockInv, StorageInv, TypeOK, Session, ReadSums
  <1>2. tx' = [tx EXCEPT ![x] = s] /\ Len(order) = Cardinality(U)
    BY DEF ReadSums
  <1>3. s.kind = "reconcile" /\ s.read = TRUE /\ s.plan = q /\ s.pairs = tx[x].pairs
    BY <1>1 DEF Session
  <1> HIDE DEF s, m
  <1>a. tx'[x] = s
    BY <1>1, <1>2
  <1>b. Batched(x)' = Batched(x)
    BY <1>1, <1>3, <1>a DEF Batched
  <1>c. Alone(x)
    BY <1>1, <1>2 DEF Alone
  <1>d. ASSUME Batched(x) PROVE \A y \in Tx : Climbs(y)'
    <2>1. tx'[x].kind # "purge"
      BY <1>3, <1>a
    <2>2. Climbs(x)'
      BY <1>b, <1>d, <2>1, Zenon DEF Climbs
    <2> QED
      BY <1>c, <2>2, OthersClimb
  <1> SUFFICES ASSUME ~Batched(x) PROVE \A y \in Tx : Climbs(y)'
    BY <1>d
  <1>4. Cardinality(U) \in Nat /\ Cardinality(U) <= 1
    <2>1. CASE U = {}
      <3>1. Cardinality({}) = 0
        BY FS_EmptySet
      <3> HIDE DEF U
      <3> QED
        BY <2>1, <3>1
    <2>2. CASE U # {}
      <3>1. PICK p \in tx[x].pairs : TRUE
        BY <2>2
      <3>2. U = {p[1]}
        BY <1>1, <3>1 DEF Batched
      <3>3. Cardinality(U) = 1
        BY <3>2, FS_Singleton
      <3> QED
        BY <3>3
    <2> QED
      BY <2>1, <2>2
  <1> HIDE DEF U
  <1>5. n <= 1 /\ n = Len(order)
    <2>1. order \in Seq(User)
      BY SeqDef
    <2>2. DOMAIN order = 1..Len(order) /\ DOMAIN order = 1..n /\ Len(order) \in Nat
      BY <2>1, LenProperties
    <2> QED
      BY <1>2, <1>4, <2>2
  <1> DEFINE w == UsageLocks(order)
  <1>6. /\ w \in Seq(Lock) /\ DOMAIN w = 1..n /\ Len(w) = n
        /\ \A i \in 1..n : w[i] = UsageLock(order[i])
    <2>1. w \in Seq(Lock) /\ DOMAIN w = 1..n /\ \A i \in 1..n : w[i] = UsageLock(order[i])
      BY PlanOfUsers DEF UsageLocks
    <2> HIDE DEF w
    <2>2. Len(w) \in Nat /\ DOMAIN w = 1..Len(w)
      BY <2>1, LenProperties
    <2> QED
      BY <2>1, <2>2
  <1> HIDE DEF w
  <1>7. /\ q \in Seq(Lock) /\ Len(q) = n + 1 /\ DOMAIN q = 1..(n + 1)
        /\ \A i \in 1..n : q[i] = UsageLock(order[i])
        /\ q[n + 1] = LedgerLock
    <2>1. q = Append(w, LedgerLock)
      BY DEF w
    <2> HIDE DEF q
    <2>2. q \in Seq(Lock) /\ Len(q) = n + 1 /\ (\A i \in 1..n : q[i] = w[i]) /\ q[n + 1] = LedgerLock
      BY <1>6, <2>1, Locks, AppendProperties
    <2>3. DOMAIN q = 1..(n + 1)
      BY <2>2, LenProperties
    <2> QED
      BY <1>6, <2>2, <2>3
  <1> HIDE DEF q
  <1>8. /\ Rank(q[n + 1]) = Highest /\ LastTorrent < Highest /\ LastUser <= LastTorrent
        /\ Highest \in Nat /\ LastTorrent \in Nat /\ LastUser \in Nat
        /\ \A i \in 1..n : Rank(q[i]) \in Nat /\ LastTorrent < Rank(q[i]) /\ Rank(q[i]) < Highest
    <2>1. \A i \in 1..n : order[i] \in User
      OBVIOUS
    <2>2. \A i \in 1..n : /\ Place(UserOrder, order[i]) \in Nat \ {0}
                           /\ Rank(q[i]) = LastTorrent + Place(UserOrder, order[i])
                           /\ LastTorrent + Place(UserOrder, order[i]) < Highest
      BY <1>7, <2>1, Ranks
    <2> QED
      BY <1>7, <2>2, Ranks
  <1>9. Ascending(q)
    <2> SUFFICES ASSUME NEW i \in 1..(n + 1), NEW j \in 1..(n + 1), i < j
                 PROVE  Rank(q[i]) < Rank(q[j])
      BY <1>7 DEF Ascending
    <2>1. i \in 1..n /\ j = n + 1
      BY <1>5
    <2> QED
      BY <1>8, <2>1
  <1>10. \A l \in Range(q) : Rank(l) \in Nat /\ Rank(l) > LastTorrent
    <2>1. \A i \in 1..(n + 1) : i \in 1..n \/ i = n + 1
      OBVIOUS
    <2> QED
      BY <1>7, <1>8, <2>1 DEF Range
  <1>11. \A l \in Lock : holder'[l] = x => Rank(l) \in Nat /\ Rank(l) <= LastUser
    BY <1>1, Ranks DEF Climbs, Early
  <1>12. \A l \in Lock : holder'[l] = x => \A k \in Range(q) : Rank(l) < Rank(k)
    BY <1>8, <1>10, <1>11
  <1>13. Climbs(x)'
    BY <1>3, <1>9, <1>12, <1>a DEF Climbs, Early
  <1> QED
    BY <1>13, <1>c, OthersClimb

LEMMA AcquireClimbs ==
  ASSUME Parameters, LockInv, NEW x \in Tx, Acquire(x)
  PROVE  \A y \in Tx : Climbs(y)'
  <1> DEFINE P == tx[x].plan  h == Head(P)
             s == [tx[x] EXCEPT !.plan = Tail(@)]
  <1>1. /\ tx[x] \in Session /\ P # <<>> /\ P \in Seq(Lock) /\ Climbs(x)
        /\ holder \in [Lock -> Tx \cup {NoTx}] /\ tx \in [Tx -> Session]
    BY DEF LockInv, StorageInv, TypeOK, Session, Acquire
  <1>2. holder' = [holder EXCEPT ![h] = x] /\ tx' = [tx EXCEPT ![x] = s]
    BY DEF Acquire
  <1>3. /\ s.kind = tx[x].kind /\ s.torrents = tx[x].torrents /\ s.pairs = tx[x].pairs
        /\ s.read = tx[x].read /\ s.plan = Tail(P)
    BY <1>1 DEF Session
  <1> HIDE DEF s
  <1>4. h \in Lock /\ h \in Range(P) /\ Range(Tail(P)) \subseteq Range(P)
    BY <1>1, HeadOrTail
  <1>5. /\ Len(P) \in Nat \ {0} /\ DOMAIN P = 1..Len(P) /\ P[1] = h
        /\ DOMAIN Tail(P) = 1..(Len(P) - 1)
        /\ \A i \in 1..(Len(P) - 1) : Tail(P)[i] = P[i + 1]
    BY <1>1, HeadTailProperties, LenProperties, EmptySeq, HeadOrTail
  <1>6. ASSUME Ascending(P) PROVE Ascending(Tail(P))
    <2> SUFFICES ASSUME NEW i \in 1..(Len(P) - 1), NEW j \in 1..(Len(P) - 1), i < j
                 PROVE  Rank(Tail(P)[i]) < Rank(Tail(P)[j])
      BY <1>5 DEF Ascending
    <2>1. i + 1 \in DOMAIN P /\ j + 1 \in DOMAIN P /\ i + 1 < j + 1
      BY <1>5
    <2>2. Rank(P[i + 1]) < Rank(P[j + 1])
      BY <1>6, <2>1 DEF Ascending
    <2> QED
      BY <1>5, <2>2
  <1>8. ASSUME Ascending(P) PROVE \A m \in Range(Tail(P)) : Rank(h) < Rank(m)
    <2> SUFFICES ASSUME NEW i \in 1..(Len(P) - 1) PROVE Rank(h) < Rank(Tail(P)[i])
      BY <1>5 DEF Range
    <2>1. 1 \in DOMAIN P /\ i + 1 \in DOMAIN P /\ 1 < i + 1
      BY <1>5
    <2>2. Rank(P[1]) < Rank(P[i + 1])
      BY <1>8, <2>1 DEF Ascending
    <2> QED
      BY <1>5, <2>2
  <1>9. tx'[x] = s /\ \A l \in Lock : holder'[l] = x => l = h \/ holder[l] = x
    BY <1>1, <1>2, <1>4
  <1> HIDE DEF P, h
  <1>10. /\ tx[x].plan = P
    BY DEF P
  <1>11. Batched(x)' = Batched(x)
    BY <1>3, <1>9 DEF Batched
  <1>12. Climbs(x)'
    <2>1. ASSUME ~Batched(x)
          PROVE  /\ Ascending(Tail(P)) /\ \A m \in Range(Tail(P)) : Rank(h) < Rank(m) /\ Early(x, m)
                 /\ Early(x, h)
                 /\ \A l \in Lock : holder[l] = x =>
                       Early(x, l) /\ \A m \in Range(Tail(P)) : Rank(l) < Rank(m)
      BY <1>1, <1>4, <1>6, <1>8, <1>10, <2>1 DEF Climbs
    <2>2. \A l : Early(x, l)' = Early(x, l)
      BY <1>3, <1>9 DEF Early
    <2>3. ASSUME ~Batched(x)', NEW l \in Lock, holder'[l] = x
          PROVE  Early(x, l)' /\ \A m \in Range(tx'[x].plan) : Rank(l) < Rank(m)
      BY <1>3, <1>9, <1>11, <2>1, <2>2, <2>3
    <2>4. ASSUME ~Batched(x)'
          PROVE  Ascending(tx'[x].plan) /\ \A m \in Range(tx'[x].plan) : Early(x, m)'
      BY <1>3, <1>9, <1>11, <2>1, <2>2, <2>4
    <2>5. tx[x].kind = "purge" => /\ IsInjective(tx[x].torrents)
                                  /\ \A p \in tx[x].pairs : p[2] \notin Range(tx[x].torrents)
      BY <1>1 DEF Climbs
    <2> QED
      BY <1>3, <1>9, <2>3, <2>4, <2>5 DEF Climbs
  <1>13. Alone(x)
    BY <1>1, <1>2, <1>4 DEF Alone
  <1> QED
    BY <1>12, <1>13, OthersClimb

LEMMA EndClimbs ==
  ASSUME Parameters, LockInv, NEW x \in Tx, End(x)
  PROVE  \A y \in Tx : Climbs(y)'
  <1>1. /\ tx' = [tx EXCEPT ![x] = IdleTx] /\ tx \in [Tx -> Session]
        /\ holder' = [l \in Lock |-> IF holder[l] = x THEN NoTx ELSE holder[l]]
        /\ NoTx \notin Tx
    BY Finite DEF End, LockInv, StorageInv, TypeOK
  <1>2. tx'[x].kind = "idle" /\ tx'[x].plan = <<>> /\ \A l \in Lock : holder'[l] # x
    BY <1>1 DEF IdleTx
  <1>3. Ascending(<<>>) /\ Range(<<>>) = {}
    BY DEF Ascending, Range
  <1>4. Climbs(x)'
    BY <1>2, <1>3 DEF Climbs, Early
  <1>5. Alone(x)
    BY <1>1 DEF Alone
  <1> QED
    BY <1>4, <1>5, OthersClimb

LEMMA LockInit ==
  ASSUME Parameters, Init
  PROVE  LockInv
  <1>1. StorageInv
    BY StorageInit
  <1>2. ASSUME NEW x \in Tx PROVE Climbs(x)
    <2>1. tx[x].kind = "idle" /\ tx[x].plan = <<>> /\ \A l \in Lock : holder[l] # x
      BY Finite DEF Init, IdleTx
    <2>2. Ascending(<<>>) /\ Range(<<>>) = {}
      BY DEF Ascending, Range
    <2> QED
      BY <2>1, <2>2 DEF Climbs, Early
  <1> QED
    BY <1>1, <1>2 DEF LockInv

LEMMA LockStep ==
  ASSUME Parameters, LockInv, Next
  PROVE  LockInv'
  <1>1. ASSUME NEW x \in Tx, Begins(x) PROVE \A y \in Tx : Climbs(y)'
    <2>1. CASE \E u \in User, t \in Torrent :
                  BeginAdmit(x, u, t) \/ BeginCancel(x, u, t) \/ BeginRetry(x, u, t)
      BY <2>1, OneTorrentClimbs
    <2>2. CASE \E D \in SUBSET {p \in User \X Torrent : right[p[1]][p[2]] = "due"} : BeginExpire(x, D)
      <3>1. PICK D \in SUBSET {p \in User \X Torrent : right[p[1]][p[2]] = "due"} : BeginExpire(x, D)
        BY <2>2
      <3>2. D \in SUBSET (User \X Torrent)
        OBVIOUS
      <3> QED
        BY <3>1, <3>2, ExpireClimbs
    <2>3. CASE \E n \in 1..AdminBatch : \E s \in [1..n -> Torrent] : IsInjective(s) /\ BeginPurge(x, s)
      <3>1. PICK n \in 1..AdminBatch : \E s \in [1..n -> Torrent] : IsInjective(s) /\ BeginPurge(x, s)
        BY <2>3
      <3>2. n \in Nat
        BY DEF Parameters
      <3> QED
        BY <3>1, <3>2, PurgeClimbs
    <2>4. CASE \E t \in Torrent : BeginDelete(x, t)
      BY <2>4, Finite, OneTorrentClimbs
    <2>5. CASE \E U \in SUBSET User : Cardinality(U) \in 1..ReconcileBatch /\ BeginReconcile(x, U)
      BY <2>5, ReconcileClimbs
    <2> QED
      BY <1>1, <2>1, <2>2, <2>3, <2>4, <2>5 DEF Begins
  <1>2. ASSUME NEW x \in Tx, \E n \in 1..ReconcileBatch : \E order \in [1..n -> User] : ReadSums(x, order)
        PROVE  \A y \in Tx : Climbs(y)'
    <2>1. PICK n \in 1..ReconcileBatch : \E order \in [1..n -> User] : ReadSums(x, order)
      BY <1>2
    <2>2. n \in Nat
      BY DEF Parameters
    <2> QED
      BY <2>1, <2>2, ReadSumsClimbs
  <1>3. ASSUME NEW x \in Tx, Acquire(x) \/ ReadHolders(x) PROVE \A y \in Tx : Climbs(y)'
    BY <1>3, AcquireClimbs, ReadHoldersClimbs
  <1>4. ASSUME NEW x \in Tx, Commits(x) \/ Abort(x) PROVE \A y \in Tx : Climbs(y)'
    <2>1. End(x)
      BY <1>4 DEF Commits, Admit, Cancel, Expire, Purge, Delete, Retry, Reconcile, Ready, Abort
    <2> QED
      BY <2>1, EndClimbs
  <1>5. ASSUME UNCHANGED <<holder, tx>> PROVE \A y \in Tx : Climbs(y)'
    BY <1>5 DEF LockInv, Climbs, Ascending, Batched, Early
  <1>6. \A y \in Tx : Climbs(y)'
    <2>1. CASE \E t \in Torrent : StartPurge(t) \/ Fail(t)
      BY <1>5, <2>1 DEF StartPurge, Fail
    <2>2. CASE \E u \in User, t \in Torrent : FallsDue(u, t)
      BY <1>5, <2>2 DEF FallsDue
    <2> QED
      BY <1>1, <1>2, <1>3, <1>4, <2>1, <2>2 DEF Next
  <1>7. StorageInv'
    BY StorageStep DEF LockInv
  <1> QED
    BY <1>6, <1>7 DEF LockInv

\* However many torrents a purge names, users a reconciliation takes and sessions
\* there are: a circle of sessions that wait for each other contains a batch.
\* All the others, expirations of many users included, never deadlock.
THEOREM NoCircle ==
  ASSUME Parameters
  PROVE  Spec => []CirclesBatched
  <1>1. Init => LockInv
    BY LockInit
  <1>2. LockInv /\ [Next]_vars => LockInv'
    <2>1. CASE Next
      BY <2>1, LockStep
    <2>2. ASSUME LockInv, UNCHANGED vars PROVE LockInv'
      <3>1. UNCHANGED rows /\ UNCHANGED <<holder, tx>> /\ RowsOK'
        BY <2>2 DEF vars, rows, LockInv, StorageInv, TypeOK, RowsOK
      <3>2. StorageInv'
        BY <2>2, <3>1, RowsKept, OutsideStep DEF LockInv
      <3>3. \A y \in Tx : Climbs(y)'
        BY <2>2, <3>1 DEF LockInv, Climbs, Ascending, Batched, Early
      <3> QED
        BY <3>2, <3>3 DEF LockInv
    <2> QED
      BY <2>1, <2>2
  <1>3. LockInv => CirclesBatched
    BY ClimbersPass
  <1> QED
    BY <1>1, <1>2, <1>3, PTL DEF Spec
=============================================================================
