-------------------------- MODULE DownloadsProofs --------------------------
(***************************************************************************)
(* Proofs about Downloads, for any files, archives and users and any       *)
(* limits: DownloadsInv is inductive, so the slots of archives are counted *)
(* exactly, the limits hold for live leases, and nothing is purged under   *)
(* an archive that did not outlast its lease.                              *)
(***************************************************************************)
EXTENDS Downloads, FiniteSetTheorems, SequenceTheorems, TLAPS

\* The largest of the limits is one of them.
LEMMA Largest ==
  ASSUME Parameters
  PROVE  Max(Limits) \in Limits /\ \A l \in Limits : l <= Max(Limits)
  <1>1. PICK most \in Limits : \A l \in Limits : most >= l
    BY DEF Parameters
  <1> QED
    BY <1>1 DEF Max, Parameters

\* Finite sets of requests.
LEMMA Finite ==
  ASSUME Parameters
  PROVE  \A S : S \subseteq Download => IsFiniteSet(S)
  <1>1. IsFiniteSet(Download)
    BY FS_Union DEF Parameters, Download
  <1> QED
    BY <1>1, FS_Subset

\* Owners are users, and what a response stands at is one thing at a time.
LEMMA Kinds ==
  ASSUME Parameters, NEW d \in Download
  PROVE  Owner[d] \in User /\ (d \in Archive <=> d \notin File)
  BY DEF Parameters, Download

-----------------------------------------------------------------------------
(* Sequences of tickets                                                    *)

\* The tickets of a sequence.
Tickets(s) == {s[i] : i \in DOMAIN s}
Once(s) == \A i, j \in DOMAIN s : s[i] = s[j] => i = j

\* A ticket at the end of the queue.
LEMMA AppendTicket ==
  ASSUME NEW S, NEW s \in Seq(S), Once(s), NEW d \in S, d \notin Tickets(s)
  PROVE  /\ Append(s, d) \in Seq(S) /\ Once(Append(s, d))
         /\ Tickets(Append(s, d)) = Tickets(s) \cup {d}
  <1>1. /\ Append(s, d) \in Seq(S) /\ DOMAIN Append(s, d) = 1..(Len(s) + 1) /\ DOMAIN s = 1..Len(s)
        /\ \A i \in 1..Len(s) : Append(s, d)[i] = s[i]
        /\ Append(s, d)[Len(s) + 1] = d /\ Len(s) \in Nat
    OBVIOUS
  <1>2. Once(Append(s, d))
    BY <1>1 DEF Once, Tickets
  <1>3. Tickets(Append(s, d)) = Tickets(s) \cup {d}
    BY <1>1 DEF Tickets
  <1> QED
    BY <1>1, <1>2, <1>3

\* A ticket that leaves the queue, wherever it is.
LEMMA RemoveTicket ==
  ASSUME NEW S, NEW s \in Seq(S), Once(s), NEW k \in DOMAIN s
  PROVE  /\ RemoveAt(s, k) \in Seq(S) /\ Once(RemoveAt(s, k))
         /\ Tickets(RemoveAt(s, k)) = Tickets(s) \ {s[k]}
  <1> DEFINE r == RemoveAt(s, k)
  <1>1. Len(s) \in Nat /\ DOMAIN s = 1..Len(s) /\ k \in 1..Len(s)
    OBVIOUS
  <1>2. /\ r \in Seq(S) /\ Len(r) = Len(s) - 1
        /\ \A i \in 1..(Len(s) - 1) : r[i] = IF i < k THEN s[i] ELSE s[i + 1]
    <2> DEFINE before == SubSeq(s, 1, k - 1)
    <2> DEFINE after == SubSeq(s, k + 1, Len(s))
    <2>1. /\ before \in Seq(S) /\ Len(before) = k - 1
          /\ \A i \in 1..(k - 1) : before[i] = s[i]
      BY <1>1
    <2>2. /\ after \in Seq(S) /\ Len(after) = Len(s) - k
          /\ \A i \in 1..(Len(s) - k) : after[i] = s[k + i]
      BY <1>1
    <2>r. r = before \o after
      BY DEF RemoveAt
    <2> HIDE DEF r, before, after
    <2>c. /\ before \o after \in Seq(S) /\ Len(before \o after) = Len(before) + Len(after)
          /\ \A i \in 1..(Len(before) + Len(after)) :
                (before \o after)[i] = IF i <= Len(before) THEN before[i] ELSE after[i - Len(before)]
      BY <2>1, <2>2, ConcatProperties
    <2>3. Len(before) + Len(after) = Len(s) - 1
      BY <1>1, <2>1, <2>2
    <2>4. ASSUME NEW i \in 1..(Len(s) - 1) PROVE r[i] = IF i < k THEN s[i] ELSE s[i + 1]
      <3>1. r[i] = IF i <= Len(before) THEN before[i] ELSE after[i - Len(before)]
        BY <2>3, <2>r, <2>c
      <3>2. CASE i < k
        BY <1>1, <2>1, <3>1, <3>2
      <3>3. CASE i >= k
        <4>1. i - Len(before) \in 1..(Len(s) - k) /\ k + (i - Len(before)) = i + 1
          BY <1>1, <2>1, <3>3
        <4>2. after[i - Len(before)] = s[i + 1]
          BY <2>2, <4>1
        <4>3. ~(i <= Len(before)) /\ ~(i < k)
          BY <1>1, <2>1, <3>3
        <4> QED
          BY <3>1, <4>2, <4>3
      <3> QED
        BY <1>1, <3>2, <3>3
    <2> QED
      BY <2>3, <2>4, <2>r, <2>c
  <1>3. DOMAIN r = 1..(Len(s) - 1)
    BY <1>2
  <1> HIDE DEF r
  <1>4. Once(r)
    <2> DEFINE at(i) == IF i < k THEN i ELSE i + 1
    <2>1. \A i \in 1..(Len(s) - 1) : at(i) \in 1..Len(s) /\ r[i] = s[at(i)]
      BY <1>1, <1>2
    <2>2. \A i, j \in 1..(Len(s) - 1) : at(i) = at(j) => i = j
      BY <1>1
    <2> QED
      BY <1>1, <1>3, <2>1, <2>2 DEF Once
  <1>5. ASSUME NEW i \in 1..(Len(s) - 1) PROVE r[i] \in Tickets(s) \ {s[k]}
    <2>1. PICK j \in 1..Len(s) : r[i] = s[j] /\ j # k
      BY <1>1, <1>2
    <2> QED
      BY <1>1, <2>1 DEF Once, Tickets
  <1>6. ASSUME NEW i \in 1..Len(s), i # k PROVE s[i] \in Tickets(r)
    <2>1. CASE i < k
      <3>1. i \in 1..(Len(s) - 1) /\ r[i] = s[i]
        BY <1>1, <1>2, <2>1
      <3> QED
        BY <1>3, <3>1 DEF Tickets
    <2>2. CASE i > k
      <3>1. i - 1 \in 1..(Len(s) - 1) /\ r[i - 1] = s[i]
        BY <1>1, <1>2, <2>2
      <3> QED
        BY <1>3, <3>1 DEF Tickets
    <2> QED
      BY <1>1, <1>6, <2>1, <2>2
  <1>8. Tickets(r) \subseteq Tickets(s) \ {s[k]}
    BY <1>3, <1>5 DEF Tickets
  <1>7. Tickets(s) \ {s[k]} \subseteq Tickets(r)
    BY <1>1, <1>6 DEF Tickets
  <1> QED
    BY <1>2, <1>4, <1>7, <1>8 DEF r

\* The ticket at the head of the queue.
LEMMA HeadTicket ==
  ASSUME NEW S, NEW s \in Seq(S), Once(s), s # <<>>
  PROVE  /\ Tail(s) \in Seq(S) /\ Once(Tail(s))
         /\ Tickets(Tail(s)) = Tickets(s) \ {Head(s)}
  <1>1. /\ Len(s) \in Nat \ {0} /\ DOMAIN s = 1..Len(s) /\ Head(s) = s[1]
        /\ Tail(s) \in Seq(S) /\ DOMAIN Tail(s) = 1..(Len(s) - 1)
        /\ \A i \in 1..(Len(s) - 1) : Tail(s)[i] = s[i + 1]
    OBVIOUS
  <1>2. Once(Tail(s))
    BY <1>1 DEF Once
  <1>3. Tickets(Tail(s)) \subseteq Tickets(s) \ {Head(s)}
    BY <1>1 DEF Once, Tickets
  <1>4. ASSUME NEW i \in 1..Len(s), i # 1 PROVE s[i] \in Tickets(Tail(s))
    <2>1. i - 1 \in 1..(Len(s) - 1) /\ Tail(s)[i - 1] = s[i]
      BY <1>1, <1>4
    <2> QED
      BY <1>1, <2>1 DEF Tickets
  <1>5. Tickets(s) \ {Head(s)} \subseteq Tickets(Tail(s))
    BY <1>1, <1>4 DEF Tickets
  <1> QED
    BY <1>1, <1>2, <1>3, <1>5

-----------------------------------------------------------------------------
(* Types and the queue                                                     *)

\* A response that moves on is the only one that does.
LEMMA PhaseMoves ==
  ASSUME Typed, NEW d \in Download, NEW p \in Phases, Goes(d, p)
  PROVE  /\ phase' \in [Download -> Phases] /\ phase'[d] = p
         /\ \A e \in Download \ {d} : phase'[e] = phase[e]
  BY DEF Typed, Goes

\* Both ways to tear a response down do the same.
LEMMA Stops ==
  ASSUME NEW d \in Download, Ends(d) \/ HeartbeatStops(d)
  PROVE  Stop(d) /\ phase[d] \in {"open", "queued", "checking", "stream"}
  BY DEF Ends, HeartbeatStops, Beating

\* Such a move keeps what is known of the phases, if it is not a file's into the
\* queue.
LEMMA PhaseTyped ==
  ASSUME Parameters, Typed, NEW d \in Download, NEW p \in Phases, Goes(d, p),
         d \in File => p \notin {"queued", "checking"}
  PROVE  phase' \in [Download -> Phases] /\ \A e \in File : phase'[e] \notin {"queued", "checking"}
  BY PhaseMoves DEF Typed, Download

\* Leases keep their range.
LEMMA LeaseRange ==
  ASSUME Parameters, Typed
  PROVE  /\ LeaseTime \in NoRow..LeaseTime /\ NoRow \in NoRow..LeaseTime
         /\ Purged \in [Download -> NoRow..LeaseTime]
         /\ \A e \in Download : lease[e] \in Int /\ (Purged[e] > 0 <=> lease[e] > 0)
  BY DEF Parameters, Typed, NoRow, Purged

\* Where a response is, and what its lease and its slot are, keep their ranges.
LEMMA TypedStep ==
  ASSUME Parameters, DownloadsInv, [Next]_vars
  PROVE  Typed'
  <1>0. Typed
    BY DEF DownloadsInv
  <1> USE <1>0
  <1>1. ASSUME NEW d \in Download, Enter(d) PROVE Typed'
    <2>1. Goes(d, "asked") \/ Goes(d, "done")
      BY <1>1 DEF Enter
    <2> QED
      BY <1>1, <2>1, PhaseTyped DEF Enter, Phases, Typed, queue, rows
  <1>2. ASSUME NEW d \in Download, Acquire(d) PROVE Typed'
    <2>1. lease' \in [Download -> NoRow..LeaseTime]
      BY <1>2, LeaseRange DEF Acquire
    <2>2. \/ d \in File /\ Goes(d, "open") /\ acquired' = acquired
          \/ d \in Archive /\ Goes(d, "checking") /\ acquired' = acquired \cup {d}
          \/ d \in Archive /\ Goes(d, "queued") /\ acquired' = acquired
      BY <1>2, Kinds DEF Acquire, queue
    <2> QED
      BY <1>2, <2>1, <2>2, PhaseTyped, Kinds DEF Acquire, Phases, Typed, rows, Download
  <1>3. ASSUME NEW d \in Download, AcquireFails(d) PROVE Typed'
    <2>1. lease' \in [Download -> NoRow..LeaseTime]
      BY <1>3, LeaseRange DEF AcquireFails, Typed
    <2> QED
      BY <1>3, <2>1, PhaseTyped DEF AcquireFails, Phases, Typed, queue, rows
  <1>4. ASSUME NEW d \in Download, Opened(d) PROVE Typed'
    BY <1>4, PhaseTyped DEF Opened, Phases, Typed, queue, rows
  <1>5. ASSUME NEW d \in Download, Ends(d) \/ HeartbeatStops(d) PROVE Typed'
    <2>1. Stop(d)
      BY <1>5, Stops
    <2> QED
      BY <2>1, PhaseTyped DEF Stop, Phases, Typed, rows
  <1>6. ASSUME NEW d \in Download, Heartbeat(d) PROVE Typed'
    BY <1>6, LeaseRange DEF Heartbeat, Typed, queue, rows
  <1>7. ASSUME NEW d \in Download, CleanUp(d) PROVE Typed'
    BY <1>7, LeaseRange DEF CleanUp, Typed, queue, rows
  <1>8. ASSUME NEW d \in Download, Done(d) PROVE Typed'
    BY <1>8, PhaseTyped DEF Done, Phases, Typed, queue, rows
  <1>9. ASSUME NEW d \in Archive, Wake(d) PROVE Typed'
    <2>1. CASE MayEnter(d)
      BY <1>9, <2>1, PhaseTyped, Kinds DEF Wake, Phases, Typed, rows, Download
    <2>2. CASE ~MayEnter(d)
      BY <1>9, <2>2 DEF Wake, Typed, rows
    <2> QED
      BY <2>1, <2>2
  <1>10. ASSUME NEW d \in Archive, Recheck(d) PROVE Typed'
    <2>1. lease' \in [Download -> NoRow..LeaseTime]
      BY <1>10, LeaseRange DEF Recheck, Typed
    <2>2. Goes(d, "stream") \/ Goes(d, "closing")
      BY <1>10 DEF Recheck
    <2> QED
      BY <1>10, <2>1, <2>2, PhaseTyped DEF Recheck, Phases, Typed, queue, rows, Download
  <1>11. CASE Drain
    BY <1>11 DEF Drain, Typed, queue, rows
  <1>12. CASE Restart
    <2>1. phase' \in [Download -> Phases] /\ \A d \in File : phase'[d] \notin {"queued", "checking"}
      BY <1>12 DEF Restart, Typed, Phases, Download
    <2> QED
      BY <1>12, <2>1 DEF Restart, Typed, rows
  <1>13. CASE Tick
    <2>1. lease' \in [Download -> NoRow..LeaseTime]
      BY <1>13, LeaseRange DEF Tick, Typed, Live, NoRow, Parameters
    <2> QED
      BY <1>13, <2>1 DEF Tick, Typed, queue, rows
  <1>14. CASE PurgeStep
    BY <1>14 DEF PurgeStep, Typed, queue
  <1>15. ASSUME NEW u \in User, Unsubscribe(u) \/ Deactivate(u) PROVE Typed'
    BY <1>15 DEF Unsubscribe, Deactivate, Typed, queue
  <1>16. CASE UNCHANGED vars
    BY <1>16 DEF vars, Typed, queue, rows
  <1> QED
    BY <1>1, <1>2, <1>3, <1>4, <1>5, <1>6, <1>7, <1>8, <1>9, <1>10, <1>11, <1>12, <1>13, <1>14, <1>15, <1>16
       DEF Next, Serve

\* Who has a ticket is who waits.
QueueExact == TicketsOnce /\ \A d \in Archive : d \in Waiting <=> phase[d] = "queued"

\* The tickets of the queue, as a sequence without repetitions.
LEMMA QueueTickets == TicketsOnce <=> waiters \in Seq(Archive) /\ Once(waiters)
  BY DEF TicketsOnce, Once

\* A step that leaves the queue alone and moves nobody in or out of it.
LEMMA QueueUntouched ==
  ASSUME QueueExact, waiters' = waiters,
         \A d \in Archive : phase'[d] = "queued" <=> phase[d] = "queued"
  PROVE  QueueExact'
  BY DEF QueueExact, TicketsOnce, Waiting

\* Someone moves on outside the queue.
LEMMA QueuePassed ==
  ASSUME Typed, QueueExact, waiters' = waiters, NEW d \in Download, NEW p \in Phases \ {"queued"},
         Goes(d, p), phase[d] # "queued"
  PROVE  QueueExact'
  BY PhaseMoves, QueueUntouched DEF Download

\* The queue is served in order, and whoever leaves it takes its ticket along.
LEMMA QueueStep ==
  ASSUME Parameters, DownloadsInv, [Next]_vars
  PROVE  QueueExact'
  <1>0. Typed /\ QueueExact
    BY DEF DownloadsInv, TransfersExact, SlotsExact, QueueExact
  <1> USE <1>0
  <1>1. ASSUME NEW d \in Download, Enter(d) PROVE QueueExact'
    BY <1>1, QueuePassed DEF Enter, Phases, queue
  <1>2. ASSUME NEW d \in Download, Acquire(d) PROVE QueueExact'
    <2>1. CASE waiters' = waiters
      <3>1. Goes(d, "open") \/ Goes(d, "checking")
        BY <1>2, <2>1, AppendProperties DEF Acquire, QueueExact, TicketsOnce
      <3> QED
        BY <1>2, <2>1, <3>1, QueuePassed DEF Acquire, Phases
    <2>2. CASE d \in Archive /\ waiters' = Append(waiters, d) /\ Goes(d, "queued")
      <3>1. d \notin Waiting
        BY <1>2, <2>2 DEF Acquire, QueueExact
      <3>2. TicketsOnce' /\ Waiting' = Waiting \cup {d}
        BY <2>2, <3>1, AppendTicket DEF QueueExact, TicketsOnce, Once, Waiting, Tickets
      <3> QED
        BY <2>2, <3>2, PhaseMoves DEF QueueExact, Phases, Download
    <2> QED
      BY <1>2, <2>1, <2>2, Kinds DEF Acquire, queue
  <1>3. ASSUME NEW d \in Download, AcquireFails(d) \/ Opened(d) \/ Done(d) PROVE QueueExact'
    BY <1>3, QueuePassed DEF AcquireFails, Opened, Done, Phases, queue
  <1>4. ASSUME NEW d \in Download, Ends(d) \/ HeartbeatStops(d) PROVE QueueExact'
    <2>1. Stop(d) /\ Goes(d, "closing")
      BY <1>4, Stops DEF Stop
    <2>2. CASE phase[d] = "queued"
      <3>1. d \in Archive
        BY <2>2, Kinds DEF Typed, Download
      <3>2. PICK i \in DOMAIN waiters : waiters[i] = d /\ waiters' = RemoveAt(waiters, i)
        BY <2>1, <2>2 DEF Stop, LeaveQueue, WithoutTicket
      <3>3. TicketsOnce' /\ Waiting' = Waiting \ {d}
        <4>1. waiters \in Seq(Archive) /\ Once(waiters)
          BY DEF QueueExact, TicketsOnce, Once
        <4>2. waiters' \in Seq(Archive) /\ Once(waiters') /\ Tickets(waiters') = Tickets(waiters) \ {d}
          BY <3>2, <4>1, RemoveTicket
        <4> QED
          BY <4>2 DEF TicketsOnce, Once, Waiting, Tickets
      <3> QED
        BY <2>1, <3>1, <3>3, PhaseMoves DEF QueueExact, Phases, Download
    <2>3. CASE phase[d] # "queued"
      BY <2>1, <2>3, QueuePassed DEF Stop, Phases
    <2> QED
      BY <2>2, <2>3
  <1>5. ASSUME NEW d \in Download, Heartbeat(d) \/ CleanUp(d) PROVE QueueExact'
    BY <1>5, QueueUntouched DEF Heartbeat, CleanUp, queue
  <1>6. ASSUME NEW d \in Archive, Wake(d) PROVE QueueExact'
    <2>1. CASE MayEnter(d)
      <3>1. waiters # <<>>
        BY <1>6 DEF Wake, QueueExact, Waiting
      <3>2. TicketsOnce' /\ Waiting' = Waiting \ {d}
        <4>1. waiters \in Seq(Archive) /\ Once(waiters)
          BY DEF QueueExact, TicketsOnce, Once
        <4>2. waiters' = Tail(waiters) /\ Head(waiters) = d
          BY <1>6, <2>1 DEF Wake, MayEnter
        <4>3. waiters' \in Seq(Archive) /\ Once(waiters') /\ Tickets(waiters') = Tickets(waiters) \ {d}
          BY <3>1, <4>1, <4>2, HeadTicket
        <4> QED
          BY <4>3 DEF TicketsOnce, Once, Waiting, Tickets
      <3> QED
        BY <1>6, <2>1, <3>2, PhaseMoves DEF Wake, QueueExact, Phases, Download
    <2>2. CASE ~MayEnter(d)
      BY <1>6, <2>2, QueueUntouched DEF Wake
    <2> QED
      BY <2>1, <2>2
  <1>7. ASSUME NEW d \in Archive, Recheck(d) PROVE QueueExact'
    BY <1>7, QueuePassed DEF Recheck, Phases, queue, Download
  <1>8. CASE Restart
    <2>1. waiters' = <<>> /\ \A d \in Archive : phase'[d] # "queued"
      BY <1>8 DEF Restart, Download
    <2> QED
      BY <2>1 DEF QueueExact, TicketsOnce, Waiting
  <1>9. CASE Drain \/ Tick \/ PurgeStep \/ UNCHANGED vars
    BY <1>9, QueueUntouched DEF Drain, Tick, PurgeStep, vars, queue
  <1>10. ASSUME NEW u \in User, Unsubscribe(u) \/ Deactivate(u) PROVE QueueExact'
    BY <1>10, QueueUntouched DEF Unsubscribe, Deactivate, queue
  <1> QED
    BY <1>1, <1>2, <1>3, <1>4, <1>5, <1>6, <1>7, <1>8, <1>9, <1>10 DEF Next, Serve

-----------------------------------------------------------------------------
(* Slots                                                                   *)

\* Who holds a slot, and how many do.
SlotsCounted ==
    /\ busy = Cardinality(acquired) /\ busy <= Max(Limits)
    /\ \A d \in acquired : phase[d] \in {"checking", "stream", "closing"}

\* A step that leaves slots and clean-ups alone, and moves at most a response
\* that has no slot or stays where slots are held.
LEMMA SlotsUntouched ==
  ASSUME SlotsFirst, SlotsCounted, UNCHANGED <<busy, acquired, todo>>,
         \A d \in acquired : phase'[d] = phase[d]
  PROVE  SlotsFirst' /\ SlotsCounted'
  BY DEF SlotsFirst, SlotsCounted

\* Whoever has no slot may move on without one.
LEMMA SlotsPassed ==
  ASSUME Typed, SlotsFirst, SlotsCounted, NEW d \in Download, NEW p \in Phases, Goes(d, p),
         d \notin acquired, UNCHANGED <<busy, acquired, todo>>
  PROVE  SlotsFirst' /\ SlotsCounted'
  BY PhaseMoves, SlotsUntouched DEF Typed, Download

\* A slot is taken below the limit the request has read.
LEMMA SlotTaken ==
  ASSUME Parameters, Typed, SlotsFirst, SlotsCounted, NEW d \in Archive, d \notin acquired, busy < limit[d],
         busy' = busy + 1, acquired' = acquired \cup {d}, todo' = todo, Goes(d, "checking")
  PROVE  SlotsFirst' /\ SlotsCounted'
  <1>1. IsFiniteSet(acquired) /\ acquired \subseteq Download /\ d \in Download
    BY Finite DEF Typed, Download
  <1>2. Cardinality(acquired') = Cardinality(acquired) + 1
    BY <1>1, FS_AddElement
  <1>3. limit[d] \in Limits /\ limit[d] \in Nat /\ Max(Limits) \in Nat /\ limit[d] <= Max(Limits)
    BY <1>1, Largest DEF Typed, Parameters
  <1>4. Cardinality(acquired) \in Nat
    BY <1>1, FS_CardinalityType
  <1>5. busy' = Cardinality(acquired') /\ busy' <= Max(Limits)
    BY <1>2, <1>3, <1>4 DEF SlotsCounted
  <1>6. phase'[d] = "checking" /\ \A e \in Download \ {d} : phase'[e] = phase[e]
    BY <1>1, PhaseMoves DEF Phases
  <1>7. SlotsCounted'
    BY <1>1, <1>5, <1>6 DEF SlotsCounted
  <1>8. SlotsFirst'
    BY <1>1, <1>6 DEF SlotsFirst
  <1> QED
    BY <1>7, <1>8

\* A response that closes has its whole clean-up in front of it.
LEMMA SlotsClosing ==
  ASSUME Parameters, Typed, SlotsFirst, SlotsCounted, NEW d \in Download, Goes(d, "closing"),
         UNCHANGED <<busy, acquired>>,
         \/ todo' = Cleaning(d)
         \/ todo' = [todo EXCEPT ![d] = <<"lease">>] /\ d \notin acquired
  PROVE  SlotsFirst' /\ SlotsCounted'
  <1>1. phase'[d] = "closing" /\ \A e \in Download \ {d} : phase'[e] = phase[e]
    BY PhaseMoves DEF Phases
  <1>2. acquired \subseteq Download /\ (d \in acquired => d \notin File)
    BY Kinds DEF Typed, Download
  <1>3. SlotsCounted'
    BY <1>1, <1>2 DEF SlotsCounted
  <1>4. CASE todo' = Cleaning(d) /\ d \in File
    <2>1. todo' = [todo EXCEPT ![d] = <<"lease">>]
      BY <1>4 DEF Cleaning
    <2> QED
      BY <1>1, <1>2, <1>3, <1>4, <2>1 DEF SlotsFirst
  <1>5. CASE todo' = Cleaning(d) /\ d \notin File
    <2>1. todo' = [todo EXCEPT ![d] = <<"slot", "lease">>]
      BY <1>5 DEF Cleaning
    <2> QED
      BY <1>1, <1>2, <1>3, <2>1 DEF SlotsFirst
  <1>6. CASE todo' = [todo EXCEPT ![d] = <<"lease">>] /\ d \notin acquired
    BY <1>1, <1>2, <1>3, <1>6 DEF SlotsFirst
  <1> QED
    BY <1>4, <1>5, <1>6

\* A slot is given back once, and only by who holds it.
LEMMA SlotGivenBack ==
  ASSUME Parameters, Typed, SlotsFirst, SlotsCounted, NEW d \in Download, CleanUp(d)
  PROVE  SlotsFirst' /\ SlotsCounted'
  <1>1. /\ todo' = [todo EXCEPT ![d] = Tail(todo[d])] /\ phase' = phase /\ phase[d] = "closing"
        /\ todo[d] # <<>>
    BY DEF CleanUp
  <1>2. CASE todo[d] = <<"slot", "lease">>
    <2>1. Head(todo[d]) = "slot" /\ Tail(todo[d]) = <<"lease">>
      BY <1>2
    <2>2. CASE d \in acquired
      <3>1. busy' = busy - 1 /\ acquired' = acquired \ {d}
        BY <2>1, <2>2 DEF CleanUp
      <3>2. IsFiniteSet(acquired)
        BY Finite DEF Typed, Download
      <3>3. Cardinality(acquired') = Cardinality(acquired) - 1 /\ Cardinality(acquired) \in Nat
        BY <2>2, <3>1, <3>2, FS_RemoveElement, FS_CardinalityType
      <3>4. Max(Limits) \in Nat
        BY Largest DEF Parameters
      <3>5. SlotsCounted'
        BY <1>1, <3>1, <3>3, <3>4 DEF SlotsCounted
      <3>6. SlotsFirst'
        BY <1>1, <2>1, <3>1 DEF SlotsFirst
      <3> QED
        BY <3>5, <3>6
    <2>3. CASE d \notin acquired
      <3>1. UNCHANGED <<busy, acquired>>
        BY <2>1, <2>3 DEF CleanUp, queue
      <3> QED
        BY <1>1, <2>1, <2>3, <3>1 DEF SlotsFirst, SlotsCounted
    <2> QED
      BY <2>2, <2>3
  <1>3. CASE todo[d] = <<"lease">>
    <2>1. Head(todo[d]) = "lease" /\ Tail(todo[d]) = <<>> /\ <<"lease">> # <<"slot", "lease">>
      BY <1>3
    <2>2. UNCHANGED <<busy, acquired>> /\ d \notin acquired
      BY <1>1, <1>3, <2>1 DEF CleanUp, queue, SlotsFirst
    <2> QED
      BY <1>1, <2>1, <2>2 DEF SlotsFirst, SlotsCounted
  <1> QED
    BY <1>1, <1>2, <1>3 DEF SlotsFirst

\* Slots are counted exactly, whoever is cancelled where.
LEMMA SlotsStep ==
  ASSUME Parameters, DownloadsInv, [Next]_vars
  PROVE  SlotsFirst' /\ SlotsCounted'
  <1>0. Typed /\ QueueExact /\ SlotsFirst /\ SlotsCounted
    <2>1. \A d \in acquired : phase[d] \in {"checking", "stream", "closing"}
      BY DEF DownloadsInv, TransfersExact, SlotsExact, Typed
    <2> QED
      BY <2>1 DEF DownloadsInv, TransfersExact, SlotsExact, QueueExact, SlotsCounted
  <1>p. {"new", "asked", "open", "queued", "checking", "stream", "closing", "done"} = Phases
    BY DEF Phases
  <1> USE <1>0
  <1>1. ASSUME NEW d \in Download, Enter(d) PROVE SlotsFirst' /\ SlotsCounted'
    <2>1. d \notin acquired /\ (Goes(d, "asked") \/ Goes(d, "done")) /\ UNCHANGED <<busy, acquired, todo>>
      BY <1>1 DEF Enter, SlotsCounted, queue
    <2> QED
      BY <2>1, <1>p, SlotsPassed
  <1>2. ASSUME NEW d \in Download, Acquire(d) PROVE SlotsFirst' /\ SlotsCounted'
    <2>1. d \notin acquired /\ todo' = todo
      BY <1>2 DEF Acquire, SlotsCounted
    <2>2. \/ (Goes(d, "open") \/ Goes(d, "queued")) /\ UNCHANGED <<busy, acquired>>
          \/ /\ d \in Archive /\ busy < limit[d] /\ Goes(d, "checking")
             /\ busy' = busy + 1 /\ acquired' = acquired \cup {d}
      BY <1>2, Kinds DEF Acquire, queue
    <2> QED
      BY <2>1, <2>2, <1>p, SlotsPassed, SlotTaken
  <1>3. ASSUME NEW d \in Download, AcquireFails(d) PROVE SlotsFirst' /\ SlotsCounted'
    <2>1. d \notin acquired /\ Goes(d, "closing") /\ UNCHANGED <<busy, acquired>>
      BY <1>3 DEF AcquireFails, SlotsCounted, queue
    <2> QED
      BY <1>3, <2>1, SlotsClosing DEF AcquireFails
  <1>4. ASSUME NEW d \in Download, Opened(d) PROVE SlotsFirst' /\ SlotsCounted'
    <2>1. d \notin acquired /\ Goes(d, "stream") /\ UNCHANGED <<busy, acquired, todo>>
      BY <1>4 DEF Opened, SlotsCounted, queue
    <2> QED
      BY <2>1, <1>p, SlotsPassed
  <1>5. ASSUME NEW d \in Download, Ends(d) \/ HeartbeatStops(d) PROVE SlotsFirst' /\ SlotsCounted'
    <2>1. Stop(d)
      BY <1>5, Stops
    <2> QED
      BY <2>1, SlotsClosing DEF Stop
  <1>6. ASSUME NEW d \in Download, Heartbeat(d) PROVE SlotsFirst' /\ SlotsCounted'
    BY <1>6, SlotsUntouched DEF Heartbeat, queue
  <1>7. ASSUME NEW d \in Download, CleanUp(d) PROVE SlotsFirst' /\ SlotsCounted'
    BY <1>7, SlotGivenBack
  <1>8. ASSUME NEW d \in Download, Done(d) PROVE SlotsFirst' /\ SlotsCounted'
    <2>1. d \notin acquired
      BY <1>8 DEF Done, SlotsFirst
    <2> QED
      BY <1>8, <2>1, <1>p, SlotsPassed DEF Done, queue
  <1>9. ASSUME NEW d \in Archive, Wake(d) PROVE SlotsFirst' /\ SlotsCounted'
    <2>1. d \notin acquired /\ todo' = todo
      BY <1>9 DEF Wake, SlotsCounted
    <2>2. CASE MayEnter(d)
      BY <1>9, <2>1, <2>2, SlotTaken DEF Wake, MayEnter
    <2>3. CASE ~MayEnter(d)
      BY <1>9, <2>1, <2>3, SlotsUntouched DEF Wake
    <2> QED
      BY <2>2, <2>3
  <1>10. ASSUME NEW d \in Archive, Recheck(d) PROVE SlotsFirst' /\ SlotsCounted'
    <2>1. d \in Download /\ UNCHANGED <<busy, acquired>>
      BY <1>10 DEF Recheck, queue, Download
    <2>2. CASE Goes(d, "stream") /\ todo' = todo
      <3>1. phase'[d] = "stream" /\ \A e \in Download \ {d} : phase'[e] = phase[e]
        BY <2>1, <2>2, <1>p, PhaseMoves
      <3> QED
        BY <2>1, <2>2, <3>1 DEF SlotsFirst, SlotsCounted, Typed, Download
    <2>3. CASE Goes(d, "closing") /\ todo' = Cleaning(d)
      BY <2>1, <2>3, SlotsClosing
    <2> QED
      BY <1>10, <2>2, <2>3 DEF Recheck
  <1>11. CASE Restart
    <2>1. busy' = 0 /\ acquired' = {} /\ todo' = [d \in Download |-> <<>>]
      BY <1>11 DEF Restart
    <2>2. Cardinality({}) = 0 /\ 0 <= Max(Limits)
      <3>1. Max(Limits) \in Nat
        BY Largest DEF Parameters
      <3> QED
        BY <3>1, FS_EmptySet
    <2>3. SlotsFirst'
      BY <2>1 DEF SlotsFirst
    <2>4. SlotsCounted'
      BY <2>1, <2>2 DEF SlotsCounted
    <2> QED
      BY <2>3, <2>4
  <1>12. CASE Drain \/ Tick \/ PurgeStep \/ UNCHANGED vars
    BY <1>12, SlotsUntouched DEF Drain, Tick, PurgeStep, vars, queue
  <1>13. ASSUME NEW u \in User, Unsubscribe(u) \/ Deactivate(u) PROVE SlotsFirst' /\ SlotsCounted'
    BY <1>13, SlotsUntouched DEF Unsubscribe, Deactivate, queue
  <1> QED
    BY <1>1, <1>2, <1>3, <1>4, <1>5, <1>6, <1>7, <1>8, <1>9, <1>10, <1>11, <1>12, <1>13 DEF Next, Serve

-----------------------------------------------------------------------------
(* Requests under way                                                      *)

\* The requests that a drain waits for.
UnderWay == {d \in Download : phase[d] \notin {"new", "done"}}
DrainExact == inflight = Cardinality(UnderWay)

\* A request that moves on is still under way.
LEMMA UnderWayPassed ==
  ASSUME Typed, DrainExact, NEW d \in Download, NEW p \in Phases \ {"new", "done"}, Goes(d, p),
         phase[d] \notin {"new", "done"}, inflight' = inflight
  PROVE  DrainExact'
  <1>1. UnderWay' = UnderWay
    BY PhaseMoves DEF UnderWay
  <1> QED
    BY <1>1 DEF DrainExact

\* A request that comes in or goes out is counted once.
LEMMA UnderWayStep ==
  ASSUME Parameters, DownloadsInv, [Next]_vars
  PROVE  DrainExact'
  <1>0. Typed /\ DrainExact /\ IsFiniteSet(UnderWay)
    BY Finite DEF DownloadsInv, TransfersExact, SlotsExact, DrainExact, UnderWay
  <1>p. {"new", "asked", "open", "queued", "checking", "stream", "closing", "done"} = Phases
    BY DEF Phases
  <1> USE <1>0
  <1>1. ASSUME NEW d \in Download, Enter(d) PROVE DrainExact'
    <2>1. phase[d] = "new" /\ d \notin UnderWay
      BY <1>1 DEF Enter, UnderWay
    <2>2. CASE Goes(d, "asked") /\ inflight' = inflight + 1
      <3>1. UnderWay' = UnderWay \cup {d}
        BY <2>1, <2>2, <1>p, PhaseMoves DEF UnderWay
      <3> QED
        BY <2>1, <2>2, <3>1, FS_AddElement DEF DrainExact
    <2>3. CASE Goes(d, "done") /\ inflight' = inflight
      <3>1. UnderWay' = UnderWay
        BY <2>1, <2>3, <1>p, PhaseMoves DEF UnderWay
      <3> QED
        BY <2>3, <3>1 DEF DrainExact
    <2> QED
      BY <1>1, <2>2, <2>3 DEF Enter
  <1>2. ASSUME NEW d \in Download, Acquire(d) PROVE DrainExact'
    <2>1. Goes(d, "open") \/ Goes(d, "checking") \/ Goes(d, "queued")
      BY <1>2 DEF Acquire
    <2> QED
      BY <1>2, <2>1, <1>p, UnderWayPassed DEF Acquire
  <1>3. ASSUME NEW d \in Download, AcquireFails(d) \/ Opened(d) PROVE DrainExact'
    BY <1>3, <1>p, UnderWayPassed DEF AcquireFails, Opened
  <1>4. ASSUME NEW d \in Download, Ends(d) \/ HeartbeatStops(d) PROVE DrainExact'
    BY <1>4, <1>p, Stops, UnderWayPassed DEF Stop
  <1>5. ASSUME NEW d \in Download, Heartbeat(d) \/ CleanUp(d) PROVE DrainExact'
    BY <1>5 DEF Heartbeat, CleanUp, DrainExact, UnderWay
  <1>6. ASSUME NEW d \in Download, Done(d) PROVE DrainExact'
    <2>1. phase[d] = "closing" /\ d \in UnderWay /\ Goes(d, "done") /\ inflight' = inflight - 1
      BY <1>6 DEF Done, UnderWay
    <2>2. UnderWay' = UnderWay \ {d}
      BY <2>1, <1>p, PhaseMoves DEF UnderWay
    <2> QED
      BY <2>1, <2>2, FS_RemoveElement DEF DrainExact
  <1>7. ASSUME NEW d \in Archive, Wake(d) \/ Recheck(d) PROVE DrainExact'
    <2>1. CASE phase' = phase
      BY <1>7, <2>1 DEF Wake, Recheck, DrainExact, UnderWay
    <2>2. CASE Goes(d, "checking") \/ Goes(d, "stream") \/ Goes(d, "closing")
      BY <1>7, <2>2, <1>p, UnderWayPassed DEF Wake, Recheck, Download
    <2> QED
      BY <1>7, <2>1, <2>2 DEF Wake, Recheck
  <1>8. CASE Restart
    <2>1. UnderWay' = {} /\ inflight' = 0
      BY <1>8 DEF Restart, UnderWay
    <2> QED
      BY <2>1, FS_EmptySet DEF DrainExact
  <1>9. CASE Drain \/ Tick \/ PurgeStep \/ UNCHANGED vars
    BY <1>9 DEF Drain, Tick, PurgeStep, vars, DrainExact, UnderWay
  <1>10. ASSUME NEW u \in User, Unsubscribe(u) \/ Deactivate(u) PROVE DrainExact'
    BY <1>10 DEF Unsubscribe, Deactivate, DrainExact, UnderWay
  <1> QED
    BY <1>1, <1>2, <1>3, <1>4, <1>5, <1>6, <1>7, <1>8, <1>9, <1>10 DEF Next, Serve

-----------------------------------------------------------------------------
(* Limits and leases                                                       *)

\* No step but an acquisition brings a lease to life.
LEMMA LimitsUntouched ==
  ASSUME Parameters, LimitsHold, \A e \in Archive : lease'[e] > 0 => lease[e] > 0
  PROVE  LimitsHold'
  <1>1. ASSUME NEW U PROVE Cardinality(Archives(U)') <= Cardinality(Archives(U))
    <2>1. Archives(U)' \subseteq Archives(U) /\ Archives(U) \subseteq Download
      BY DEF Archives, Live, Download
    <2> QED
      BY <2>1, Finite, FS_Subset
  <1>2. \A U : Cardinality(Archives(U)) \in Nat /\ Cardinality(Archives(U)') \in Nat
    <2>1. \A U : Archives(U) \subseteq Download /\ Archives(U)' \subseteq Download
      BY DEF Archives, Download
    <2> QED
      BY <2>1, Finite, FS_CardinalityType
  <1>3. Cardinality(Archives(User)') <= Global
    BY <1>1, <1>2 DEF LimitsHold, Parameters
  <1>4. ASSUME NEW u \in User \ Admin PROVE Cardinality(Archives({u})') <= PerUser
    BY <1>1, <1>2 DEF LimitsHold, Parameters
  <1> QED
    BY <1>3, <1>4 DEF LimitsHold

\* An acquisition stays within the limits it has counted.
LEMMA LimitsCounted ==
  ASSUME Parameters, LimitsHold, NEW d \in Archive, WithinLimits(d),
         \A e \in Archive \ {d} : lease'[e] > 0 => lease[e] > 0
  PROVE  LimitsHold'
  <1>1. ASSUME NEW U
        PROVE  /\ IsFiniteSet(Archives(U)) /\ IsFiniteSet(Archives(U)')
               /\ Cardinality(Archives(U)) \in Nat /\ Cardinality(Archives(U)') \in Nat
               /\ Cardinality(Archives(U)') <= Cardinality(Archives(U)) + 1
               /\ Owner[d] \notin U => Cardinality(Archives(U)') <= Cardinality(Archives(U))
    <2>1. /\ Archives(U) \subseteq Download /\ Archives(U)' \subseteq Archives(U) \cup {d}
          /\ Owner[d] \notin U => Archives(U)' \subseteq Archives(U)
      BY DEF Archives, Live, Download
    <2>2. IsFiniteSet(Archives(U)) /\ Cardinality(Archives(U)) \in Nat
      BY <2>1, Finite, FS_CardinalityType
    <2>3. /\ IsFiniteSet(Archives(U) \cup {d})
          /\ Cardinality(Archives(U) \cup {d}) \in Nat
          /\ Cardinality(Archives(U) \cup {d}) <= Cardinality(Archives(U)) + 1
      <3>1. /\ IsFiniteSet(Archives(U) \cup {d})
            /\ \/ Cardinality(Archives(U) \cup {d}) = Cardinality(Archives(U))
               \/ Cardinality(Archives(U) \cup {d}) = Cardinality(Archives(U)) + 1
        BY <2>2, FS_AddElement
      <3> QED
        BY <2>2, <3>1
    <2>4. /\ IsFiniteSet(Archives(U)') /\ Cardinality(Archives(U)') \in Nat
          /\ Cardinality(Archives(U)') <= Cardinality(Archives(U) \cup {d})
      BY <2>1, <2>3, FS_Subset, FS_CardinalityType
    <2>5. Owner[d] \notin U => Cardinality(Archives(U)') <= Cardinality(Archives(U))
      BY <2>1, <2>2, FS_Subset
    <2> QED
      BY <2>2, <2>3, <2>4, <2>5
  <1>2. /\ Cardinality(Archives(User)) < Global
        /\ Owner[d] \notin Admin => Cardinality(Archives({Owner[d]})) < PerUser
    BY DEF WithinLimits
  <1>3. Cardinality(Archives(User)') <= Global
    BY <1>1, <1>2 DEF Parameters
  <1>4. ASSUME NEW u \in User \ Admin PROVE Cardinality(Archives({u})') <= PerUser
    <2>1. CASE u = Owner[d]
      BY <1>1, <1>2, <2>1 DEF Parameters
    <2>2. CASE u # Owner[d]
      <3>1. Owner[d] \notin {u}
        BY <2>2
      <3> QED
        BY <1>1, <3>1 DEF LimitsHold, Parameters
    <2> QED
      BY <2>1, <2>2
  <1> QED
    BY <1>3, <1>4 DEF LimitsHold

\* The limits hold for live leases at any time, files left aside.
LEMMA LimitsStep ==
  ASSUME Parameters, DownloadsInv, [Next]_vars
  PROVE  LimitsHold'
  <1>0. Typed /\ LimitsHold
    BY DEF DownloadsInv, TransfersExact
  <1>u. ASSUME lease' = lease PROVE LimitsHold'
    BY <1>0, <1>u, LimitsUntouched
  <1> USE <1>0
  <1>1. ASSUME NEW d \in Download, Acquire(d) \/ AcquireFails(d) PROVE LimitsHold'
    <2>1. CASE lease' = lease
      BY <2>1, <1>u
    <2>2. CASE lease' = [Purged EXCEPT ![d] = LeaseTime] /\ WithinLimits(d)
      <3>1. \A e \in Download \ {d} : lease'[e] > 0 => lease[e] > 0
        BY <2>2, LeaseRange
      <3>2. CASE d \in Archive
        BY <2>2, <3>1, <3>2, LimitsCounted DEF Download
      <3>3. CASE d \in File
        BY <3>1, <3>3, Kinds, LimitsUntouched DEF Download
      <3> QED
        BY <3>2, <3>3 DEF Download
    <2> QED
      BY <1>1, <2>1, <2>2 DEF Acquire, AcquireFails
  <1>2. ASSUME NEW d \in Download, Heartbeat(d) PROVE LimitsHold'
    <2>1. lease[d] > 0 /\ \A e \in Download \ {d} : lease'[e] = lease[e]
      BY <1>2 DEF Heartbeat, Renewable, Live, Typed
    <2> QED
      BY <2>1, LimitsUntouched DEF Download
  <1>3. ASSUME NEW d \in Download, CleanUp(d) PROVE LimitsHold'
    <2>1. \A e \in Download : lease'[e] = lease[e] \/ lease'[e] = NoRow
      BY <1>3 DEF CleanUp, Typed
    <2> QED
      BY <2>1, LimitsUntouched DEF Download, NoRow
  <1>4. ASSUME NEW d \in Archive, Recheck(d) PROVE LimitsHold'
    <2>1. CASE lease' = lease
      BY <2>1, <1>u
    <2>2. CASE lease[d] > 0 /\ lease' = [lease EXCEPT ![d] = LeaseTime]
      <3>1. \A e \in Archive \ {d} : lease'[e] = lease[e]
        BY <2>2 DEF Typed, Download
      <3> QED
        BY <2>2, <3>1, LimitsUntouched
    <2> QED
      BY <1>4, <2>1, <2>2 DEF Recheck, Renewable, Live
  <1>5. CASE Tick
    <2>1. \A e \in Download : lease'[e] > 0 => lease[e] > 0
      BY <1>5, LeaseRange DEF Tick, Live
    <2> QED
      BY <2>1, LimitsUntouched DEF Download
  <1>6. ASSUME NEW d \in Download,
               Enter(d) \/ Opened(d) \/ Ends(d) \/ HeartbeatStops(d) \/ Done(d)
        PROVE  LimitsHold'
    BY <1>6, <1>u, Stops DEF Enter, Opened, Stop, Done
  <1>7. ASSUME NEW d \in Archive, Wake(d) PROVE LimitsHold'
    BY <1>7, <1>u DEF Wake
  <1>8. CASE Drain \/ Restart \/ PurgeStep \/ UNCHANGED vars
    BY <1>8, <1>u DEF Drain, Restart, PurgeStep, vars
  <1>9. ASSUME NEW u \in User, Unsubscribe(u) \/ Deactivate(u) PROVE LimitsHold'
    BY <1>9, <1>u DEF Unsubscribe, Deactivate
  <1> QED
    BY <1>1, <1>2, <1>3, <1>4, <1>5, <1>6, <1>7, <1>8, <1>9 DEF Next, Serve

\* A step that leaves leases, slots and the torrent alone.
LEMMA LeasesUntouched ==
  ASSUME LeasesKnown, UNCHANGED <<lease, acquired, late, torrent>>
  PROVE  LeasesKnown'
  BY DEF LeasesKnown, Live

\* A renewal: it finds the lease live and the content not being purged.
LEMMA LeasesRenewed ==
  ASSUME Parameters, Typed, LeasesKnown, NEW d \in Download, Renewable(d),
         lease' = [lease EXCEPT ![d] = LeaseTime], UNCHANGED <<acquired, late, torrent>>
  PROVE  LeasesKnown'
  BY DEF Parameters, Typed, LeasesKnown, Renewable, CanFinish, Live, Download

\* An acquisition: the content is ready.
LEMMA LeasesAcquired ==
  ASSUME Parameters, Typed, LeasesKnown, NEW d \in Download, MayDownload(d),
         lease' = [Purged EXCEPT ![d] = LeaseTime], late' = late, torrent' = torrent,
         acquired' = acquired \/ acquired' = acquired \cup {d}
  PROVE  LeasesKnown'
  <1>1. \A e \in Download \ {d} : lease'[e] > 0 <=> lease[e] > 0
    BY LeaseRange
  <1>2. lease'[d] > 0
    BY LeaseRange DEF Parameters
  <1> QED
    BY <1>1, <1>2 DEF LeasesKnown, MayDownload, Live, Typed, Download

\* A slot is held under a live lease or is known to be late: no lease is deleted
\* under a slot, and none is renewed once the content is being purged.
LEMMA LeasesStep ==
  ASSUME Parameters, DownloadsInv, [Next]_vars
  PROVE  LeasesKnown'
  <1>0. Typed /\ SlotsFirst /\ LeasesKnown
    BY DEF DownloadsInv
  <1> USE <1>0
  <1>1. ASSUME NEW d \in Download, Acquire(d) PROVE LeasesKnown'
    BY <1>1, LeasesAcquired DEF Acquire, queue, rows
  <1>2. ASSUME NEW d \in Download, AcquireFails(d) PROVE LeasesKnown'
    BY <1>2, LeasesAcquired, LeasesUntouched DEF AcquireFails, queue, rows
  <1>3. ASSUME NEW d \in Download, Heartbeat(d) PROVE LeasesKnown'
    BY <1>3, LeasesRenewed DEF Heartbeat, queue, rows
  <1>4. ASSUME NEW d \in Download, CleanUp(d) PROVE LeasesKnown'
    <2>1. CASE acquired' = acquired \ {d} /\ late' = late \ {d} /\ lease' = lease
      BY <1>4, <2>1 DEF CleanUp, rows, LeasesKnown, Live
    <2>2. CASE UNCHANGED <<lease, acquired, late>>
      BY <1>4, <2>2, LeasesUntouched DEF CleanUp, rows
    <2>3. CASE Head(todo[d]) = "lease" /\ lease' = [lease EXCEPT ![d] = NoRow] /\ UNCHANGED <<acquired, late>>
      <3>1. d \notin acquired
        BY <1>4, <2>3 DEF CleanUp, SlotsFirst
      <3> QED
        BY <1>4, <2>3, <3>1 DEF CleanUp, rows, LeasesKnown, Live, NoRow, Typed, Download
    <2> QED
      BY <1>4, <2>1, <2>2, <2>3 DEF CleanUp, queue
  <1>5. ASSUME NEW d \in Archive, Wake(d) PROVE LeasesKnown'
    <2>1. CASE MayEnter(d)
      BY <1>5, <2>1 DEF Wake, rows, LeasesKnown, Live
    <2>2. CASE ~MayEnter(d)
      BY <1>5, <2>2, LeasesUntouched DEF Wake, rows
    <2> QED
      BY <2>1, <2>2
  <1>6. ASSUME NEW d \in Archive, Recheck(d) PROVE LeasesKnown'
    BY <1>6, LeasesRenewed, LeasesUntouched DEF Recheck, queue, rows, Download
  <1>7. CASE Restart
    BY <1>7 DEF Restart, rows, LeasesKnown, Live
  <1>8. CASE Tick
    <2>1. \A e \in Download : /\ lease'[e] > 0 => lease[e] > 0
                             /\ lease[e] > 0 => lease'[e] > 0 \/ lease[e] = 1
      BY <1>8, LeaseRange DEF Tick, Live
    <2> QED
      BY <1>8, <2>1 DEF Tick, queue, rows, LeasesKnown, Live, Typed, Download
  <1>9. CASE PurgeStep
    BY <1>9 DEF PurgeStep, queue, LeasesKnown, Live
  <1>10. ASSUME NEW d \in Download,
                Enter(d) \/ Opened(d) \/ Ends(d) \/ HeartbeatStops(d) \/ Done(d)
         PROVE  LeasesKnown'
    BY <1>10, LeasesUntouched, Stops DEF Enter, Opened, Stop, Done, queue, rows
  <1>11. CASE Drain \/ UNCHANGED vars
    BY <1>11, LeasesUntouched DEF Drain, vars, queue, rows
  <1>12. ASSUME NEW u \in User, Unsubscribe(u) \/ Deactivate(u) PROVE LeasesKnown'
    BY <1>12, LeasesUntouched DEF Unsubscribe, Deactivate, queue
  <1> QED
    BY <1>1, <1>2, <1>3, <1>4, <1>5, <1>6, <1>7, <1>8, <1>9, <1>10, <1>11, <1>12 DEF Next, Serve

-----------------------------------------------------------------------------
(* Theorems                                                                *)

\* The parts make up the invariant.
LEMMA Parts ==
  ASSUME Parameters
  PROVE  DownloadsInv <=> Typed /\ QueueExact /\ SlotsFirst /\ SlotsCounted /\ DrainExact /\ LimitsHold /\ LeasesKnown
  <1>1. Typed => (\A d \in acquired : d \in Archive)
    BY DEF Typed
  <1>2. LeasesKnown => ContentHeld \/ ~Typed
    BY DEF LeasesKnown, ContentHeld, Typed, Download
  <1> QED
    BY <1>1, <1>2 DEF DownloadsInv, TransfersExact, SlotsExact, QueueExact, SlotsCounted, DrainExact, UnderWay

\* The initial state satisfies the invariant.
LEMMA InitInv ==
  ASSUME Parameters, Init
  PROVE  DownloadsInv
  <1>1. Typed
    BY DEF Init, Typed, Phases, NoRow, Parameters, Download
  <1>2. QueueExact
    BY DEF Init, QueueExact, TicketsOnce, Waiting, Download
  <1>3. SlotsFirst
    BY DEF Init, SlotsFirst
  <1>4. SlotsCounted
    <2>1. Max(Limits) \in Nat
      BY Largest DEF Parameters
    <2> QED
      BY <2>1, FS_EmptySet DEF Init, SlotsCounted
  <1>5. DrainExact
    <2>1. UnderWay = {}
      BY DEF Init, UnderWay
    <2> QED
      BY <2>1, FS_EmptySet DEF Init, DrainExact
  <1>6. LimitsHold
    <2>1. \A U : Archives(U) = {}
      BY DEF Init, Archives, Live, NoRow, Download
    <2> QED
      BY <2>1, FS_EmptySet DEF LimitsHold, Parameters
  <1>7. LeasesKnown
    BY DEF Init, LeasesKnown
  <1> QED
    BY <1>1, <1>2, <1>3, <1>4, <1>5, <1>6, <1>7, Parts

\* Queue, slots, leases and clean-ups fit together in every reachable state.
THEOREM DownloadsInvariant ==
  ASSUME Parameters
  PROVE  Spec => []DownloadsInv
  <1>1. Init => DownloadsInv
    BY InitInv
  <1>2. DownloadsInv /\ [Next]_vars => DownloadsInv'
    <2> SUFFICES ASSUME DownloadsInv, [Next]_vars PROVE DownloadsInv'
      OBVIOUS
    <2>1. Typed' /\ QueueExact' /\ SlotsFirst' /\ SlotsCounted' /\ DrainExact' /\ LimitsHold' /\ LeasesKnown'
      BY TypedStep, QueueStep, SlotsStep, UnderWayStep, LimitsStep, LeasesStep
    <2>2. LeasesKnown' /\ Typed' => ContentHeld'
      BY DEF LeasesKnown, ContentHeld, Typed, Download
    <2> QED
      BY <2>1, <2>2
         DEF DownloadsInv, TransfersExact, SlotsExact, QueueExact, SlotsCounted, DrainExact, UnderWay
  <1> QED
    BY <1>1, <1>2, PTL DEF Spec

\* The slots of ManagedFolderArchiver, the limits of DownloadLeaseManager.acquire
\* and the requests of RequestDrainMiddleware are counted exactly through
\* cancellations, failed clean-ups, expired leases and restarts, and a torrent is
\* not purged under an archive that kept its lease.
THEOREM DownloadsExact ==
  ASSUME Parameters
  PROVE  Spec => []TransfersExact
  <1>1. DownloadsInv => TransfersExact
    BY DEF DownloadsInv
  <1> QED
    BY <1>1, DownloadsInvariant, PTL
=============================================================================
