---------------------------- MODULE ServiceProofs ----------------------------
(***************************************************************************)
(* Proofs about five components that share no state and live beside the    *)
(* database: RestartChannel, which is extended, and DynamicLimit,          *)
(* OptionFiles, HostBackup and Realtime, which are instances.  The file of *)
(* OptionFiles and that of HostBackup, and the bound of the changes of     *)
(* DynamicLimit and Realtime, are each component's own, although they are  *)
(* named alike.                                                            *)
(*                                                                         *)
(* Each has an inductive invariant, stated at the end of its module, and   *)
(* its theorems hold for any number of requests, torrents, threads, runs,  *)
(* pages and sockets and any bounds.                                       *)
(***************************************************************************)
EXTENDS RestartChannel, FiniteSets, FiniteSetTheorems, TLAPS

CONSTANTS
  Torrent, InitialActive, MaxActive, Step, Evaluation, StaticActive, MaxChanges,  \* of DynamicLimit
  Kind, Thread, Field, MaxWrites, MaxEdits, MaxCrashes,    \* of OptionFiles
  Snapshot, Runner, MaxVersion, MaxFaults,                 \* of HostBackup
  Page, Listener, Sock, PerUser, MaxOthers, Busy           \* of Realtime, and MaxChanges

VARIABLES
  want, down, chosen, forced, enabled, current, sample, sampled, freeze, changes, steady, seen,
  refill,                                                           \* of DynamicLimit
  file, backup, call, holder, editing, writes, edits, crashes,      \* of OptionFiles
  up, version, taken, run, sidecar, restore, staged, faults,        \* of HostBackup, and file
  session, redis, db, sock, others, slots, page                     \* of Realtime

DL == INSTANCE DynamicLimit
OF == INSTANCE OptionFiles
HB == INSTANCE HostBackup
RT == INSTANCE Realtime

-----------------------------------------------------------------------------
(* The restart channel                                                     *)

\* The request file is gone before Docker is called, and a number is never written twice: for
\* any number of requests, crashes and any ages, a request recreates the container at most once.
THEOREM NeverRestartedTwice ==
  ASSUME Requests \in Nat
  PROVE  Spec => []RestartedOnce
  <1>1. Init => OnceInv
    BY DEF Init, OnceInv, Shapes, Numbered, RestartedOnce, NoRequest, Off, HelperAt
  <1>2. OnceInv /\ [Next]_vars => OnceInv'
    <2> SUFFICES ASSUME OnceInv, [Next]_vars PROVE OnceInv'
      OBVIOUS
    <2> USE DEF OnceInv, Shapes, HelperAt
    <2>1. CASE Tick
      <3> DEFINE r == [request EXCEPT !.age = Older(@, MaxAge)]
                 h == [helper EXCEPT !.age = Older(@, MaxAge)]
      <3>1. r \in [id : Nat, age : Nat] /\ r.id = request.id
        BY DEF Older
      <3>2. h \in [at : HelperAt, id : Nat, age : Nat] /\ h.id = helper.id /\ h.at = helper.at
        BY DEF Older
      <3>3. /\ request' = IF request.id = 0 THEN request ELSE r
            /\ helper' = IF helper.at = "read" THEN h ELSE helper
            /\ store' = store /\ made' = made /\ ups' = ups
        BY <2>1 DEF Tick
      <3> HIDE DEF r, h
      <3> QED
        BY <3>1, <3>2, <3>3 DEF Numbered, RestartedOnce
    <2>2. CASE CheckRequest
      BY <2>2 DEF CheckRequest, Numbered, RestartedOnce
    <2>3. CASE CheckStatus
      BY <2>3 DEF CheckStatus, Numbered, RestartedOnce
    <2>4. CASE Link
      BY <2>4 DEF Link, Numbered, RestartedOnce, NoRequest
    <2>5. CASE Wake
      BY <2>5 DEF Wake, Off, Numbered, RestartedOnce, NoRequest
    <2>6. CASE Consume \/ ConsumeFails \/ Discard \/ Reject \/ Begin \/ Report
      <3>1. /\ helper' \in [at : HelperAt, id : Nat, age : Nat]
            /\ store' = store /\ made' = made /\ ups' = ups
            /\ request' \in {request, NoRequest}
            /\ helper'.id \in {0, helper.id}
        BY <2>6 DEF Consume, ConsumeFails, Discard, Reject, Begin, Report, Off
      <3>2. helper'.at # "read"
        BY <2>6 DEF Consume, ConsumeFails, Discard, Reject, Begin, Report, Off
      <3>3. helper'.at \in {"accepted", "restarting"} =>
              helper'.id # 0 /\ ups'[helper'.id] = 0 /\ helper'.id # request'.id
        <4>1. CASE Consume
          BY <4>1 DEF Consume, Numbered, NoRequest
        <4>2. CASE Begin
          BY <4>2 DEF Begin, Numbered
        <4> QED
          BY <2>6, <4>1, <4>2 DEF ConsumeFails, Discard, Reject, Report, Off
      <3>4. Numbered'
        BY <3>1, <3>2, <3>3 DEF Numbered, NoRequest
      <3> QED
        BY <3>1, <3>4 DEF RestartedOnce, NoRequest
    <2>7. CASE Up
      <3>1. /\ helper' \in [at : HelperAt, id : Nat, age : Nat] /\ helper'.id = helper.id
            /\ helper'.at \in {"healthy", "failed"}
            /\ request' = request /\ store' = store /\ made' = made
        BY <2>7 DEF Up
      <3>2. helper.id \in 1..Requests /\ ups[helper.id] = 0
        BY <2>7 DEF Up, Numbered
      <3>3. /\ ups' \in [1..Requests -> Nat] /\ ups'[helper.id] <= 1
            /\ \A i \in 1..Requests : i # helper.id => ups'[i] = ups[i]
        BY <2>7, <3>2 DEF Up
      <3>4. RestartedOnce'
        BY <3>3 DEF RestartedOnce
      <3>5. request.id # helper.id /\ (store.at = "writing" => made # helper.id)
        BY <2>7 DEF Up, Numbered
      <3>6. Numbered'
        BY <3>1, <3>2, <3>3, <3>5 DEF Numbered
      <3> QED
        BY <3>1, <3>3, <3>4, <3>6
    <2>8. CASE Crash
      BY <2>8 DEF Crash, Off, Numbered, RestartedOnce
    <2>9. CASE UNCHANGED vars
      BY <2>9 DEF vars, Numbered, RestartedOnce
    <2> QED
      BY <2>1, <2>2, <2>3, <2>4, <2>5, <2>6, <2>7, <2>8, <2>9 DEF Next, Store, Helper
  <1>3. OnceInv => RestartedOnce
    BY DEF OnceInv
  <1> QED
    BY <1>1, <1>2, <1>3, PTL DEF Spec

-----------------------------------------------------------------------------
(* The dynamic limit                                                       *)

\* The options are numbers, and so is the size of a set of torrents.
LEMMA LimitNumbers ==
  ASSUME DL!Parameters
  PROVE  /\ InitialActive \in Nat /\ MaxActive \in Nat /\ Step \in Nat /\ Evaluation \in Nat
         /\ StaticActive \in Nat /\ \A s : s \subseteq Torrent => DL!Cardinality(s) \in Nat
  <1>1. IsFiniteSet(Torrent)
    BY DEF DL!Parameters, DL!IsFiniteSet, IsFiniteSet
  <1>2. ASSUME NEW s, s \subseteq Torrent PROVE DL!Cardinality(s) \in Nat
    <2>1. DL!Cardinality(s) = Cardinality(s)
      BY DEF DL!Cardinality, Cardinality
    <2> QED
      BY <1>1, <1>2, <2>1, FS_Subset, FS_CardinalityType
  <1> QED
    BY <1>2 DEF DL!Parameters

\* What a cycle measures, before it has chosen.
LEMMA LimitMeasured ==
  ASSUME DL!Parameters, DL!LimitInv, NEW slow \in BOOLEAN, NEW m, m = DL!Measured(slow)
  PROVE  /\ m.limit \in Nat /\ m.sample \subseteq Torrent /\ m.sampled \in 0 .. DL!NotSampled
         /\ m.freeze \in freeze .. Evaluation \/ (m.freeze = 0 /\ (freeze = 0 \/ (enabled /\ DL!Active = {})))
         /\ m.frozen => enabled /\ m.freeze # 0
         /\ enabled /\ ~m.frozen => m.freeze = 0
         /\ m.frozen => m.sample = DL!Active
         /\ enabled /\ DL!Active # {} /\ freeze > 0 => m.frozen
         /\ ~enabled \/ DL!Active = {} => m.sampled = DL!NotSampled /\ m.sample = {}
         /\ enabled /\ DL!Active # {} =>
              m.sample = DL!Active /\ (m.sampled = 0 \/ (m.sampled = sampled /\ DL!SameSet))
  <1>1. /\ DL!Active \subseteq Torrent /\ current \in Nat /\ DL!Busy \in Nat /\ freeze \in Nat
        /\ sampled \in 0 .. Evaluation + 1 /\ freeze <= Evaluation /\ sample \subseteq Torrent
    BY LimitNumbers DEF DL!LimitInv, DL!TypeOK, DL!Active, DL!Busy, DL!Most, DL!NotSampled
  <1>2. CASE ~enabled
    BY <1>1, <1>2, LimitNumbers DEF DL!Measured, DL!Outcome, DL!NotSampled
  <1>3. CASE enabled /\ DL!Active = {}
    BY <1>1, <1>3, LimitNumbers DEF DL!Measured, DL!Outcome, DL!NotSampled
  <1>4. CASE enabled /\ DL!Active # {} /\ freeze > 0
    <2>1. m = DL!Frozen
      BY <1>4 DEF DL!Measured
    <2>2. CASE DL!SameSet
      <3>1. /\ m.limit = DL!Busy /\ m.frozen = TRUE /\ m.sample = sample /\ m.sampled = sampled
            /\ m.freeze = freeze /\ sample = DL!Active
        BY <2>1, <2>2 DEF DL!Frozen, DL!Outcome, DL!SameSet
      <3> QED
        BY <1>1, <1>4, <2>2, <3>1, LimitNumbers DEF DL!NotSampled
    <2>3. CASE ~DL!SameSet
      <3>1. /\ m.limit = DL!Busy /\ m.frozen = TRUE /\ m.sample = DL!Active /\ m.sampled = 0
            /\ m.freeze = Evaluation
        BY <2>1, <2>3 DEF DL!Frozen, DL!Outcome
      <3> QED
        BY <1>1, <1>4, <3>1, LimitNumbers DEF DL!NotSampled
    <2> QED
      BY <2>2, <2>3
  <1>5. CASE enabled /\ DL!Active # {} /\ freeze = 0
    <2>1. PICK limit \in Nat, age \in {0, sampled} :
            m = DL!Outcome(limit, FALSE, DL!Active, age, 0) /\ (age # 0 => DL!SameSet)
      <3>1. CASE ~DL!SameSet
        <4>1. m = DL!Outcome(DL!Busy, FALSE, DL!Active, 0, 0)
          BY <1>1, <1>5, <3>1 DEF DL!Measured, DL!Outcome
        <4> QED
          BY <1>1, <4>1
      <3>2. CASE DL!SameSet /\ sampled < Evaluation
        <4>1. m = DL!Outcome(DL!Busy, FALSE, DL!Active, sampled, 0)
          BY <1>1, <1>5, <3>2 DEF DL!Measured, DL!SameSet, DL!Outcome
        <4> QED
          BY <1>1, <3>2, <4>1
      <3>3. CASE DL!SameSet /\ ~(sampled < Evaluation)
        <4> DEFINE limit == IF DL!Scales(slow) THEN DL!Least(MaxActive, DL!Busy + Step) ELSE DL!Busy
        <4>1. m = DL!Outcome(limit, FALSE, DL!Active, 0, 0)
          BY <1>1, <1>5, <3>3 DEF DL!Measured, DL!Outcome
        <4>2. limit \in Nat
          BY <1>1, LimitNumbers DEF DL!Least
        <4> HIDE DEF limit
        <4> QED
          BY <4>1, <4>2
      <3> QED
        BY <3>1, <3>2, <3>3
    <2>2. /\ m.limit = limit /\ m.frozen = FALSE /\ m.sample = DL!Active /\ m.sampled = age
          /\ m.freeze = 0
      BY <2>1 DEF DL!Outcome
    <2>3. age \in 0 .. Evaluation + 1 /\ (age = 0 \/ (age = sampled /\ DL!SameSet))
      BY <1>1, <2>1, LimitNumbers DEF DL!SameSet
    <2> QED
      BY <1>1, <1>5, <2>2, <2>3, LimitNumbers DEF DL!NotSampled
  <1> QED
    BY <1>1, <1>2, <1>3, <1>4, <1>5

\* A cycle: the window it leaves open measures the set that it saw or chose.
LEMMA LimitCycles ==
  ASSUME DL!Parameters, DL!LimitInv, DL!Cycle
  PROVE  DL!LimitInv' /\ DL!FullWindowStep /\ DL!RefillWaitsStep
  <1> USE LimitNumbers
  <1>1. PICK slow \in BOOLEAN : 
          LET m    == DL!Measured(slow)
              pool == IF m.frozen THEN DL!Candidates \cap DL!Active ELSE DL!Candidates
          IN \E pick \in SUBSET pool :
               /\ chosen' = pick
               /\ current' = m.limit /\ freeze' = m.freeze
               /\ DL!Aligned(m, pick \cup forced)
               /\ seen' = IF m.frozen THEN DL!Active ELSE pick \cup forced
               /\ steady' = IF seen = DL!Active /\ seen' = DL!Active THEN steady ELSE 0
               /\ refill' = IF DL!Active = {} \/ ~enabled THEN 0 ELSE refill
               /\ UNCHANGED <<want, down, forced, enabled, changes>>
    BY DEF DL!Cycle
  <1> DEFINE m == DL!Measured(slow)
             pool == IF m.frozen THEN DL!Candidates \cap DL!Active ELSE DL!Candidates
  <1>2. PICK pick \in SUBSET pool :
          /\ chosen' = pick
          /\ current' = m.limit /\ freeze' = m.freeze
          /\ DL!Aligned(m, pick \cup forced)
          /\ seen' = IF m.frozen THEN DL!Active ELSE pick \cup forced
          /\ steady' = IF seen = DL!Active /\ seen' = DL!Active THEN steady ELSE 0
          /\ refill' = IF DL!Active = {} \/ ~enabled THEN 0 ELSE refill
          /\ UNCHANGED <<want, down, forced, enabled, changes>>
    BY <1>1
  <1>3. /\ m.limit \in Nat /\ m.sample \subseteq Torrent /\ m.sampled \in 0 .. DL!NotSampled
        /\ m.freeze \in freeze .. Evaluation \/ (m.freeze = 0 /\ (freeze = 0 \/ (enabled /\ DL!Active = {})))
        /\ m.frozen => enabled /\ m.freeze # 0
        /\ enabled /\ ~m.frozen => m.freeze = 0
        /\ m.frozen => m.sample = DL!Active
        /\ enabled /\ DL!Active # {} /\ freeze > 0 => m.frozen
        /\ ~enabled \/ DL!Active = {} => m.sampled = DL!NotSampled /\ m.sample = {}
        /\ enabled /\ DL!Active # {} =>
             m.sample = DL!Active /\ (m.sampled = 0 \/ (m.sampled = sampled /\ DL!SameSet))
    BY LimitMeasured
  <1>4. pick \subseteq DL!Candidates /\ (m.frozen => pick \subseteq DL!Active)
    BY <1>2
  <1> HIDE DEF m, pool
  <1>5. /\ freeze \in 0 .. Evaluation /\ steady \in 0 .. Evaluation /\ refill \in 0 .. freeze
        /\ sampled \in 0 .. Evaluation + 1 /\ enabled \in BOOLEAN
        /\ (sampled # DL!NotSampled => sample = seen /\ sampled <= steady)
        /\ DL!NotSampled = Evaluation + 1 /\ Evaluation \in Nat
    BY DEF DL!LimitInv, DL!TypeOK, DL!NotSampled
  <1>6. DL!TypeOK'
    <2>1. sample' \subseteq Torrent /\ sampled' \in 0 .. Evaluation + 1
      BY <1>2, <1>3, <1>4, <1>5 DEF DL!Aligned, DL!Candidates, DL!LimitInv, DL!TypeOK
    <2> QED
      BY <1>2, <1>3, <1>4, <1>5, <2>1 DEF DL!LimitInv, DL!TypeOK, DL!Candidates, DL!NotSampled
  <1>7. steady' \in 0 .. Evaluation /\ refill' \in 0 .. freeze'
    BY <1>2, <1>3, <1>5
  <1>8. sampled' # DL!NotSampled => sample' = seen' /\ sampled' <= steady'
    <2>1. CASE enabled /\ m.freeze = 0 /\ pick \cup forced # m.sample
      BY <1>2, <1>3, <1>5, <1>7, <2>1 DEF DL!Aligned
    <2>2. CASE ~(enabled /\ m.freeze = 0 /\ pick \cup forced # m.sample)
      BY <1>2, <1>3, <1>5, <1>7, <2>2 DEF DL!Aligned, DL!SameSet
    <2> QED
      BY <2>1, <2>2
  <1>9. DL!FullWindowStep
    BY <1>5 DEF DL!FullWindowStep, DL!Scales, DL!SameSet
  <1>10. DL!RefillWaitsStep
    BY <1>2, <1>3, <1>4, <1>5 DEF DL!RefillWaitsStep, DL!Active, DL!Candidates
  <1> QED
    BY <1>6, <1>7, <1>8, <1>9, <1>10 DEF DL!LimitInv, DL!NotSampled

\* What happens between two cycles.
LEMMA LimitWaits ==
  ASSUME DL!Parameters, DL!LimitInv,
         \/ UNCHANGED DL!vars \/ DL!Toggle \/ DL!Tick
         \/ \E t \in Torrent : \/ DL!Request(t) \/ DL!Pause(t) \/ DL!Resume(t) \/ DL!Cancel(t)
                               \/ DL!Force(t) \/ DL!Complete(t)
  PROVE  DL!LimitInv' /\ DL!FullWindowStep /\ DL!RefillWaitsStep
  <1> USE LimitNumbers
  <1>1. /\ freeze \in 0 .. Evaluation /\ steady \in 0 .. Evaluation /\ refill \in 0 .. freeze
        /\ sampled \in 0 .. Evaluation + 1 /\ enabled \in BOOLEAN
        /\ (sampled # DL!NotSampled => sample = seen /\ sampled <= steady)
        /\ DL!NotSampled = Evaluation + 1 /\ Evaluation \in Nat
    BY DEF DL!LimitInv, DL!TypeOK, DL!NotSampled
  <1>2. DL!FullWindowStep
    BY <1>1 DEF DL!FullWindowStep, DL!Scales, DL!SameSet
  <1>3. chosen' \subseteq chosen
    BY DEF DL!vars, DL!Toggle, DL!Tick, DL!Request, DL!Pause, DL!Resume, DL!Cancel, DL!Force,
           DL!Complete
  <1> SUFFICES DL!LimitInv'
    BY <1>2, <1>3 DEF DL!RefillWaitsStep
  <1>4. CASE DL!Tick
    <2>1. /\ sampled' = (IF sampled < Evaluation THEN sampled + 1 ELSE sampled)
          /\ freeze' = DL!Min0(freeze) /\ refill' = DL!Min0(refill)
          /\ steady' = DL!Least(steady + 1, Evaluation)
          /\ UNCHANGED <<want, down, chosen, forced, enabled, current, sample, changes, seen>>
      BY <1>4 DEF DL!Tick
    <2>2. freeze' \in 0 .. Evaluation /\ refill' \in 0 .. freeze'
      BY <1>1, <2>1 DEF DL!Min0
    <2>3. steady' \in 0 .. Evaluation /\ sampled' \in 0 .. Evaluation + 1
      BY <1>1, <2>1, LimitNumbers DEF DL!Least, DL!NotSampled
    <2>4. sampled' # Evaluation + 1 => sample' = seen' /\ sampled' <= steady'
      BY <1>1, <2>1 DEF DL!Least
    <2> QED
      BY <2>1, <2>2, <2>3, <2>4 DEF DL!LimitInv, DL!TypeOK, DL!NotSampled
  <1>5. ASSUME NEW t \in Torrent, DL!Complete(t) PROVE DL!LimitInv'
    <2> DEFINE left == DL!Active \ {t}
    <2>1. left \subseteq Torrent /\ DL!Cardinality(left) \in Nat
      BY DEF DL!Active, DL!LimitInv, DL!TypeOK
    <2>2. /\ IF enabled THEN DL!Recorded(left) /\ steady' = 0 /\ seen' = left
                        ELSE UNCHANGED <<current, sample, sampled, freeze, steady, seen>>
          /\ refill' = IF enabled /\ left # {} THEN Evaluation ELSE 0
      BY <1>5 DEF DL!Complete, DL!durable
    <2>3. want' \subseteq Torrent /\ down' \subseteq want' /\ chosen' \subseteq want' /\ forced' \subseteq down'
      BY <1>5 DEF DL!Complete, DL!LimitInv, DL!TypeOK
    <2>4. enabled' = enabled
      BY <1>5 DEF DL!Complete
    <2> HIDE DEF left
    <2> QED
      BY <1>1, <2>1, <2>2, <2>3, <2>4 DEF DL!Recorded, DL!LimitInv, DL!TypeOK, DL!NotSampled
  <1>6. CASE \/ UNCHANGED DL!vars \/ DL!Toggle
             \/ \E t \in Torrent : \/ DL!Request(t) \/ DL!Pause(t) \/ DL!Resume(t) \/ DL!Cancel(t)
                                   \/ DL!Force(t)
    <2>1. UNCHANGED <<current, sample, sampled, freeze, steady, seen, refill>>
      BY <1>6 DEF DL!vars, DL!Toggle, DL!Request, DL!Pause, DL!Resume, DL!Cancel, DL!Force,
                  DL!durable, DL!watched
    <2>2. /\ want' \subseteq Torrent /\ down' \subseteq want' /\ chosen' \subseteq want'
          /\ forced' \subseteq down' /\ enabled' \in BOOLEAN
      BY <1>6 DEF DL!vars, DL!Toggle, DL!Request, DL!Pause, DL!Resume, DL!Cancel, DL!Force,
                  DL!LimitInv, DL!TypeOK
    <2> QED
      BY <2>1, <2>2 DEF DL!LimitInv, DL!TypeOK, DL!NotSampled
  <1> QED
    BY <1>4, <1>5, <1>6

\* Every step keeps the invariant, and what the limit promises.
LEMMA LimitKept ==
  ASSUME DL!Parameters, DL!LimitInv, [DL!Next]_DL!vars
  PROVE  DL!LimitInv' /\ DL!FullWindowStep /\ DL!RefillWaitsStep
  BY LimitCycles, LimitWaits DEF DL!Next

\* At first nothing runs and no window is open.
LEMMA LimitInit == ASSUME DL!Parameters, DL!Init PROVE DL!LimitInv
  BY LimitNumbers DEF DL!Init, DL!LimitInv, DL!TypeOK, DL!NotSampled

\* The limit keeps its types, and its window measures what the cycles saw, for any options, torrents
\* and administrators (apply_dynamic_concurrency, record_dynamic_completion).
THEOREM LimitStands == ASSUME DL!Parameters PROVE DL!Spec => []DL!LimitInv
  <1>1. DL!Init => DL!LimitInv
    BY LimitInit
  <1>2. DL!LimitInv /\ [DL!Next]_DL!vars => DL!LimitInv'
    BY LimitKept
  <1> QED
    BY <1>1, <1>2, PTL DEF DL!Spec

\* The limit is raised only after a full window in which one and the same set ran, and no slot of a
\* completed torrent is given away before a full window has passed.
THEOREM LimitMovesOnEvidence == ASSUME DL!Parameters PROVE DL!Spec => DL!FullWindow /\ DL!RefillWaits
  <1>1. DL!Init => DL!LimitInv
    BY LimitInit
  <1>2. DL!LimitInv /\ [DL!Next]_DL!vars =>
          DL!LimitInv' /\ [DL!FullWindowStep]_DL!vars /\ [DL!RefillWaitsStep]_DL!vars
    BY LimitKept
  <1> QED
    BY <1>1, <1>2, PTL DEF DL!Spec, DL!FullWindow, DL!RefillWaits

-----------------------------------------------------------------------------
(* The settings files                                                      *)

\* A thread that is at work has the lock, so no other one is.
LEMMA FilesAlone ==
  ASSUME OF!Parameters, OF!FilesInv, NEW t \in Thread, call[t].at # "idle"
  PROVE  /\ holder = t /\ OF!Known(call[t]) /\ call[t] \in OF!Call
         /\ \A u \in Thread \ {t} : call[u] = OF!Idle
  BY DEF OF!FilesInv

\* The constant states of a thread.
LEMMA FilesIdle == OF!Idle \in OF!Call /\ OF!Idle.at = "idle" /\ ~OF!Idle.early
  BY DEF OF!Idle, OF!Call, OF!None

\* A thread that leaves takes nothing of the others with it.
LEMMA FilesLeave ==
  ASSUME OF!Parameters, OF!FilesInv, NEW t \in Thread, call[t].at # "idle", OF!Leave(t)
  PROVE  /\ call' \in [Thread -> OF!Call] /\ holder' \in Thread \cup {OF!None}
         /\ \A u \in Thread : call'[u] = OF!Idle /\ call'[u].at = "idle"
  BY FilesAlone, FilesIdle DEF OF!Leave, OF!FilesInv


\* One thread has the lock and knows what it must; nobody else is at work.
LEMMA FilesHeld ==
  ASSUME OF!FilesInv, NEW t \in Thread, NEW c \in OF!Call, c.at # "idle", OF!Known(c)',
         call' = [call EXCEPT ![t] = c], holder' = t,
         \A u \in Thread \ {t} : call[u] = OF!Idle,
         UNCHANGED <<file, editing, writes, edits, crashes>>
  PROVE  OF!FilesInv'
  <1>1. call' \in [Thread -> OF!Call] /\ call'[t] = c /\ \A u \in Thread \ {t} : call'[u] = OF!Idle
    BY DEF OF!FilesInv
  <1>2. OF!TypeOK'
    BY <1>1 DEF OF!FilesInv, OF!TypeOK, OF!Call
  <1>3. \A u \in Thread :
          IF call'[u].at = "idle" THEN call'[u] = OF!Idle ELSE holder' = u /\ OF!Known(call[u])'
    BY <1>1, FilesIdle
  <1> QED
    BY <1>1, <1>2, <1>3 DEF OF!FilesInv, OF!Whole

\* Nobody is at work.
LEMMA FilesFree ==
  ASSUME OF!FilesInv, call' \in [Thread -> OF!Call], \A u \in Thread : call'[u] = OF!Idle,
         holder' \in Thread \cup {OF!None}, file' \in OF!File, OF!Whole', editing' \in BOOLEAN,
         writes' \in 0 .. MaxWrites, edits' \in 0 .. MaxEdits, crashes' \in 0 .. MaxCrashes,
         file'.stamp <= writes' + edits', editing' => edits' \in 1 .. MaxEdits - 1
  PROVE  OF!FilesInv'
  BY FilesIdle DEF OF!FilesInv, OF!TypeOK, OF!Call

\* The thread reads the file and keeps what identifies it.
LEMMA FilesRead ==
  ASSUME OF!Parameters, OF!FilesInv, NEW t \in Thread, OF!Read(t)
  PROVE  OF!FilesInv' /\ OF!ThreadsSerialStep /\ OF!EditKeptStep /\ OF!BackupPreviousStep
  <1>1. PICK f \in Field, text \in (IF Kind = "options" THEN OF!OptionsTexts ELSE OF!ConfigTexts) :
          /\ call[t].at = "idle" /\ ~OF!Locked /\ writes < MaxWrites
          /\ holder' = t
          /\ call' = [call EXCEPT ![t] = [at |-> "read", base |-> text, ino |-> file.ino,
                                          stamp |-> file.stamp, field |-> f, early |-> FALSE]]
          /\ UNCHANGED <<file, backup, editing, writes, edits, crashes>>
    BY DEF OF!Read
  <1>2. /\ file.ino \in Nat /\ file.stamp \in Nat /\ file.text \in [Field -> Nat] /\ holder = OF!None
        /\ writes \in Nat /\ edits \in Nat
    BY <1>1 DEF OF!FilesInv, OF!TypeOK, OF!File, OF!Locked
  <1>3. text \in [Field -> Nat]
    BY <1>2 DEF OF!OptionsTexts, OF!ConfigTexts, OF!Defaults
  <1>4. edits = 0 => text = file.text
    BY <1>1, <1>2 DEF OF!OptionsTexts, OF!ConfigTexts, OF!FilesInv, OF!Whole
  <1> PICK c : c = [at |-> "read", base |-> text, ino |-> file.ino,
                    stamp |-> file.stamp, field |-> f, early |-> FALSE]
    OBVIOUS
  <1>5. c \in OF!Call /\ c.at = "read" /\ OF!Known(c)'
    BY <1>1, <1>2, <1>3, <1>4 DEF OF!Call, OF!Known
  <1>6. call' = [call EXCEPT ![t] = c]
    BY <1>1
  <1>7. \A u \in Thread \ {t} : call[u] = OF!Idle /\ call'[u] = OF!Idle
    BY <1>2, <1>6 DEF OF!FilesInv, OF!Parameters
  <1>9. OF!FilesInv'
    BY <1>1, <1>5, <1>6, <1>7, FilesHeld
  <1> QED
    BY <1>1, <1>2, <1>9 DEF OF!ThreadsSerialStep, OF!EditKeptStep, OF!BackupPreviousStep

\* The thread goes on, or gives up.
LEMMA FilesGoOn ==
  ASSUME OF!Parameters, OF!FilesInv, NEW t \in Thread,
         OF!Stat(t) \/ OF!Compare(t) \/ OF!Save(t) \/ OF!Fail(t)
  PROVE  OF!FilesInv' /\ OF!ThreadsSerialStep /\ OF!EditKeptStep /\ OF!BackupPreviousStep
  <1>1. UNCHANGED <<file, editing, writes, edits, crashes>> /\ call[t].at # "idle"
    BY DEF OF!Stat, OF!Compare, OF!Save, OF!Fail
  <1>2. file \in OF!File /\ writes \in Nat
    BY DEF OF!FilesInv, OF!TypeOK
  <1>3. ASSUME OF!Leave(t) PROVE OF!FilesInv'
    <2>1. /\ call' \in [Thread -> OF!Call] /\ holder' \in Thread \cup {OF!None}
          /\ \A u \in Thread : call'[u] = OF!Idle
      BY <1>1, <1>3, FilesLeave
    <2>2. /\ file' \in OF!File /\ OF!Whole' /\ editing' \in BOOLEAN
          /\ writes' \in 0 .. MaxWrites /\ edits' \in 0 .. MaxEdits /\ crashes' \in 0 .. MaxCrashes
          /\ file'.stamp <= writes' + edits' /\ (editing' => edits' \in 1 .. MaxEdits - 1)
      BY <1>1 DEF OF!FilesInv, OF!TypeOK, OF!Whole
    <2> QED
      BY <2>1, <2>2, FilesFree
  <1>4. ASSUME NEW c, call' = [call EXCEPT ![t] = c], holder' = holder,
               \/ /\ Kind = "config" /\ call[t].at = "read" /\ backup' = backup
                  /\ c = [call[t] EXCEPT !.at = "stated", !.ino = file.ino]
               \/ /\ call[t].at = (IF Kind = "options" THEN "read" ELSE "stated")
                  /\ OF!Same(call[t]) /\ backup' = backup
                  /\ c = [call[t] EXCEPT !.at = "checked"]
               \/ /\ Kind = "options" /\ call[t].at = "checked" /\ backup' = call[t].base
                  /\ c = [call[t] EXCEPT !.at = "saved"]
        PROVE  OF!FilesInv'
    <2>1. /\ call[t] \in OF!Call /\ OF!Known(call[t]) /\ holder = t
          /\ \A u \in Thread \ {t} : call[u] = OF!Idle
      BY <1>1, FilesAlone
    <2>2. /\ c.at \in {"stated", "checked", "saved"} /\ c.ino \in Nat /\ c \in OF!Call
          /\ c.base = call[t].base /\ c.stamp = call[t].stamp /\ c.field = call[t].field
          /\ c.early = call[t].early
          /\ Kind = "options" => c.at # "stated" /\ (c.early => call[t].at = "read" /\ OF!Same(call[t]))
          /\ c.at = "saved" => backup' = c.base
      BY <1>2, <1>4, <2>1 DEF OF!Call, OF!File, OF!Known
    <2>3. Kind = "options" => ~c.early
      BY <1>2, <2>1, <2>2 DEF OF!Known, OF!Same, OF!Call, OF!File
    <2>4. OF!Known(c)'
      BY <1>1, <2>1, <2>2, <2>3 DEF OF!Known
    <2> QED
      BY <1>1, <1>4, <2>1, <2>2, <2>4, FilesHeld
  <1>5. OF!FilesInv'
    <2>1. CASE OF!Stat(t)
      <3> PICK c : c = [call[t] EXCEPT !.at = "stated", !.ino = file.ino]
        OBVIOUS
      <3>1. call' = [call EXCEPT ![t] = c]
        BY <2>1 DEF OF!Stat
      <3> QED
        BY <2>1, <3>1, <1>4 DEF OF!Stat
    <2>2. CASE OF!Compare(t) /\ OF!Same(call[t])
      <3> PICK c : c = [call[t] EXCEPT !.at = "checked"]
        OBVIOUS
      <3>1. call' = [call EXCEPT ![t] = c]
        BY <2>2 DEF OF!Compare
      <3> QED
        BY <2>2, <3>1, <1>4 DEF OF!Compare
    <2>3. CASE OF!Save(t)
      <3> PICK c : c = [call[t] EXCEPT !.at = "saved"]
        OBVIOUS
      <3>1. call' = [call EXCEPT ![t] = c]
        BY <2>3 DEF OF!Save
      <3> QED
        BY <2>3, <3>1, <1>4 DEF OF!Save
    <2> QED
      BY <1>3, <2>1, <2>2, <2>3 DEF OF!Compare, OF!Fail
  <1> QED
    BY <1>1, <1>2, <1>5 DEF OF!ThreadsSerialStep, OF!EditKeptStep, OF!BackupPreviousStep

\* The thread replaces the file with what it made of the text it had read.
LEMMA FilesReplace ==
  ASSUME OF!Parameters, OF!FilesInv, NEW t \in Thread, OF!Replace(t)
  PROVE  OF!FilesInv' /\ OF!ThreadsSerialStep /\ OF!EditKeptStep /\ OF!BackupPreviousStep
  <1>1. /\ call[t].at = (IF Kind = "options" THEN "saved" ELSE "checked")
        /\ file' = OF!Renamed(OF!Changed(call[t].base, call[t].field))
        /\ editing' = FALSE /\ writes' = writes + 1 /\ OF!Leave(t)
        /\ UNCHANGED <<backup, edits, crashes>>
    BY DEF OF!Replace
  <1>2. /\ call[t] \in OF!Call /\ OF!Known(call[t]) /\ call[t].at # "idle"
        /\ \A u \in Thread \ {t} : call[u] = OF!Idle
    BY <1>1, FilesAlone
  <1>3. /\ call' \in [Thread -> OF!Call] /\ holder' \in Thread \cup {OF!None}
        /\ \A u \in Thread : call'[u] = OF!Idle
    BY <1>1, <1>2, FilesLeave
  <1>4. /\ writes \in Nat /\ edits \in 0 .. MaxEdits /\ crashes \in 0 .. MaxCrashes
        /\ writes < MaxWrites /\ MaxWrites \in Nat /\ MaxEdits \in Nat
    BY <1>2 DEF OF!FilesInv, OF!TypeOK, OF!Known, OF!Parameters
  <1>5. file' \in OF!File /\ file'.stamp = writes + edits + 1 /\ file'.whole
    <2>1. OF!Changed(call[t].base, call[t].field) \in [Field -> Nat]
      BY <1>2, <1>4 DEF OF!Changed, OF!Known, OF!Fresh
    <2> QED
      BY <1>1, <1>4, <2>1 DEF OF!Renamed, OF!File, OF!Fresh
  <1>6. OF!FilesInv'
    <2>1. OF!Whole' /\ editing' \in BOOLEAN /\ ~editing'
      BY <1>1, <1>5 DEF OF!Whole
    <2>2. /\ writes' \in 0 .. MaxWrites /\ edits' \in 0 .. MaxEdits /\ crashes' \in 0 .. MaxCrashes
          /\ file'.stamp <= writes' + edits'
      BY <1>1, <1>4, <1>5
    <2> QED
      BY <1>3, <1>5, <2>1, <2>2, FilesFree
  <1>7. \A u \in Thread : call[u] # OF!Idle => u = t
    BY <1>2
  <1>8. OF!ThreadsSerialStep
    BY <1>2, <1>7 DEF OF!ThreadsSerialStep, OF!Known
  <1>9. OF!EditKeptStep
    BY <1>1, <1>2, <1>3, <1>7 DEF OF!EditKeptStep, OF!Known
  <1>10. OF!BackupPreviousStep
    BY <1>1, <1>2 DEF OF!BackupPreviousStep, OF!Known
  <1> QED
    BY <1>6, <1>8, <1>9, <1>10

\* An edit by hand: who has not compared the file yet will find it changed.
LEMMA FilesEdited ==
  ASSUME OF!Parameters, OF!FilesInv, OF!EditByRename \/ OF!EditInPlace \/ OF!EditEnds
  PROVE  OF!FilesInv' /\ OF!ThreadsSerialStep /\ OF!EditKeptStep /\ OF!BackupPreviousStep
  <1>1. /\ edits' = edits + 1 /\ call' = OF!Warned
        /\ UNCHANGED <<backup, holder, writes, crashes>>
    BY DEF OF!EditByRename, OF!EditInPlace, OF!EditEnds
  <1>2. /\ writes \in Nat /\ edits \in 0 .. MaxEdits /\ MaxEdits \in Nat /\ file \in OF!File
        /\ file.stamp <= writes + edits /\ (editing => edits \in 1 .. MaxEdits - 1)
        /\ editing \in BOOLEAN /\ OF!Whole
    BY DEF OF!FilesInv, OF!TypeOK, OF!Parameters
  <1>3. /\ file' \in OF!File /\ file'.stamp = writes + edits + 1
        /\ edits' \in 1 .. MaxEdits /\ editing' \in BOOLEAN /\ OF!Whole'
        /\ editing' => edits' \in 1 .. MaxEdits - 1
    <2>1. OF!Fresh \in Nat /\ OF!Fresh = writes + edits + 1
      BY <1>2 DEF OF!Fresh
    <2>2. CASE OF!EditByRename
      <3>1. PICK f \in Field : file' = [ino |-> OF!Fresh, stamp |-> OF!Fresh,
                                         text |-> [file.text EXCEPT ![f] = OF!Fresh], whole |-> TRUE]
        BY <2>2 DEF OF!EditByRename
      <3>2. file' \in OF!File /\ file'.stamp = OF!Fresh /\ file'.whole
        BY <1>2, <2>1, <3>1 DEF OF!File
      <3>3. edits < MaxEdits /\ ~editing /\ editing' = editing
        BY <2>2 DEF OF!EditByRename
      <3> QED
        BY <1>1, <1>2, <2>1, <3>2, <3>3 DEF OF!Whole
    <2>3. CASE OF!EditInPlace
      <3>1. file' = [file EXCEPT !.whole = FALSE, !.stamp = OF!Fresh]
        BY <2>3 DEF OF!EditInPlace
      <3>2. file' \in OF!File /\ file'.stamp = OF!Fresh
        BY <1>2, <2>1, <3>1 DEF OF!File
      <3>3. edits + 1 < MaxEdits /\ editing' = TRUE
        BY <2>3 DEF OF!EditInPlace
      <3> QED
        BY <1>1, <1>2, <2>1, <3>2, <3>3 DEF OF!Whole
    <2>4. CASE OF!EditEnds
      <3>1. PICK f \in Field : file' = [file EXCEPT !.whole = TRUE, !.text[f] = OF!Fresh, !.stamp = OF!Fresh]
        BY <2>4 DEF OF!EditEnds
      <3>2. /\ file.ino \in Nat /\ file.text \in [Field -> Nat]
            /\ file' = [ino |-> file.ino, stamp |-> OF!Fresh,
                         text |-> [file.text EXCEPT ![f] = OF!Fresh], whole |-> TRUE]
        BY <1>2, <3>1 DEF OF!File
      <3>4. file' \in OF!File /\ file'.stamp = OF!Fresh /\ file'.whole
        BY <2>1, <3>2 DEF OF!File
      <3>3. editing /\ editing' = FALSE
        BY <2>4 DEF OF!EditEnds
      <3>5. OF!Whole'
        BY <3>4 DEF OF!Whole
      <3>6. edits' \in 1 .. MaxEdits
        BY <1>1, <1>2, <3>3
      <3> QED
        BY <2>1, <3>3, <3>4, <3>5, <3>6
    <2> QED
      BY <2>2, <2>3, <2>4
  <1>5. ASSUME NEW t \in Thread
        PROVE  /\ call'[t] \in OF!Call /\ call'[t].at = call[t].at
               /\ call[t].at = "idle" => call[t] = OF!Idle /\ call'[t] = OF!Idle
               /\ call[t].at # "idle" => holder = t /\ OF!Known(call[t])'
    <2>1. call[t] \in OF!Call
      BY DEF OF!FilesInv
    <2>2. call'[t] = [call[t] EXCEPT !.early = @ \/ call[t].at \in {"read", "stated"}]
      BY <1>1 DEF OF!Warned
    <2>3. /\ call'[t] \in OF!Call /\ call'[t].at = call[t].at /\ call'[t].base = call[t].base
          /\ call'[t].field = call[t].field /\ call'[t].ino = call[t].ino /\ call'[t].stamp = call[t].stamp
          /\ call'[t].early <=> call[t].early \/ call[t].at \in {"read", "stated"}
      BY <2>1, <2>2 DEF OF!Call
    <2>4. ASSUME call[t].at = "idle" PROVE call[t] = OF!Idle /\ call'[t] = OF!Idle
      <3>1. call[t] = OF!Idle
        BY <2>4 DEF OF!FilesInv
      <3>2. ~call'[t].early /\ call'[t].early \in BOOLEAN
        BY <2>3, <2>4, <3>1, FilesIdle DEF OF!Call
      <3>3. call'[t].early = FALSE
        BY <3>2
      <3> QED
        <4> PICK c : c = call'[t]
          OBVIOUS
        <4>1. /\ c \in OF!Call /\ c.at = "idle" /\ c.base = <<>> /\ c.ino = 0 /\ c.stamp = 0
              /\ c.field = OF!None /\ c.early = FALSE
          BY <2>3, <2>4, <3>1, <3>3 DEF OF!Idle
        <4>2. c = [at |-> c.at, base |-> c.base, ino |-> c.ino, stamp |-> c.stamp,
                   field |-> c.field, early |-> c.early]
          BY <4>1 DEF OF!Call
        <4> QED
          BY <3>1, <4>1, <4>2 DEF OF!Idle
    <2>5. ASSUME call[t].at # "idle" PROVE holder = t /\ OF!Known(call[t])'
      <3> PICK c : c = call'[t]
        OBVIOUS
      <3>1. holder = t /\ OF!Known(call[t])
        BY <2>5, FilesAlone
      <3>2. c.stamp \in Nat /\ c.stamp <= file.stamp /\ c.stamp < file'.stamp
        BY <1>2, <1>3, <2>1, <2>3, <3>1 DEF OF!Known, OF!Call, OF!File
      <3>3. /\ c.base \in [Field -> Nat] /\ c.field \in Field /\ c.stamp <= file'.stamp
            /\ writes' < MaxWrites /\ edits' # 0
        BY <1>1, <1>2, <1>3, <2>3, <3>1, <3>2 DEF OF!Known, OF!File
      <3>4. Kind = "options" => c.at # "stated" /\ (c.early => c.at = "read")
        BY <2>3, <3>1 DEF OF!Known
      <3>5. c.at = "saved" => backup' = c.base
        BY <1>1, <2>3, <3>1 DEF OF!Known
      <3> QED
        BY <3>1, <3>2, <3>3, <3>4, <3>5 DEF OF!Known
    <2> QED
      BY <2>3, <2>4, <2>5
  <1>6. call' \in [Thread -> OF!Call]
    BY <1>1, <1>5 DEF OF!Warned
  <1>7. OF!FilesInv'
    BY <1>1, <1>2, <1>3, <1>5, <1>6 DEF OF!FilesInv, OF!TypeOK
  <1> QED
    BY <1>1, <1>2, <1>7 DEF OF!ThreadsSerialStep, OF!EditKeptStep, OF!BackupPreviousStep

\* The process stops; or nothing happens.
LEMMA FilesCrash ==
  ASSUME OF!Parameters, OF!FilesInv, OF!Crash
  PROVE  OF!FilesInv' /\ OF!ThreadsSerialStep /\ OF!EditKeptStep /\ OF!BackupPreviousStep
  <1>1. /\ call' \in [Thread -> OF!Call] /\ \A t \in Thread : call'[t] = OF!Idle
        /\ holder' = OF!None /\ crashes' \in 0 .. MaxCrashes
        /\ UNCHANGED <<file, backup, editing, writes, edits>> /\ writes \in Nat
    BY FilesIdle DEF OF!Crash, OF!FilesInv, OF!TypeOK, OF!Parameters
  <1>2. OF!FilesInv'
    BY <1>1, FilesFree DEF OF!FilesInv, OF!TypeOK, OF!Whole
  <1> QED
    BY <1>1, <1>2 DEF OF!ThreadsSerialStep, OF!EditKeptStep, OF!BackupPreviousStep

\* Every step keeps the invariant, and overwrites nothing it did not read.
LEMMA FilesKept ==
  ASSUME OF!Parameters, OF!FilesInv, [OF!Next]_OF!vars
  PROVE  OF!FilesInv' /\ OF!ThreadsSerialStep /\ OF!EditKeptStep /\ OF!BackupPreviousStep
  <1>1. CASE UNCHANGED OF!vars
    <2>1. UNCHANGED <<file, backup, call, holder, editing, writes, edits, crashes>> /\ writes \in Nat
      BY <1>1 DEF OF!vars, OF!FilesInv, OF!TypeOK
    <2>2. OF!FilesInv'
      BY <2>1 DEF OF!FilesInv, OF!TypeOK, OF!Whole, OF!Known
    <2> QED
      BY <2>1, <2>2 DEF OF!ThreadsSerialStep, OF!EditKeptStep, OF!BackupPreviousStep
  <1>2. CASE OF!Next
    BY <1>2, FilesRead, FilesGoOn, FilesReplace, FilesEdited, FilesCrash DEF OF!Next
  <1> QED
    BY <1>1, <1>2

\* At first the file is whole and nobody is at work.
LEMMA FilesInit == ASSUME OF!Parameters, OF!Init PROVE OF!FilesInv
  <1>1. file \in OF!File /\ file.stamp = 0 /\ file.whole
    BY DEF OF!Init, OF!File, OF!Defaults
  <1>2. call \in [Thread -> OF!Call] /\ \A t \in Thread : call[t] = OF!Idle
    BY FilesIdle DEF OF!Init
  <1>3. /\ holder = OF!None /\ writes = 0 /\ edits = 0 /\ crashes = 0
        /\ {MaxWrites, MaxEdits, MaxCrashes} \subseteq Nat
    BY DEF OF!Init, OF!Parameters
  <1>4. OF!TypeOK
    BY <1>2, <1>3, FilesIdle DEF OF!TypeOK
  <1>5. editing \in BOOLEAN /\ ~editing
    BY DEF OF!Init
  <1>6. file.stamp <= writes + edits
    BY <1>1, <1>3
  <1>7. \A t \in Thread : call[t].at = "idle" /\ call[t] = OF!Idle
    BY <1>2, FilesIdle
  <1> QED
    BY <1>1, <1>2, <1>4, <1>5, <1>6, <1>7 DEF OF!FilesInv, OF!Whole

\* Whoever reads one of the files, at any crash, finds a whole text unless an editor is rewriting
\* it (OptionsStore, NewGreedyConfigStore); types are right.
THEOREM FilesWhole == ASSUME OF!Parameters PROVE OF!Spec => [](OF!TypeOK /\ OF!Whole)
  <1>1. OF!Init => OF!FilesInv
    BY FilesInit
  <1>2. OF!FilesInv /\ [OF!Next]_OF!vars => OF!FilesInv'
    BY FilesKept
  <1>3. OF!FilesInv => OF!TypeOK /\ OF!Whole
    BY DEF OF!FilesInv
  <1> QED
    BY <1>1, <1>2, <1>3, PTL DEF OF!Spec

\* Threads do not undo each other, an edit by hand that the comparison of .options is to find is
\* not overwritten, and the backup is the text before, for any threads, settings and edits.
THEOREM FilesNotLost ==
  ASSUME OF!Parameters
  PROVE  OF!Spec => OF!ThreadsSerial /\ OF!EditKept /\ OF!BackupPrevious
  <1>1. OF!Init => OF!FilesInv
    BY FilesInit
  <1>2. OF!FilesInv /\ [OF!Next]_OF!vars =>
          /\ OF!FilesInv' /\ [OF!ThreadsSerialStep]_OF!vars
          /\ [OF!EditKeptStep]_OF!vars /\ [OF!BackupPreviousStep]_OF!vars
    BY FilesKept
  <1> QED
    BY <1>1, <1>2, PTL DEF OF!Spec, OF!ThreadsSerial, OF!EditKept, OF!BackupPrevious

-----------------------------------------------------------------------------
(* The backup of the host                                                  *)

\* A run that goes on knows what it must.
LEMMA BackupRun ==
  ASSUME HB!BackupInv, NEW r \in Runner, NEW n \in HB!Run, HB!Known(n),
         run' = [run EXCEPT ![r] = n], taken' = taken
  PROVE  run' \in [Runner -> HB!Run] /\ \A u \in Runner : HB!Known(run[u])'
  <1>1. run' \in [Runner -> HB!Run] /\ \A u \in Runner : run'[u] = IF u = r THEN n ELSE run[u]
    BY DEF HB!BackupInv
  <1>2. ASSUME NEW u \in Runner PROVE HB!Known(run[u])'
    <2>1. CASE u = r
      BY <1>1, <2>1 DEF HB!Known
    <2>2. CASE u # r
      BY <1>1, <2>2 DEF HB!BackupInv, HB!Known
    <2> QED
      BY <2>1, <2>2
  <1> QED
    BY <1>1, <1>2

\* A step of the runs or of the disk.
LEMMA BackupDisk ==
  ASSUME HB!BackupInv, UNCHANGED <<up, version, taken, restore, staged>>, faults' \in 0 .. MaxFaults,
         run' \in [Runner -> HB!Run], \A u \in Runner : HB!Known(run[u])',
         file' \in [Snapshot -> HB!Archives], sidecar' \in [Snapshot -> HB!Archives],
         \A s \in Snapshot : HB!Bound(file'[s])
  PROVE  HB!BackupInv'
  <1>1. HB!TypeOK' /\ HB!RestoredWhole'
    BY DEF HB!BackupInv, HB!TypeOK, HB!RestoredWhole, HB!Archives, HB!Run, HB!Steps
  <1>2. \A s \in Snapshot : taken'[s] <= version' /\ HB!Bound(file[s])'
    BY DEF HB!BackupInv, HB!Bound
  <1> QED
    BY <1>1, <1>2 DEF HB!BackupInv

\* A run that ended or never began; a fault.
LEMMA BackupIdle ==
  ASSUME HB!Parameters
  PROVE  HB!Ready \in HB!Run /\ HB!Known(HB!Ready) /\ HB!Ready.pc = "idle"
  BY DEF HB!Parameters, HB!Ready, HB!Run, HB!Known, HB!Steps, HB!Archives, HB!Copied

LEMMA BackupFault == ASSUME HB!Parameters, HB!BackupInv PROVE
  (faults' = faults \/ HB!Fault) => faults' \in 0 .. MaxFaults
  BY DEF HB!Parameters, HB!BackupInv, HB!TypeOK, HB!Fault

\* What the runs do before they write.
LEMMA BackupCopies ==
  ASSUME HB!Parameters, HB!BackupInv, NEW r \in Runner,
         \/ HB!CopyQb(r) \/ HB!CopyNg(r) \/ HB!CopyFails(r) \/ HB!Kill(r)
         \/ \E s \in Snapshot : HB!Begin(r, s)
  PROVE  HB!BackupInv'
  <1>1. /\ UNCHANGED <<up, version, taken, file, sidecar, restore, staged>>
        /\ (faults' = faults \/ HB!Fault)
    BY DEF HB!CopyQb, HB!CopyNg, HB!CopyFails, HB!Kill, HB!Begin
  <1>2. /\ run[r] \in HB!Run /\ HB!Known(run[r]) /\ version \in 0 .. MaxVersion /\ MaxVersion \in Nat
        /\ taken \in [Snapshot -> 0 .. MaxVersion] /\ \A s \in Snapshot : taken[s] <= version
    BY DEF HB!BackupInv, HB!TypeOK, HB!Parameters
  <1>3. \E n \in HB!Run : HB!Known(n) /\ run' = [run EXCEPT ![r] = n]
    <2>1. CASE HB!CopyQb(r)
      <3> PICK n : n = [run[r] EXCEPT !.pc = "ng", !.qb = version]
        OBVIOUS
      <3>1. run' = [run EXCEPT ![r] = n] /\ run[r].pc = "qb"
        BY <2>1 DEF HB!CopyQb
      <3>5. n = [pc |-> "ng", snap |-> run[r].snap, qb |-> version, ng |-> run[r].ng, sum |-> run[r].sum]
        BY <1>2 DEF HB!Run
      <3>2. n \in HB!Run /\ n.pc = "ng" /\ n.snap = run[r].snap /\ n.qb = version
        BY <1>2, <3>5 DEF HB!Run, HB!Steps
      <3>3. n.snap \in Snapshot /\ taken[n.snap] \in 1 .. n.qb
        BY <1>2, <3>1, <3>2 DEF HB!Known
      <3>4. HB!Known(n)
        BY <3>2, <3>3 DEF HB!Known
      <3> QED
        BY <3>1, <3>2, <3>4
    <2>2. CASE HB!CopyNg(r)
      <3> PICK n : n = [run[r] EXCEPT !.pc = "encrypt", !.ng = version]
        OBVIOUS
      <3>1. run' = [run EXCEPT ![r] = n] /\ run[r].pc = "ng"
        BY <2>2 DEF HB!CopyNg
      <3>5. n = [pc |-> "encrypt", snap |-> run[r].snap, qb |-> run[r].qb, ng |-> version, sum |-> run[r].sum]
        BY <1>2 DEF HB!Run
      <3>2. /\ n \in HB!Run /\ n.pc = "encrypt" /\ n.snap = run[r].snap /\ n.qb = run[r].qb
            /\ n.ng = version
        BY <1>2, <3>5 DEF HB!Run, HB!Steps
      <3>4. HB!Known(n)
        BY <1>2, <3>1, <3>2 DEF HB!Known, HB!Copied
      <3> QED
        BY <3>1, <3>2, <3>4
    <2>3. CASE HB!CopyFails(r) \/ HB!Kill(r)
      BY <2>3, BackupIdle DEF HB!CopyFails, HB!Kill
    <2>4. ASSUME NEW s \in Snapshot, HB!Begin(r, s) PROVE \E n \in HB!Run : HB!Known(n) /\ run' = [run EXCEPT ![r] = n]
      <3> PICK n : n = [HB!Ready EXCEPT !.pc = "qb", !.snap = s]
        OBVIOUS
      <3>1. run' = [run EXCEPT ![r] = n] /\ taken[s] # 0
        BY <2>4 DEF HB!Begin
      <3>2. n \in HB!Run /\ n.pc = "qb" /\ n.snap = s
        BY BackupIdle DEF HB!Run, HB!Steps
      <3>4. HB!Known(n)
        BY <3>1, <3>2 DEF HB!Known, HB!Copied
      <3> QED
        BY <3>1, <3>2, <3>4
    <2> QED
      BY <2>1, <2>2, <2>3, <2>4
  <1>4. run' \in [Runner -> HB!Run] /\ \A u \in Runner : HB!Known(run[u])'
    BY <1>1, <1>3, BackupRun
  <1>5. faults' \in 0 .. MaxFaults
    BY <1>1, BackupFault
  <1>6. /\ file' \in [Snapshot -> HB!Archives] /\ sidecar' \in [Snapshot -> HB!Archives]
        /\ \A s \in Snapshot : HB!Bound(file'[s])
    BY <1>1 DEF HB!BackupInv, HB!TypeOK, HB!Archives
  <1> QED
    BY <1>1, <1>4, <1>5, <1>6, BackupDisk

\* What the runs write: an archive is of a state that is no older than its snapshot.
LEMMA BackupWrites ==
  ASSUME HB!Parameters, HB!BackupInv, NEW r \in Runner,
         HB!Encrypt(r) \/ HB!Encrypted(r) \/ HB!Sum(r) \/ HB!Seal(r)
  PROVE  HB!BackupInv'
  <1>1. /\ UNCHANGED <<up, version, taken, restore, staged>>
        /\ (faults' = faults \/ HB!Fault)
        /\ run[r].pc \in {"encrypt", "encrypting", "sum", "seal"}
    BY DEF HB!Encrypt, HB!Encrypted, HB!Sum, HB!Seal
  <1>2. /\ run[r] \in HB!Run /\ HB!Known(run[r]) /\ MaxVersion \in Nat
        /\ run[r].snap \in Snapshot /\ run[r].sum \in HB!Archives
        /\ taken \in [Snapshot -> 0 .. MaxVersion]
        /\ file \in [Snapshot -> HB!Archives] /\ sidecar \in [Snapshot -> HB!Archives]
        /\ \A s \in Snapshot : HB!Bound(file[s])
    BY <1>1 DEF HB!BackupInv, HB!TypeOK, HB!Parameters, HB!Archives, HB!Known, HB!Run
  <1>3. /\ HB!Content(r) \in HB!Payload /\ HB!Bound(HB!Content(r))
    BY <1>1, <1>2 DEF HB!Content, HB!Payload, HB!Bound, HB!Known, HB!Copied, HB!Run
  <1>4. \A f \in {HB!Absent, HB!Partial} : HB!Bound(f)
    BY DEF HB!Bound, HB!Absent, HB!Partial, HB!Payload
  <1>5. ASSUME NEW pc \in HB!Copied, run[r].pc \in HB!Copied \ {"ng"}
        PROVE  /\ [run[r] EXCEPT !.pc = pc] \in HB!Run /\ HB!Known([run[r] EXCEPT !.pc = pc])
               /\ \A a \in HB!Archives : /\ [run[r] EXCEPT !.pc = pc, !.sum = a] \in HB!Run
                                         /\ HB!Known([run[r] EXCEPT !.pc = pc, !.sum = a])
    BY <1>2, <1>5 DEF HB!Run, HB!Steps, HB!Copied, HB!Known
  <1>6. \E n \in HB!Run : HB!Known(n) /\ run' = [run EXCEPT ![r] = n]
    <2>1. CASE HB!Encrypt(r)
      BY <1>1, <1>5, <2>1 DEF HB!Encrypt, HB!Goto, HB!Copied
    <2>2. CASE HB!Encrypted(r)
      BY <1>1, <1>5, <2>2, BackupIdle DEF HB!Encrypted, HB!Goto, HB!Copied
    <2>3. CASE HB!Sum(r)
      BY <1>1, <1>2, <1>5, <2>3, BackupIdle DEF HB!Sum, HB!Copied
    <2>4. CASE HB!Seal(r)
      BY <2>4, BackupIdle DEF HB!Seal
    <2> QED
      BY <2>1, <2>2, <2>3, <2>4
  <1>7. \/ file' = file \/ \E f \in {HB!Absent, HB!Partial, HB!Content(r)} : file' = [file EXCEPT ![run[r].snap] = f]
    BY DEF HB!Encrypt, HB!Encrypted, HB!Sum, HB!Seal
  <1>8. file' \in [Snapshot -> HB!Archives] /\ \A s \in Snapshot : HB!Bound(file'[s])
    BY <1>2, <1>3, <1>4, <1>7 DEF HB!Archives
  <1>9. sidecar' \in [Snapshot -> HB!Archives]
    BY <1>2 DEF HB!Encrypt, HB!Encrypted, HB!Sum, HB!Seal
  <1>10. run' \in [Runner -> HB!Run] /\ \A u \in Runner : HB!Known(run[u])'
    BY <1>1, <1>6, BackupRun
  <1> QED
    BY <1>1, <1>8, <1>9, <1>10, BackupFault, BackupDisk

\* The disk and the operator clear or damage an archive.
LEMMA BackupFiles ==
  ASSUME HB!Parameters, HB!BackupInv, NEW s \in Snapshot, HB!Damage(s) \/ HB!Clear(s)
  PROVE  HB!BackupInv'
  <1>1. /\ UNCHANGED <<up, version, taken, run, restore, staged>>
        /\ (faults' = faults \/ HB!Fault)
        /\ \E f \in {HB!Absent, HB!Damaged} : file' = [file EXCEPT ![s] = f]
        /\ sidecar' = sidecar \/ sidecar' = [sidecar EXCEPT ![s] = HB!Absent]
    BY DEF HB!Damage, HB!Clear
  <1>2. \A f \in {HB!Absent, HB!Damaged} : HB!Bound(f) /\ f \in HB!Archives
    BY DEF HB!Bound, HB!Absent, HB!Damaged, HB!Payload, HB!Archives
  <1>3. /\ file \in [Snapshot -> HB!Archives] /\ sidecar \in [Snapshot -> HB!Archives]
        /\ \A u \in Snapshot : HB!Bound(file[u])
    BY DEF HB!BackupInv, HB!TypeOK, HB!Archives
  <1>4. /\ file' \in [Snapshot -> HB!Archives] /\ sidecar' \in [Snapshot -> HB!Archives]
        /\ \A u \in Snapshot : HB!Bound(file'[u])
    BY <1>1, <1>2, <1>3
  <1>5. run' \in [Runner -> HB!Run] /\ \A u \in Runner : HB!Known(run[u])'
    BY <1>1 DEF HB!BackupInv, HB!Known
  <1> QED
    BY <1>1, <1>4, <1>5, BackupFault, BackupDisk

\* A snapshot that nothing rests on yet is taken; the consumers stop, start and work.
LEMMA BackupWorld ==
  ASSUME HB!Parameters, HB!BackupInv,
         HB!Stop \/ HB!Start \/ HB!Work \/ \E s \in Snapshot : HB!Take(s)
  PROVE  HB!BackupInv'
  <1>1. /\ UNCHANGED <<run, file, sidecar, restore, staged, faults>>
        /\ up \in BOOLEAN /\ version \in 1 .. MaxVersion /\ MaxVersion \in Nat
        /\ taken \in [Snapshot -> 0 .. MaxVersion] /\ \A s \in Snapshot : taken[s] <= version
    BY DEF HB!Stop, HB!Start, HB!Work, HB!Take, HB!BackupInv, HB!TypeOK, HB!Parameters
  <1>2. up' \in BOOLEAN
    BY <1>1 DEF HB!Stop, HB!Start, HB!Work, HB!Take
  <1>3. /\ version' \in 1 .. MaxVersion /\ version <= version'
        /\ taken' = taken \/ \E s \in Snapshot : taken[s] = 0 /\ taken' = [taken EXCEPT ![s] = version]
    BY <1>1 DEF HB!Stop, HB!Start, HB!Work, HB!Take
  <1>4. /\ taken' \in [Snapshot -> 0 .. MaxVersion] /\ \A s \in Snapshot : taken'[s] <= version'
        /\ \A s \in Snapshot : taken[s] # 0 => taken'[s] = taken[s]
    BY <1>1, <1>3
  <1>5. HB!RestoredWhole'
    <2>1. SUFFICES ASSUME staged # HB!Absent
                   PROVE  /\ staged.payload \in HB!Payload /\ staged.payload.snap = staged.id
                          /\ taken'[staged.id] \in 1 .. staged.payload.qb
      BY <1>1 DEF HB!RestoredWhole
    <2>2. /\ staged.payload \in HB!Payload /\ staged.payload.snap = staged.id
          /\ taken[staged.id] \in 1 .. staged.payload.qb /\ staged.id \in Snapshot
      BY <2>1 DEF HB!BackupInv, HB!RestoredWhole, HB!Payload
    <2> QED
      BY <1>4, <2>2
  <1>6. ASSUME NEW s \in Snapshot PROVE HB!Bound(file[s])'
    <2>1. HB!Bound(file[s])
      BY DEF HB!BackupInv
    <2> QED
      BY <1>1, <1>4, <2>1 DEF HB!Bound, HB!Payload
  <1>7. ASSUME NEW r \in Runner PROVE HB!Known(run[r])'
    <2>1. HB!Known(run[r])
      BY DEF HB!BackupInv
    <2> QED
      BY <1>1, <1>4, <2>1 DEF HB!Known, HB!Copied
  <1>8. HB!TypeOK'
    BY <1>1, <1>2, <1>3, <1>4 DEF HB!BackupInv, HB!TypeOK
  <1> QED
    BY <1>1, <1>4, <1>5, <1>6, <1>7, <1>8 DEF HB!BackupInv, HB!Bound

\* What is delivered is the archive that is there then.
LEMMA BackupRestore ==
  ASSUME HB!Parameters, HB!BackupInv,
         HB!Stage \/ HB!Erase \/ \E s \in Snapshot, id \in Snapshot : HB!Verify(s, id)
  PROVE  HB!BackupInv'
  <1>1. UNCHANGED <<up, version, taken, run, file, sidecar, faults>>
    BY DEF HB!Stage, HB!Erase, HB!Verify
  <1>2. /\ restore' \in [pc : {"idle", "verified"}, snap : Snapshot \cup {"none"}, id : Snapshot \cup {"none"}]
        /\ restore'.pc = "verified" => restore'.snap \in Snapshot /\ restore'.id \in Snapshot
    BY DEF HB!Stage, HB!Erase, HB!Verify, HB!NoRestore, HB!BackupInv
  <1>3. HB!RestoredWhole'
    <2>1. CASE staged' = staged \/ staged' = HB!Absent
      BY <1>1, <2>1 DEF HB!BackupInv, HB!RestoredWhole
    <2>2. CASE HB!Stage /\ HB!Sound(file[restore.snap], restore.id)
      <3>1. /\ staged' = [payload |-> file[restore.snap], id |-> restore.id]
            /\ restore.snap \in Snapshot /\ HB!Bound(file[restore.snap])
        BY <2>2 DEF HB!Stage, HB!Deliver, HB!BackupInv
      <3> QED
        BY <1>1, <2>2, <3>1 DEF HB!RestoredWhole, HB!Sound, HB!Bound
    <2> QED
      BY <2>1, <2>2 DEF HB!Stage, HB!Erase, HB!Verify, HB!Deliver
  <1> QED
    BY <1>1, <1>2, <1>3 DEF HB!BackupInv, HB!TypeOK, HB!Bound, HB!Known

LEMMA BackupInit == ASSUME HB!Parameters, HB!Init PROVE HB!BackupInv
  <1>1. HB!TypeOK /\ HB!RestoredWhole
    BY DEF HB!Parameters, HB!Init, HB!TypeOK, HB!RestoredWhole, HB!Ready
  <1>2. run \in [Runner -> HB!Run] /\ \A r \in Runner : HB!Known(run[r])
    BY BackupIdle DEF HB!Init, HB!Known
  <1>3. \A s \in Snapshot : taken[s] <= version /\ HB!Bound(file[s])
    BY DEF HB!Init, HB!Bound, HB!Absent, HB!Payload
  <1> QED
    BY <1>1, <1>2, <1>3 DEF HB!Init, HB!BackupInv, HB!NoRestore

\* The host's backup and its restoration: what is restored is whole, of the snapshot that was asked
\* for and no older than it, for any runs, snapshots, damages and overlaps.
THEOREM RestoresWhole == ASSUME HB!Parameters PROVE HB!Spec => [](HB!TypeOK /\ HB!RestoredWhole)
  <1>1. HB!Init => HB!BackupInv
    BY BackupInit
  <1>2. HB!BackupInv /\ [HB!Next]_HB!vars => HB!BackupInv'
    <2>1. ASSUME HB!BackupInv, UNCHANGED HB!vars PROVE HB!BackupInv'
      BY <2>1 DEF HB!vars, HB!BackupInv, HB!TypeOK, HB!RestoredWhole, HB!Known, HB!Bound
    <2>2. ASSUME HB!BackupInv, HB!Next PROVE HB!BackupInv'
      BY <2>2, BackupCopies, BackupWrites, BackupFiles, BackupWorld, BackupRestore DEF HB!Next
    <2> QED
      BY <2>1, <2>2
  <1>3. HB!BackupInv => HB!TypeOK /\ HB!RestoredWhole
    BY DEF HB!BackupInv
  <1> QED
    BY <1>1, <1>2, <1>3, PTL DEF HB!Spec

-----------------------------------------------------------------------------
(* Pages that follow live                                                  *)

\* What is known of a page, of all pages, and of a socket, when the list has version d.
GoodPage(p, g, d) ==
  /\ g \in RT!Pages /\ g.began <= d /\ g.shown <= d /\ g.heard <= d
  /\ p \notin Listener => RT!Asked(g)
GoodPages(pages, d) == pages \in [Page -> RT!Pages] /\ \A p \in Page : GoodPage(p, pages[p], d)
GoodSock(c, d) == c \in RT!Sockets /\ c.inbox <= d /\ (c.peer => c.page \in Page)

\* The sockets that hold a slot.
Holds(c) == c.at \in {"accepted", "streaming"}
Holding == {k \in Sock : Holds(sock[k])}

\* Cardinality and finiteness are what they are in the component.
LEMMA EventsCounts ==
  ASSUME NEW S
  PROVE  RT!Cardinality(S) = Cardinality(S) /\ (RT!IsFiniteSet(S) <=> IsFiniteSet(S))
  BY DEF RT!Cardinality, Cardinality, RT!IsFiniteSet, IsFiniteSet

LEMMA EventsSlots ==
  /\ RT!SlotsCounted <=> slots = Cardinality(Holding) /\ slots <= PerUser
  /\ RT!SlotsCounted' <=> slots' = Cardinality(Holding') /\ slots' <= PerUser
  BY EventsCounts DEF RT!SlotsCounted, Holding, Holds

\* What the invariant says, part by part.
LEMMA EventsKnown ==
  ASSUME RT!Parameters, RT!RealtimeInv
  PROVE  /\ session \in {"valid", "ended"} /\ redis \in BOOLEAN /\ others \in 0 .. MaxOthers
         /\ db \in 1 .. MaxChanges + 1 /\ db \in Nat /\ MaxChanges \in Nat /\ MaxOthers \in Nat
         /\ PerUser \in Nat
         /\ GoodPages(page, db) /\ sock \in [Sock -> RT!Sockets]
         /\ \A k \in Sock : GoodSock(sock[k], db)
         /\ IsFiniteSet(Holding) /\ slots = Cardinality(Holding) /\ slots \in Nat /\ slots <= PerUser
  <1>1. RT!TypeOK /\ RT!SlotsCounted /\ sock \in [Sock -> RT!Sockets] /\ page \in [Page -> RT!Pages]
    BY DEF RT!RealtimeInv
  <1>2. /\ session \in {"valid", "ended"} /\ redis \in BOOLEAN /\ others \in 0 .. MaxOthers
        /\ db \in 1 .. MaxChanges + 1 /\ db \in Nat /\ slots \in Nat /\ MaxChanges \in Nat
        /\ MaxOthers \in Nat /\ PerUser \in Nat
    BY <1>1 DEF RT!TypeOK, RT!Parameters
  <1>3. GoodPages(page, db)
    BY <1>1, <1>2 DEF RT!RealtimeInv, RT!TypeOK, GoodPages, GoodPage
  <1>4. \A k \in Sock : GoodSock(sock[k], db)
    BY <1>1 DEF RT!RealtimeInv, GoodSock
  <1>5. IsFiniteSet(Sock) /\ Holding \subseteq Sock
    BY EventsCounts DEF RT!Parameters, Holding
  <1>6. IsFiniteSet(Holding)
    BY <1>5, FS_Subset
  <1> QED
    BY <1>1, <1>2, <1>3, <1>4, <1>6, EventsSlots

\* And from its parts.
LEMMA EventsParts ==
  ASSUME RT!Parameters, session' \in {"valid", "ended"}, redis' \in BOOLEAN, others' \in 0 .. MaxOthers,
         db' \in 1 .. MaxChanges + 1, GoodPages(page', db'), sock' \in [Sock -> RT!Sockets],
         \A k \in Sock : GoodSock(sock'[k], db'),
         slots' \in Nat, slots' = Cardinality(Holding'), slots' <= PerUser
  PROVE  RT!RealtimeInv'
  <1>1. db' \in Nat
    BY DEF RT!Parameters
  <1>2. \A k \in Sock : sock'[k].at \in {"free", "authenticated", "accepted", "streaming"}
    BY DEF RT!Sockets
  <1>3. \A p \in Page : page'[p].shown \in 0 .. db' /\ page'[p].heard \in 0 .. db'
    BY <1>1 DEF GoodPages, GoodPage, RT!Pages
  <1>4. RT!TypeOK'
    BY <1>2, <1>3 DEF RT!TypeOK
  <1> QED
    BY <1>4, EventsSlots DEF RT!RealtimeInv, GoodPages, GoodPage, GoodSock

\* A page is changed.
LEMMA EventsPage ==
  ASSUME NEW d \in Nat, NEW pages, GoodPages(pages, d), NEW p \in Page, NEW g, GoodPage(p, g, d)
  PROVE  GoodPages([pages EXCEPT ![p] = g], d)
  <1>1. [pages EXCEPT ![p] = g] \in [Page -> RT!Pages]
    BY DEF GoodPages, GoodPage
  <1> QED
    BY <1>1 DEF GoodPages

\* A page that asks for a reload may hear of anything: the list will be read after that.
LEMMA EventsReload ==
  ASSUME NEW d \in Nat, NEW p \in Page, NEW g, GoodPage(p, g, d)
  PROVE  /\ GoodPage(p, RT!WantReload(g), d)
         /\ \A v \in 0 .. d : GoodPage(p, [RT!WantReload(g) EXCEPT !.heard = v], d)
  <1>1. ASSUME NEW h \in RT!Pages, h.pending, h.queued \/ h.began = 0,
               h.began <= d, h.shown <= d, h.heard <= d
        PROVE  GoodPage(p, h, d)
    <2>1. RT!Asked(h)
      BY <1>1 DEF RT!Asked
    <2> QED
      BY <1>1, <2>1 DEF GoodPage
  <1>2. /\ RT!WantReload(g) \in RT!Pages /\ RT!WantReload(g).pending
        /\ RT!WantReload(g).queued \/ RT!WantReload(g).began = 0
        /\ RT!WantReload(g).began <= d /\ RT!WantReload(g).shown <= d /\ RT!WantReload(g).heard <= d
    <2>1. CASE g.pending
      <3> PICK h : h = [g EXCEPT !.queued = TRUE]
        OBVIOUS
      <3>1. /\ h \in RT!Pages /\ h.queued /\ h.began = g.began /\ h.shown = g.shown /\ h.heard = g.heard
            /\ h.pending = g.pending
        BY DEF GoodPage, RT!Pages
      <3> QED
        BY <2>1, <3>1 DEF GoodPage, RT!WantReload
    <2>2. CASE ~g.pending
      <3> PICK h : h = [g EXCEPT !.pending = TRUE, !.began = 0]
        OBVIOUS
      <3>1. h \in RT!Pages /\ h.pending /\ h.began = 0 /\ h.shown = g.shown /\ h.heard = g.heard
        BY DEF GoodPage, RT!Pages
      <3> QED
        BY <2>2, <3>1 DEF GoodPage, RT!WantReload
    <2> QED
      BY <2>1, <2>2
  <1>3. ASSUME NEW v \in 0 .. d PROVE GoodPage(p, [RT!WantReload(g) EXCEPT !.heard = v], d)
    <2> PICK w : w = RT!WantReload(g)
      OBVIOUS
    <2> PICK h : h = [w EXCEPT !.heard = v]
      OBVIOUS
    <2>1. w \in RT!Pages /\ w.pending /\ (w.queued \/ w.began = 0) /\ w.began <= d /\ w.shown <= d
      BY <1>2
    <2>2. /\ h \in RT!Pages /\ h.pending /\ (h.queued \/ h.began = 0)
          /\ h.began <= d /\ h.shown <= d /\ h.heard <= d
      BY <2>1 DEF RT!Pages
    <2> QED
      BY <1>1, <2>2
  <1> QED
    BY <1>1, <1>2, <1>3

\* What the page of a socket does.
LEMMA EventsLoses ==
  ASSUME RT!Parameters, RT!RealtimeInv, NEW k \in Sock, NEW pages, GoodPages(pages, db)
  PROVE  GoodPages(RT!PageLoses(k, pages), db)
  <1>1. CASE sock[k].peer
    <2> PICK p : p = sock[k].page
      OBVIOUS
    <2> PICK g : g = [pages[p] EXCEPT !.sock = "none"]
      OBVIOUS
    <2>1. p \in Page /\ GoodPage(p, pages[p], db) /\ db \in Nat
      BY <1>1, EventsKnown DEF GoodSock, GoodPages
    <2>2. /\ g \in RT!Pages /\ g.pending = pages[p].pending /\ g.queued = pages[p].queued
          /\ g.began = pages[p].began /\ g.shown = pages[p].shown /\ g.heard = pages[p].heard
      BY <2>1 DEF GoodPage, RT!Pages
    <2>4. GoodPage(p, g, db)
      BY <2>1, <2>2 DEF GoodPage, RT!Asked
    <2>3. RT!PageLoses(k, pages) = [pages EXCEPT ![p] = g]
      BY <1>1 DEF RT!PageLoses
    <2>5. GoodPages([pages EXCEPT ![p] = g], db)
      BY <2>1, <2>4, EventsPage
    <2> QED
      BY <2>3, <2>5
  <1>2. CASE ~sock[k].peer
    BY <1>2 DEF RT!PageLoses
  <1> QED
    BY <1>1, <1>2

LEMMA EventsReloads ==
  ASSUME NEW d \in Nat, NEW p \in Page, NEW pages, GoodPages(pages, d)
  PROVE  GoodPages(RT!Reload(p, pages), d)
  <1>1. GoodPage(p, RT!WantReload(pages[p]), d)
    BY EventsReload DEF GoodPages
  <1>2. GoodPages([pages EXCEPT ![p] = RT!WantReload(pages[p])], d)
    BY <1>1, EventsPage
  <1> QED
    BY <1>2 DEF RT!Reload

LEMMA EventsPageReloads ==
  ASSUME RT!Parameters, RT!RealtimeInv, NEW k \in Sock
  PROVE  GoodPages(RT!PageReloads(k), db)
  BY EventsKnown, EventsReloads DEF RT!PageReloads, GoodSock

\* A step that leaves the sockets' slots as they are.
LEMMA EventsSameSlots ==
  ASSUME RT!Parameters, RT!RealtimeInv, slots' = slots, \A k \in Sock : Holds(sock'[k]) <=> Holds(sock[k])
  PROVE  slots' \in Nat /\ slots' = Cardinality(Holding') /\ slots' <= PerUser
  <1>1. Holding' = Holding
    BY DEF Holding, Holds
  <1> QED
    BY <1>1, EventsKnown

\* A socket ends: the slot it had, if any, is given back.
LEMMA EventsEnds ==
  ASSUME RT!Parameters, RT!RealtimeInv, NEW k \in Sock, RT!Free(k),
         IF Holds(sock[k]) THEN slots' = slots - 1 ELSE slots' = slots
  PROVE  /\ sock' \in [Sock -> RT!Sockets] /\ \A j \in Sock : GoodSock(sock'[j], db)
         /\ slots' \in Nat /\ slots' = Cardinality(Holding') /\ slots' <= PerUser
  <1>1. GoodSock(RT!NoSock, db) /\ ~Holds(RT!NoSock)
    BY EventsKnown DEF GoodSock, RT!NoSock, RT!Sockets, Holds
  <1>2. /\ sock' \in [Sock -> RT!Sockets] /\ sock'[k] = RT!NoSock
        /\ \A j \in Sock \ {k} : sock'[j] = sock[j]
    BY <1>1, EventsKnown DEF RT!Free, GoodSock
  <1>3. Holding' = Holding \ {k}
    BY <1>1, <1>2 DEF Holding, Holds
  <1>4. /\ Holds(sock[k]) <=> k \in Holding
        /\ IsFiniteSet(Holding)
    BY EventsKnown DEF Holding
  <1>5. slots' = Cardinality(Holding') /\ slots' \in Nat /\ slots' <= PerUser
    <2>1. CASE k \in Holding
      <3>1. Cardinality(Holding \ {k}) = Cardinality(Holding) - 1 /\ Cardinality(Holding \ {k}) \in Nat
        BY <1>4, <2>1, FS_RemoveElement, FS_CardinalityType
      <3> QED
        BY <1>3, <1>4, <2>1, <3>1, EventsKnown
    <2>2. CASE k \notin Holding
      <3>1. Holding \ {k} = Holding
        BY <2>2
      <3> QED
        BY <1>3, <1>4, <2>2, <3>1, EventsKnown
    <2> QED
      BY <2>1, <2>2
  <1> QED
    BY <1>1, <1>2, <1>5, EventsKnown

\* A socket goes on; its slot is taken when it is accepted.
LEMMA EventsGoesOn ==
  ASSUME RT!Parameters, RT!RealtimeInv, NEW k \in Sock, NEW c, GoodSock(c, db),
         sock' = [sock EXCEPT ![k] = c],
         \/ slots' = slots /\ (Holds(c) <=> Holds(sock[k]))
         \/ slots' = slots + 1 /\ slots < PerUser /\ Holds(c) /\ ~Holds(sock[k])
  PROVE  /\ sock' \in [Sock -> RT!Sockets] /\ \A j \in Sock : GoodSock(sock'[j], db)
         /\ slots' \in Nat /\ slots' = Cardinality(Holding') /\ slots' <= PerUser
  <1>1. /\ sock' \in [Sock -> RT!Sockets] /\ sock'[k] = c /\ \A j \in Sock \ {k} : sock'[j] = sock[j]
    BY EventsKnown DEF GoodSock
  <1>2. \A j \in Sock : GoodSock(sock'[j], db)
    BY <1>1, EventsKnown
  <1>3. CASE slots' = slots /\ (Holds(c) <=> Holds(sock[k]))
    <2>1. \A j \in Sock : Holds(sock'[j]) <=> Holds(sock[j])
      BY <1>1, <1>3
    <2> QED
      BY <1>1, <1>2, <1>3, <2>1, EventsSameSlots
  <1>4. CASE slots' = slots + 1 /\ slots < PerUser /\ Holds(c) /\ ~Holds(sock[k])
    <2>1. Holding' = Holding \cup {k} /\ k \notin Holding
      BY <1>1, <1>4 DEF Holding, Holds
    <2>2. Cardinality(Holding \cup {k}) = Cardinality(Holding) + 1
      BY <2>1, EventsKnown, FS_AddElement
    <2> QED
      BY <1>1, <1>2, <1>4, <2>1, <2>2, EventsKnown
  <1> QED
    BY <1>3, <1>4

\* A page loads its list, polls, signs out; its browser connects or drops it.
LEMMA EventsPages ==
  ASSUME RT!Parameters, RT!RealtimeInv, NEW p \in Page,
         \/ RT!Load(p) \/ RT!SignOut(p) \/ RT!Loaded(p) \/ RT!Poll(p) \/ RT!Drop(p)
         \/ \E k \in Sock : RT!Connect(p, k)
  PROVE  RT!RealtimeInv'
  <1>1. UNCHANGED <<session, redis, db, slots, others>>
    BY DEF RT!Load, RT!SignOut, RT!Loaded, RT!Poll, RT!Drop, RT!Connect
  <1> PICK g : g = page[p]
    OBVIOUS
  <1>2. /\ GoodPage(p, g, db) /\ db \in Nat /\ db # 0 /\ g \in RT!Pages
        /\ g.sock # "none" => g.sock \in Sock
    BY EventsKnown DEF GoodPages, GoodPage, RT!Pages
  <1>3. \E h : GoodPage(p, h, db) /\ page' = [page EXCEPT ![p] = h]
    <2>1. CASE RT!Load(p)
      <3> PICK h : h = [g EXCEPT !.began = db]
        OBVIOUS
      <3>1. /\ h \in RT!Pages /\ h.pending = g.pending /\ h.queued = g.queued
            /\ h.began = db /\ h.shown = g.shown /\ h.heard = g.heard
        BY <1>2 DEF RT!Pages
      <3>2. g.pending /\ page' = [page EXCEPT ![p] = h]
        BY <2>1 DEF RT!Load
      <3>3. h.began >= h.heard
        BY <1>2, <3>1 DEF GoodPage, RT!Pages
      <3>4. RT!Asked(h)
        BY <3>1, <3>2, <3>3 DEF RT!Asked
      <3>5. GoodPage(p, h, db)
        BY <1>2, <3>1, <3>4 DEF GoodPage
      <3> QED
        BY <3>2, <3>5
    <2>2. CASE RT!SignOut(p)
      <3> PICK h : h = [RT!NewPage EXCEPT !.out = TRUE, !.pending = FALSE]
        OBVIOUS
      <3>1. /\ h \in RT!Pages /\ ~h.pending /\ ~h.queued
            /\ h.began = 0 /\ h.shown = 0 /\ h.heard = 0
        BY DEF RT!Pages, RT!NewPage
      <3>2. RT!Asked(h)
        BY <3>1 DEF RT!Asked
      <3>3. page' = [page EXCEPT ![p] = h]
        BY <2>2 DEF RT!SignOut
      <3>5. GoodPage(p, h, db)
        BY <1>2, <3>1, <3>2 DEF GoodPage
      <3> QED
        BY <3>3, <3>5
    <2>3. CASE RT!Loaded(p)
      <3> PICK h : h = [g EXCEPT !.shown = g.began, !.began = 0, !.pending = g.queued, !.queued = FALSE]
        OBVIOUS
      <3>1. /\ h \in RT!Pages /\ h.pending = g.queued /\ ~h.queued
            /\ h.began = 0 /\ h.shown = g.began /\ h.heard = g.heard
        BY <1>2 DEF RT!Pages
      <3>2. g.pending /\ g.began # 0 /\ page' = [page EXCEPT ![p] = h]
        BY <2>3 DEF RT!Loaded
      <3>3. p \notin Listener => (~g.queued => g.began >= g.heard)
        BY <1>2, <3>2 DEF GoodPage, RT!Asked
      <3>4. p \notin Listener => RT!Asked(h)
        BY <3>1, <3>3 DEF RT!Asked
      <3>5. GoodPage(p, h, db)
        BY <1>2, <3>1, <3>4 DEF GoodPage
      <3> QED
        BY <3>2, <3>5
    <2>4. CASE RT!Poll(p)
      <3>1. page' = [page EXCEPT ![p] = RT!WantReload(g)]
        BY <2>4 DEF RT!Poll
      <3> QED
        BY <1>2, <3>1, EventsReload
    <2>5. CASE RT!Drop(p) \/ \E k \in Sock : RT!Connect(p, k)
      <3>1. PICK k \in Sock \cup {"none"} : page' = [page EXCEPT ![p] = [g EXCEPT !.sock = k]]
        BY <2>5 DEF RT!Drop, RT!Connect
      <3> PICK h : h = [g EXCEPT !.sock = k]
        OBVIOUS
      <3>2. /\ h \in RT!Pages /\ h.pending = g.pending /\ h.queued = g.queued
            /\ h.began = g.began /\ h.shown = g.shown /\ h.heard = g.heard
        BY <1>2 DEF RT!Pages
      <3>3. GoodPage(p, h, db)
        BY <1>2, <3>2 DEF GoodPage, RT!Asked
      <3> QED
        BY <3>1, <3>3
    <2> QED
      BY <2>1, <2>2, <2>3, <2>4, <2>5
  <1>4. GoodPages(page', db)
    <2>1. PICK h : GoodPage(p, h, db) /\ page' = [page EXCEPT ![p] = h]
      BY <1>3
    <2>2. GoodPages(page, db)
      BY EventsKnown
    <2>3. GoodPages([page EXCEPT ![p] = h], db)
      BY <1>2, <2>1, <2>2, EventsPage
    <2> QED
      BY <2>1, <2>3
  <1>5. \/ sock' = sock
        \/ \E k \in Sock : \E c : /\ GoodSock(c, db) /\ sock' = [sock EXCEPT ![k] = c]
                                  /\ Holds(c) <=> Holds(sock[k])
    <2>1. CASE \E k \in Sock : RT!Connect(p, k)
      <3>1. PICK k \in Sock : RT!Connect(p, k)
        BY <2>1
      <3> PICK n : n = RT!NoSock
        OBVIOUS
      <3>4. n \in RT!Sockets /\ n.inbox = 0
        BY DEF RT!NoSock, RT!Sockets
      <3> PICK c : c = [n EXCEPT !.at = "authenticated", !.page = p, !.peer = TRUE]
        OBVIOUS
      <3>5. c \in RT!Sockets /\ c.page = p /\ c.inbox = 0 /\ c.at = "authenticated"
        BY <3>4 DEF RT!Sockets
      <3>2. GoodSock(c, db) /\ c.at = "authenticated"
        BY <1>2, <3>5 DEF GoodSock
      <3>3. sock' = [sock EXCEPT ![k] = c] /\ sock[k].at = "free"
        BY <3>1, <3>4 DEF RT!Connect
      <3> QED
        BY <3>2, <3>3 DEF Holds
    <2>2. CASE RT!SignOut(p) \/ RT!Drop(p)
      <3>1. CASE g.sock = "none"
        BY <2>2, <3>1 DEF RT!SignOut, RT!Drop
      <3>2. CASE g.sock # "none"
        <4> PICK k \in Sock : k = g.sock
          BY <1>2, <3>2
        <4> PICK c : c = [sock[k] EXCEPT !.peer = FALSE]
          OBVIOUS
        <4>1. GoodSock(sock[k], db)
          BY EventsKnown
        <4>2. /\ c \in RT!Sockets /\ c.at = sock[k].at /\ c.inbox = sock[k].inbox /\ ~c.peer
          BY <4>1 DEF GoodSock, RT!Sockets
        <4>3. GoodSock(c, db) /\ (Holds(c) <=> Holds(sock[k]))
          BY <4>1, <4>2 DEF GoodSock, Holds
        <4>4. sock' = [sock EXCEPT ![k] = c]
          BY <2>2, <3>2 DEF RT!SignOut, RT!Drop
        <4> QED
          BY <4>3, <4>4
      <3> QED
        BY <3>1, <3>2
    <2>3. CASE RT!Load(p) \/ RT!Loaded(p) \/ RT!Poll(p)
      BY <2>3 DEF RT!Load, RT!Loaded, RT!Poll
    <2> QED
      BY <2>1, <2>2, <2>3
  <1>6. /\ sock' \in [Sock -> RT!Sockets] /\ \A j \in Sock : GoodSock(sock'[j], db)
        /\ slots' \in Nat /\ slots' = Cardinality(Holding') /\ slots' <= PerUser
    <2>1. CASE sock' = sock
      BY <1>1, <2>1, EventsKnown, EventsSameSlots
    <2>2. ASSUME NEW k \in Sock, NEW c, GoodSock(c, db), sock' = [sock EXCEPT ![k] = c],
                 Holds(c) <=> Holds(sock[k])
          PROVE  /\ sock' \in [Sock -> RT!Sockets] /\ \A j \in Sock : GoodSock(sock'[j], db)
                 /\ slots' \in Nat /\ slots' = Cardinality(Holding') /\ slots' <= PerUser
      BY <1>1, <2>2, EventsGoesOn
    <2> QED
      BY <1>5, <2>1, <2>2
  <1> QED
    BY <1>1, <1>4, <1>6, EventsKnown, EventsParts

\* The API serves a socket.
LEMMA EventsServed ==
  ASSUME RT!Parameters, RT!RealtimeInv, NEW k \in Sock, RT!Serve(k)
  PROVE  RT!RealtimeInv'
  <1>1. UNCHANGED <<session, redis, db, others>>
    BY DEF RT!Serve, RT!Accept, RT!TooMany, RT!Subscribe, RT!Resync, RT!Forward, RT!Heartbeat
  <1> PICK c : c = sock[k]
    OBVIOUS
  <1>2. /\ GoodSock(c, db) /\ c \in RT!Sockets /\ db \in Nat /\ GoodPages(page, db)
        /\ (c.peer => c.page \in Page)
    BY EventsKnown DEF GoodSock
  <1>3. GoodPages(page', db)
    <2>1. CASE RT!Accept(k)
      <3>1. CASE ~c.peer
        BY <1>2, <2>1, <3>1 DEF RT!Accept
      <3>2. CASE c.peer
        <4> PICK p \in Page : p = c.page
          BY <1>2, <3>2
        <4> PICK pages : pages = (IF page[p].known THEN RT!Reload(p, page) ELSE page)
          OBVIOUS
        <4>1. GoodPages(pages, db)
          BY <1>2, EventsReloads
        <4> PICK h : h = [pages[p] EXCEPT !.known = TRUE]
          OBVIOUS
        <4>2. GoodPage(p, pages[p], db) /\ pages[p] \in RT!Pages
          BY <4>1 DEF GoodPages, GoodPage
        <4>3. /\ h \in RT!Pages /\ h.pending = pages[p].pending /\ h.queued = pages[p].queued
              /\ h.began = pages[p].began /\ h.shown = pages[p].shown /\ h.heard = pages[p].heard
          BY <4>2 DEF RT!Pages
        <4>4. GoodPage(p, h, db)
          BY <4>2, <4>3 DEF GoodPage, RT!Asked
        <4>5. page' = [pages EXCEPT ![p] = h]
          BY <2>1, <3>2 DEF RT!Accept
        <4>6. GoodPages([pages EXCEPT ![p] = h], db)
          BY <1>2, <4>1, <4>4, EventsPage
        <4> QED
          BY <4>5, <4>6
      <3> QED
        BY <3>1, <3>2
    <2>2. CASE RT!TooMany(k) \/ RT!Heartbeat(k)
      <3>1. page' = RT!PageLoses(k, page)
        BY <2>2 DEF RT!TooMany, RT!Heartbeat
      <3> QED
        BY <1>2, <3>1, EventsLoses
    <2>3. CASE RT!Resync(k)
      <3>1. page' = RT!PageLoses(k, RT!PageReloads(k)) /\ GoodPages(RT!PageReloads(k), db)
        BY <2>3, EventsPageReloads DEF RT!Resync
      <3> QED
        BY <3>1, EventsLoses
    <2>4. CASE RT!Forward(k) /\ c.peer
      <3> PICK p \in Page : p = c.page
        BY <1>2, <2>4
      <3> PICK v : v = c.inbox
        OBVIOUS
      <3>1. v \in 0 .. db /\ v \in Nat
        BY <1>2 DEF GoodSock, RT!Sockets
      <3> PICK pages : pages = RT!Reload(p, page)
        OBVIOUS
      <3>2. GoodPages(pages, db) /\ pages[p] \in RT!Pages /\ GoodPage(p, page[p], db)
            /\ page \in [Page -> RT!Pages]
        BY <1>2, EventsReloads DEF GoodPages
      <3> PICK h : h = [pages[p] EXCEPT !.heard = v]
        OBVIOUS
      <3>3. GoodPage(p, h, db)
        <4>1. CASE p \in Listener
          <5>1. GoodPage(p, pages[p], db)
            BY <3>2 DEF GoodPages
          <5> PICK w : w = pages[p]
            OBVIOUS
          <5>3. w \in RT!Pages /\ h = [w EXCEPT !.heard = v]
            BY <3>2
          <5>2. h \in RT!Pages /\ h.began = w.began /\ h.shown = w.shown /\ h.heard = v
            BY <3>1, <5>3 DEF RT!Pages
          <5> QED
            BY <1>2, <3>1, <4>1, <5>1, <5>2 DEF GoodPage
        <4>2. CASE p \notin Listener
          <5>1. pages[p] = RT!WantReload(page[p])
            BY <3>2, <4>2 DEF RT!Reload
          <5> QED
            BY <1>2, <3>1, <3>2, <5>1, EventsReload
        <4> QED
          BY <4>1, <4>2
      <3>4. page' = [pages EXCEPT ![p] = h]
        BY <2>4 DEF RT!Forward, RT!PageReloads
      <3>5. GoodPages([pages EXCEPT ![p] = h], db)
        BY <1>2, <3>2, <3>3, EventsPage
      <3> QED
        BY <3>4, <3>5
    <2>5. CASE RT!Subscribe(k) \/ (RT!Forward(k) /\ ~c.peer)
      BY <1>2, <2>5 DEF RT!Subscribe, RT!Forward
    <2> QED
      BY <2>1, <2>2, <2>3, <2>4, <2>5 DEF RT!Serve
  <1>4. /\ sock' \in [Sock -> RT!Sockets] /\ \A j \in Sock : GoodSock(sock'[j], db)
        /\ slots' \in Nat /\ slots' = Cardinality(Holding') /\ slots' <= PerUser
    <2>1. ASSUME NEW d, d \in RT!Sockets, d.inbox <= db, d.peer = c.peer, d.page = c.page,
                 sock' = [sock EXCEPT ![k] = d],
                 \/ slots' = slots /\ (Holds(d) <=> Holds(c))
                 \/ slots' = slots + 1 /\ slots < PerUser /\ Holds(d) /\ ~Holds(c)
          PROVE  /\ sock' \in [Sock -> RT!Sockets] /\ \A j \in Sock : GoodSock(sock'[j], db)
                 /\ slots' \in Nat /\ slots' = Cardinality(Holding') /\ slots' <= PerUser
      <3>1. GoodSock(d, db)
        BY <1>2, <2>1 DEF GoodSock
      <3> QED
        BY <2>1, <3>1, EventsGoesOn
    <2>2. CASE RT!Accept(k) \/ RT!Subscribe(k)
      <3>1. PICK at \in {"accepted", "streaming"} :
              /\ sock' = [sock EXCEPT ![k] = [c EXCEPT !.at = at]]
              /\ \/ slots' = slots /\ c.at = "accepted"
                 \/ slots' = slots + 1 /\ slots < PerUser /\ c.at = "authenticated"
        BY <2>2 DEF RT!Accept, RT!Subscribe
      <3> PICK d : d = [c EXCEPT !.at = at]
        OBVIOUS
      <3>2. d \in RT!Sockets /\ d.inbox = c.inbox /\ d.peer = c.peer /\ d.page = c.page /\ d.at = at
        BY <1>2 DEF RT!Sockets
      <3> QED
        BY <1>2, <2>1, <3>1, <3>2 DEF GoodSock, Holds
    <2>3. CASE RT!Forward(k) /\ c.peer
      <3> PICK d : d = [c EXCEPT !.inbox = 0]
        OBVIOUS
      <3>1. d \in RT!Sockets /\ d.inbox = 0 /\ d.peer = c.peer /\ d.page = c.page /\ d.at = c.at
        BY <1>2 DEF RT!Sockets
      <3>2. sock' = [sock EXCEPT ![k] = d] /\ slots' = slots
        BY <2>3 DEF RT!Forward
      <3>3. d.inbox <= db /\ (Holds(d) <=> Holds(c))
        BY <1>2, <3>1 DEF Holds
      <3> QED
        BY <2>1, <3>1, <3>2, <3>3
    <2>4. CASE RT!TooMany(k) \/ RT!Heartbeat(k) \/ RT!Resync(k) \/ (RT!Forward(k) /\ ~c.peer)
      <3>1. RT!Free(k) /\ IF Holds(sock[k]) THEN slots' = slots - 1 ELSE slots' = slots
        BY <2>4 DEF RT!TooMany, RT!Heartbeat, RT!Resync, RT!Forward, RT!Refused, RT!Release, Holds
      <3> QED
        BY <3>1, EventsEnds
    <2> QED
      BY <2>2, <2>3, <2>4 DEF RT!Serve
  <1> QED
    BY <1>1, <1>3, <1>4, EventsKnown, EventsParts

\* A change is committed and announced; sessions end, Redis goes and comes back.
LEMMA EventsWorld ==
  ASSUME RT!Parameters, RT!RealtimeInv,
         RT!Change \/ RT!OthersChange \/ RT!EndSession \/ RT!RedisFails \/ RT!RedisBack
  PROVE  RT!RealtimeInv'
  <1>1. UNCHANGED <<slots, page>>
    BY DEF RT!Change, RT!OthersChange, RT!EndSession, RT!RedisFails, RT!RedisBack
  <1>2. /\ session' \in {"valid", "ended"} /\ redis' \in BOOLEAN
    BY EventsKnown DEF RT!Change, RT!OthersChange, RT!EndSession, RT!RedisFails, RT!RedisBack
  <1>3. db' \in 1 .. MaxChanges + 1 /\ db <= db' /\ db \in Nat /\ db' \in Nat
    BY EventsKnown DEF RT!Change, RT!OthersChange, RT!EndSession, RT!RedisFails, RT!RedisBack
  <1>4. others' \in 0 .. MaxOthers
    BY EventsKnown DEF RT!Change, RT!OthersChange, RT!EndSession, RT!RedisFails, RT!RedisBack
  <1>5. sock' = sock \/ sock' = RT!Publish(db')
    BY DEF RT!Change, RT!OthersChange, RT!EndSession, RT!RedisFails, RT!RedisBack
  <1>6. ASSUME NEW k \in Sock
        PROVE  GoodSock(sock'[k], db') /\ sock'[k] \in RT!Sockets /\ (Holds(sock'[k]) <=> Holds(sock[k]))
    <2> PICK c : c = sock[k]
      OBVIOUS
    <2> PICK d : d = sock'[k]
      OBVIOUS
    <2>1. GoodSock(c, db) /\ c \in RT!Sockets /\ c.inbox \in Nat
      BY EventsKnown DEF GoodSock, RT!Sockets
    <2>2. d = c \/ d = [c EXCEPT !.inbox = db']
      BY <1>5 DEF RT!Publish
    <2>3. /\ d \in RT!Sockets /\ d.at = c.at /\ d.peer = c.peer /\ d.page = c.page
          /\ d.inbox = c.inbox \/ d.inbox = db'
      BY <1>3, <2>1, <2>2 DEF RT!Sockets
    <2>4. d.inbox <= db'
      BY <1>3, <2>1, <2>3 DEF GoodSock
    <2> QED
      BY <2>1, <2>3, <2>4 DEF GoodSock, Holds
  <1>7. sock' \in [Sock -> RT!Sockets]
    BY <1>5, <1>6, EventsKnown DEF RT!Publish
  <1>8. slots' \in Nat /\ slots' = Cardinality(Holding') /\ slots' <= PerUser
    BY <1>1, <1>6, EventsSameSlots
  <1>9. GoodPages(page', db')
    <2>1. GoodPages(page, db)
      BY EventsKnown
    <2>2. ASSUME NEW p \in Page PROVE GoodPage(p, page'[p], db')
      BY <1>1, <1>3, <2>1 DEF GoodPages, GoodPage, RT!Pages
    <2> QED
      BY <1>1, <2>1, <2>2 DEF GoodPages
  <1> QED
    BY <1>2, <1>3, <1>4, <1>6, <1>7, <1>8, <1>9, EventsParts

\* At first nothing is connected.
LEMMA EventsInit == ASSUME RT!Parameters, RT!Init PROVE RT!RealtimeInv
  <1>1. /\ MaxChanges \in Nat /\ MaxOthers \in Nat /\ PerUser \in Nat
    BY DEF RT!Parameters
  <1>2. /\ session = "valid" /\ redis \in BOOLEAN /\ db = 1 /\ slots = 0 /\ others = MaxOthers
    BY DEF RT!Init
  <1>3. /\ sock \in [Sock -> RT!Sockets]
        /\ \A k \in Sock : sock[k].at = "free" /\ ~sock[k].peer /\ sock[k].inbox = 0
    BY DEF RT!Init, RT!NoSock, RT!Sockets
  <1>4. ASSUME NEW p \in Page
        PROVE  /\ page[p] \in RT!Pages /\ page[p].began = 0 /\ page[p].shown = 0 /\ page[p].heard = 0
               /\ ~page[p].queued
    BY DEF RT!Init, RT!NewPage, RT!Pages
  <1>5. page \in [Page -> RT!Pages]
    BY <1>4 DEF RT!Init
  <1>6. \A p \in Page : RT!Asked(page[p])
    BY <1>4 DEF RT!Asked
  <1>7. Holding = {}
    BY <1>3 DEF Holding, Holds
  <1>8. RT!SlotsCounted
    BY <1>1, <1>2, <1>7, EventsSlots, FS_EmptySet
  <1>9. RT!TypeOK
    BY <1>1, <1>2, <1>3, <1>4 DEF RT!TypeOK
  <1> QED
    BY <1>2, <1>3, <1>4, <1>5, <1>6, <1>8, <1>9 DEF RT!RealtimeInv

\* Every step keeps the invariant.
LEMMA EventsKept ==
  ASSUME RT!Parameters, RT!RealtimeInv, [RT!Next]_RT!vars
  PROVE  RT!RealtimeInv'
  <1>1. CASE RT!Next
    BY <1>1, EventsPages, EventsServed, EventsWorld DEF RT!Next
  <1>2. CASE UNCHANGED RT!vars
    <2>1. UNCHANGED <<session, redis, db, sock, others, slots, page>>
      BY <1>2 DEF RT!vars
    <2> QED
      BY <2>1, EventsKnown, EventsSameSlots, EventsParts
  <1> QED
    BY <1>1, <1>2

\* The limiter's count is the number of sockets that hold a slot, and never above the maximum,
\* whatever way each socket ended (get_realtime_connection, acquire and release).
THEOREM SocketsCounted == ASSUME RT!Parameters PROVE RT!Spec => [](RT!TypeOK /\ RT!SlotsCounted)
  <1>1. RT!Init => RT!RealtimeInv
    BY EventsInit
  <1>2. RT!RealtimeInv /\ [RT!Next]_RT!vars => RT!RealtimeInv'
    BY EventsKept
  <1>3. RT!RealtimeInv => RT!TypeOK /\ RT!SlotsCounted
    BY DEF RT!RealtimeInv
  <1> QED
    BY <1>1, <1>2, <1>3, PTL DEF RT!Spec

\* A page that is not reloading shows every change it has heard of (refreshFromEvent), for any
\* pages, sockets, losses and changes.
THEOREM EventsShown == ASSUME RT!Parameters PROVE RT!Spec => []RT!HeardIsShown
  <1>1. RT!Init => RT!RealtimeInv
    BY EventsInit
  <1>2. RT!RealtimeInv /\ [RT!Next]_RT!vars => RT!RealtimeInv'
    BY EventsKept
  <1>3. RT!RealtimeInv => RT!HeardIsShown
    BY DEF RT!RealtimeInv, RT!HeardIsShown, RT!Asked
  <1> QED
    BY <1>1, <1>2, <1>3, PTL DEF RT!Spec
=============================================================================
