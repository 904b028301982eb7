--------------------------- MODULE JobQueueProofs ---------------------------
(* Proofs about the job queue, for any number of jobs, workers and slots   *)
(* and any admissible worker configuration.                                *)
EXTENDS JobQueue, TLAPS

-----------------------------------------------------------------------------
(* Row transformations                                                     *)

\* _release_claim clears the claim and nothing else.
LEMMA ReleasedRow ==
    ASSUME NEW r \in Row
    PROVE  /\ Released(r) \in Row
           /\ Released(r).claimed_by = NoWorker
           /\ Released(r).claim = 0
           /\ Released(r).timeout = 0
           /\ Released(r).state = r.state
           /\ Released(r).attempt_count = r.attempt_count
           /\ Released(r).last_error = r.last_error
           /\ Released(r).cancel = r.cancel
  BY DEF Released, Row

\* _finish keeps a row well formed.
LEMMA FinishedRow ==
    ASSUME NEW r \in Row, NEW f \in Nat, NEW m \in Nat \ {0},
           NEW final \in Terminal,
           final = "FAILED" => r.last_error = "permanent" \/ f = m
    PROVE  /\ Finished(r, final) \in Row
           /\ RowOK(Finished(r, final), f, m)
           /\ Finished(r, final).state = final
           /\ Finished(r, final).cancel = r.cancel
  <1>1. /\ Finished(r, final) \in Row
        /\ Finished(r, final).state = final
        /\ Finished(r, final).cancel = r.cancel
    BY ReleasedRow DEF Finished, Row, States, Terminal
  <1>2. QED
    BY <1>1, ReleasedRow DEF Finished, Row, RowOK, States, Terminal, Active

\* A requeued row has the attempts it had, and must have one left.
LEMMA RequeuedRow ==
    ASSUME NEW r \in Row, NEW f \in Nat, NEW m \in Nat \ {0}, NEW d \in Nat,
           r.attempt_count = f, f < m
    PROVE  /\ Requeued(r, d) \in Row
           /\ RowOK(Requeued(r, d), f, m)
           /\ Requeued(r, d).state = "QUEUED"
           /\ Requeued(r, d).attempt_count = r.attempt_count
  <1>1. /\ Requeued(r, d) \in Row
        /\ Requeued(r, d).state = "QUEUED"
        /\ Requeued(r, d).attempt_count = r.attempt_count
    BY ReleasedRow DEF Requeued, Row, States, Active
  <1>2. QED
    BY <1>1, ReleasedRow DEF Requeued, Row, RowOK, States, Terminal, Active

\* retry_torrent_job: FAILED once the attempts are used up, QUEUED otherwise.
LEMMA RetriedRow ==
    ASSUME NEW r \in Row, NEW f \in Nat, NEW m \in Nat \ {0}, NEW d \in Nat,
           NEW e \in Errors, r.attempt_count = f, f <= m
    PROVE  /\ Retried(r, m, d, e) \in Row
           /\ RowOK(Retried(r, m, d, e), f, m)
           /\ Retried(r, m, d, e).state \in {"QUEUED", "FAILED"}
           /\ Retried(r, m, d, e).state = "QUEUED" =>
                 Retried(r, m, d, e).attempt_count = r.attempt_count
  <1> DEFINE x == [r EXCEPT !.last_error = e]
  <1>1. x \in Row /\ x.attempt_count = f
    BY DEF Row
  <1>2. CASE r.attempt_count >= m
    <2>1. f = m  BY <1>2
    <2>2. Retried(r, m, d, e) = Finished(x, "FAILED")  BY <1>2 DEF Retried
    <2> HIDE DEF x
    <2>3. QED  BY <1>1, <2>1, <2>2, FinishedRow DEF Terminal
  <1>3. CASE ~(r.attempt_count >= m)
    <2>1. f < m  BY <1>3
    <2>2. Retried(r, m, d, e) = Requeued(x, d)  BY <1>3 DEF Retried
    <2> HIDE DEF x
    <2>3. QED  BY <1>1, <2>1, <2>2, RequeuedRow
  <1>4. QED  BY <1>2, <1>3

\* recover_expired_torrent_jobs charges the abandoned execution.
LEMMA RecoveredRow ==
    ASSUME NEW r \in Row, NEW f \in Nat, NEW m \in Nat \ {0},
           RowOK(r, f, m), r.state = "RUNNING"
    PROVE  /\ Recovered(r, m) \in Row
           /\ RowOK(Recovered(r, m), f + 1, m)
           /\ Recovered(r, m).state \in {"QUEUED", "FAILED", "CANCELLED"}
           /\ Recovered(r, m).state = "QUEUED" =>
                 Recovered(r, m).attempt_count = r.attempt_count
           /\ r.cancel => Recovered(r, m).state = "CANCELLED"
  <1> DEFINE x == [r EXCEPT !.last_error = IF r.timeout = 0 THEN "execution_timeout"
                                           ELSE "claim_expired"]
  <1>1. x \in Row /\ x.attempt_count = f + 1 /\ r.attempt_count = f + 1 /\ f + 1 <= m
    BY DEF Row, Errors, RowOK
  <1>2. CASE r.cancel
    <2>1. Recovered(r, m) = Finished(x, "CANCELLED")  BY <1>2 DEF Recovered
    <2> HIDE DEF x
    <2>2. QED  BY <1>1, <2>1, FinishedRow DEF Terminal
  <1>3. CASE ~r.cancel /\ r.attempt_count >= m
    <2>1. Recovered(r, m) = Finished(x, "FAILED")  BY <1>3 DEF Recovered
    <2> HIDE DEF x
    <2>2. QED  BY <1>1, <1>3, <2>1, FinishedRow DEF Terminal
  <1>4. CASE ~r.cancel /\ ~(r.attempt_count >= m)
    <2>1. Recovered(r, m) = Requeued(x, RecoveryDelay)  BY <1>4 DEF Recovered
    <2> HIDE DEF x
    <2>2. QED  BY <1>1, <1>4, <2>1, RequeuedRow, ConfigAssumption
  <1>5. QED  BY <1>2, <1>3, <1>4

-----------------------------------------------------------------------------
(* The inductive invariant                                                 *)

\* A step that changes one row and frees slots keeps the tokens of the other
\* jobs in order.
LEMMA TokenStep ==
    ASSUME IInv, NEW j \in Job,
           \A k \in Job \ {j} : job'[k] = job[k],
           \A s \in Slot : exec'[s] = exec[s] \/ exec'[s] = Idle,
           TokenOK(j)'
    PROVE  \A k \in Job : TokenOK(k)'
  BY QueueAssumption DEF IInv, TokenOK, Executes, Idle

\* A step that changes one row keeps the rows well formed.
LEMMA RowStep ==
    ASSUME IInv, NEW j \in Job, NEW r \in Row, NEW f \in Nat,
           RowOK(r, f, MaxAttempts[j]),
           job' = [job EXCEPT ![j] = r],
           failures' = [failures EXCEPT ![j] = f],
           exec' \in [Slot -> Snapshot]
    PROVE  /\ TypeOK'
           /\ \A k \in Job : RowOK(job[k], failures[k], MaxAttempts[k])'
           /\ job'[j] = r
           /\ \A k \in Job \ {j} : job'[k] = job[k]
  BY DEF IInv, TypeOK

LEMMA InitIInv == Init => IInv
  BY QueueAssumption
  DEF Init, IInv, TypeOK, AbsentRow, Idle, Row, Snapshot, States, Active, Terminal,
      Errors, RowOK, TokenOK, Executes

\* An execution that owns its job and ends gives up its slot; the others hold
\* smaller attempt numbers.
LEMMA OwnerEnds ==
    ASSUME IInv, NEW s \in Slot, Owned(s),
           exec' = [exec EXCEPT ![s] = Idle]
    PROVE  /\ exec[s].id \in Job
           /\ exec' \in [Slot -> Snapshot]
           /\ \A t \in Slot : exec'[t] = exec[t] \/ exec'[t] = Idle
           /\ \A t \in Slot : exec'[t].id = exec[s].id =>
                 exec'[t].attempt_count < job[exec[s].id].attempt_count
  <1>1. exec[s].id \in Job /\ exec' \in [Slot -> Snapshot]
    BY DEF Owned, IInv, TypeOK, Snapshot, Idle
  <1>2. \A t \in Slot : exec'[t] = exec[t] \/ exec'[t] = Idle
    BY DEF IInv, TypeOK
  <1>3. ASSUME NEW t \in Slot, exec'[t].id = exec[s].id
        PROVE  exec'[t].attempt_count < job[exec[s].id].attempt_count
    <2>1. t # s
      BY <1>1, <1>3, QueueAssumption DEF IInv, TypeOK, Idle
    <2>2. exec'[t] = exec[t]
      BY <2>1 DEF IInv, TypeOK
    <2>3. TokenOK(exec[s].id) /\ job[exec[s].id].state = "RUNNING"
      BY <1>1 DEF IInv, Owned
    <2>4. /\ exec[t].attempt_count <= job[exec[s].id].attempt_count
          /\ exec[t].attempt_count # job[exec[s].id].attempt_count
      BY <1>3, <2>1, <2>2, <2>3 DEF TokenOK, Executes, Owned, Active
    <2>5. job[exec[s].id].attempt_count \in Nat /\ exec[t].attempt_count \in Nat
      BY <1>1 DEF IInv, TypeOK, Row, Snapshot
    <2>6. QED  BY <2>2, <2>4, <2>5
  <1>4. QED  BY <1>1, <1>2, <1>3

\* The steps that end an owned execution: the new row is terminal, or QUEUED
\* with at most one attempt given back.
LEMMA EndStep ==
    ASSUME IInv, NEW s \in Slot, Owned(s), NEW r \in Row, NEW f \in Nat,
           NEW j \in Job, j = exec[s].id,
           exec' = [exec EXCEPT ![s] = Idle],
           job' = [job EXCEPT ![j] = r],
           failures' = [failures EXCEPT ![j] = f],
           RowOK(r, f, MaxAttempts[j]),
           \/ r.state \in Terminal
           \/ r.state = "QUEUED" /\ r.attempt_count >= job[j].attempt_count - 1
    PROVE  IInv'
  <1>1. exec' \in [Slot -> Snapshot]
    BY OwnerEnds
  <1>2. /\ TypeOK'
        /\ \A k \in Job : RowOK(job[k], failures[k], MaxAttempts[k])'
        /\ job'[j] = r
        /\ \A k \in Job \ {j} : job'[k] = job[k]
    BY <1>1, RowStep
  <1>3. TokenOK(j)'
    <2>1. CASE r.state \in Terminal
      BY <1>2, <2>1 DEF TokenOK, Terminal, Active
    <2>2. CASE r.state = "QUEUED" /\ r.attempt_count >= job[j].attempt_count - 1
      <3>1. r.attempt_count \in Nat /\ job[j].attempt_count \in Nat
        BY <1>1 DEF IInv, TypeOK, Row
      <3>2. ASSUME NEW t \in Slot, exec'[t].id = j
            PROVE  exec'[t].attempt_count <= job'[j].attempt_count
        <4>1. exec'[t].attempt_count < job[j].attempt_count
          BY <3>2, OwnerEnds
        <4>2. exec'[t].attempt_count \in Nat
          BY <1>1 DEF Snapshot
        <4>3. QED  BY <1>2, <2>2, <3>1, <4>1, <4>2
      <3>3. QED  BY <1>2, <2>2, <3>2 DEF TokenOK, Executes, Active
    <2>3. QED  BY <2>1, <2>2
  <1>4. \A k \in Job : TokenOK(k)'
    <2>1. \A t \in Slot : exec'[t] = exec[t] \/ exec'[t] = Idle
      BY OwnerEnds
    <2>2. QED  BY <1>1, <1>2, <1>3, <2>1, TokenStep
  <1>5. QED  BY <1>2, <1>4 DEF IInv

-----------------------------------------------------------------------------
(* One lemma per group of actions                                          *)

\* A fresh row enters the queue: no execution can hold a token for it.
LEMMA EnqueueStep ==
    ASSUME IInv, NEW j \in Job, NEW d \in Nat, Enqueue(j, d)
    PROVE  IInv'
  <1> DEFINE r == Requeued(job[j], d)
  <1>1. r \in Row /\ r.state = "QUEUED" /\ RowOK(r, failures[j], MaxAttempts[j])
    <2>1. /\ job[j] \in Row /\ failures[j] \in Nat /\ MaxAttempts[j] \in Nat \ {0}
          /\ job[j].attempt_count = failures[j] /\ failures[j] < MaxAttempts[j]
      <3>1. RowOK(job[j], failures[j], MaxAttempts[j]) /\ job[j].state = "NONE"
        BY DEF Enqueue, IInv
      <3>2. job[j] \in Row /\ failures[j] \in Nat /\ MaxAttempts[j] \in Nat \ {0}
        BY QueueAssumption DEF IInv, TypeOK
      <3>3. QED  BY <3>1, <3>2 DEF RowOK
    <2>2. QED  BY <2>1, RequeuedRow
  <1>2. /\ job' = [job EXCEPT ![j] = r]
        /\ failures' = [failures EXCEPT ![j] = failures[j]]
        /\ exec' = exec
    BY DEF Enqueue, IInv, TypeOK
  <1>3. exec' \in [Slot -> Snapshot] /\ failures[j] \in Nat
    BY <1>2 DEF IInv, TypeOK
  <1> HIDE DEF r
  <1>4. /\ TypeOK'
        /\ \A k \in Job : RowOK(job[k], failures[k], MaxAttempts[k])'
        /\ job'[j] = r
        /\ \A k \in Job \ {j} : job'[k] = job[k]
    BY <1>1, <1>2, <1>3, RowStep
  <1>5. TokenOK(j)'
    BY <1>1, <1>2, <1>4 DEF IInv, TokenOK, Executes, Enqueue
  <1>6. QED
    BY <1>2, <1>4, <1>5, TokenStep DEF IInv

\* The row of a fresh claim.
LEMMA HeldRow ==
    ASSUME NEW r \in Row, NEW w \in Worker
    PROVE  /\ Held(r, w) \in Row
           /\ Held(r, w).attempt_count = r.attempt_count
           /\ Held(r, w).claim = ClaimTTL
           /\ Held(r, w).timeout = ExecutionTimeout
  BY ConfigAssumption DEF Held, Row

LEMMA ClaimedRow ==
    ASSUME NEW r \in Row, NEW w \in Worker, NEW n \in Nat
    PROVE  /\ Claimed(r, w, n) \in Row
           /\ Claimed(r, w, n).state = "RUNNING"
           /\ Claimed(r, w, n).attempt_count = n
           /\ Claimed(r, w, n).claim = ClaimTTL
           /\ Claimed(r, w, n).timeout = ExecutionTimeout
  BY HeldRow DEF Claimed, Row, States, Active

\* A claim takes the next attempt number, above every number held for the job.
LEMMA ClaimStep ==
    ASSUME IInv, NEW s \in Slot, NEW j \in Job, Claim(s, j)
    PROVE  IInv'
  <1> DEFINE r == Claimed(job[j], WorkerOf[s], job[j].attempt_count + 1)
             e == [id |-> j, attempt_count |-> job[j].attempt_count + 1]
  <1>1. /\ job[j] \in Row /\ job[j].state = "QUEUED"
        /\ job[j].attempt_count \in Nat
        /\ RowOK(job[j], failures[j], MaxAttempts[j])
        /\ failures[j] \in Nat /\ MaxAttempts[j] \in Nat
        /\ job[j].attempt_count < MaxAttempts[j]
    BY QueueAssumption DEF Claim, Claimable, IInv, TypeOK, Row
  <1>2. /\ r \in Row /\ r.state = "RUNNING"
        /\ r.attempt_count = job[j].attempt_count + 1
        /\ r.claim = ClaimTTL /\ r.timeout = ExecutionTimeout
    <2>1. WorkerOf[s] \in Worker /\ job[j].attempt_count + 1 \in Nat
      BY <1>1, QueueAssumption
    <2>2. QED  BY <1>1, <2>1, ClaimedRow
  <1>3. RowOK(r, failures[j], MaxAttempts[j])
    BY <1>1, <1>2, ConfigAssumption DEF RowOK
  <1>4. /\ job' = [job EXCEPT ![j] = r]
        /\ failures' = [failures EXCEPT ![j] = failures[j]]
        /\ exec' = [exec EXCEPT ![s] = e]
    BY DEF Claim, IInv, TypeOK
  <1>5. e \in Snapshot /\ e.id = j /\ e.attempt_count = job[j].attempt_count + 1
    BY <1>1 DEF Snapshot
  <1>6. exec[s] = Idle  BY DEF Claim
  <1> HIDE DEF r, e
  <1>7. /\ exec' \in [Slot -> Snapshot] /\ exec'[s] = e
        /\ \A t \in Slot \ {s} : exec'[t] = exec[t]
    BY <1>4, <1>5 DEF IInv, TypeOK
  <1>8. /\ TypeOK'
        /\ \A k \in Job : RowOK(job[k], failures[k], MaxAttempts[k])'
        /\ job'[j] = r
        /\ \A k \in Job \ {j} : job'[k] = job[k]
    BY <1>1, <1>2, <1>3, <1>4, <1>7, RowStep
  <1>9. \A t \in Slot \ {s} : exec'[t].id = j =>
           exec'[t].attempt_count \in Nat /\ exec'[t].attempt_count <= job[j].attempt_count
    BY <1>1, <1>7 DEF IInv, TypeOK, Snapshot, TokenOK, Executes, Active
  <1>10. TokenOK(j)'
    BY <1>1, <1>2, <1>5, <1>7, <1>8, <1>9 DEF TokenOK, Executes, Active
  <1>11. ASSUME NEW k \in Job \ {j}  PROVE TokenOK(k)'
    BY <1>5, <1>7, <1>8 DEF IInv, TokenOK, Executes
  <1>12. QED
    BY <1>8, <1>10, <1>11 DEF IInv

\* Steps that keep every row's state and attempts and may free slots.
LEMMA QuietStep ==
    ASSUME IInv, job' \in [Job -> Row], exec' \in [Slot -> Snapshot], failures' = failures,
           \A s \in Slot : exec'[s] = exec[s] \/ exec'[s] = Idle,
           \A j \in Job : /\ job'[j].state = job[j].state
                          /\ job'[j].attempt_count = job[j].attempt_count
                          /\ job'[j].claimed_by = job[j].claimed_by
                          /\ job'[j].last_error = job[j].last_error
                          /\ job'[j].claim <= job'[j].timeout
                          /\ job[j].timeout = 0 => job'[j].timeout = 0
    PROVE  IInv'
  <1>1. TypeOK'
    BY DEF IInv, TypeOK
  <1>2. \A j \in Job : RowOK(job[j], failures[j], MaxAttempts[j])'
    BY DEF IInv, RowOK
  <1>3. \A j \in Job : TokenOK(j)'
    BY QueueAssumption DEF IInv, TokenOK, Executes, Idle
  <1>4. QED  BY <1>1, <1>2, <1>3 DEF IInv


\* The four ways an owned execution ends.
LEMMA FinishStep ==
    ASSUME IInv, NEW s \in Slot, NEW d \in Nat,
           \/ FinishSuccess(s) \/ FinishPermanent(s)
           \/ FinishTransient(s, d) \/ FinishWaiting(s, d)
    PROVE  IInv'
  <1>1. Owned(s) /\ exec[s].id \in Job /\ exec' = [exec EXCEPT ![s] = Idle]
    BY DEF FinishSuccess, FinishPermanent, FinishTransient, FinishWaiting, Owned,
           IInv, TypeOK, Snapshot
  <1>2. PICK j \in Job : j = exec[s].id
    BY <1>1
  <1> DEFINE r == job[j]  f == failures[j]  m == MaxAttempts[j]
  <1>3. r \in Row /\ f \in Nat /\ m \in Nat \ {0} /\ RowOK(r, f, m)
    BY QueueAssumption DEF IInv, TypeOK
  <1>4. r.state = "RUNNING" /\ r.attempt_count = f + 1 /\ f + 1 <= m
    BY <1>1, <1>2, <1>3 DEF Owned, RowOK
  <1>5. f + 1 \in Nat
    BY <1>3
  <1>6. CASE FinishSuccess(s)
    <2> DEFINE x == Finished(r, IF r.cancel THEN "CANCELLED" ELSE "COMPLETED")
    <2>1. x \in Row /\ RowOK(x, f, m) /\ x.state \in Terminal
      BY <1>3, FinishedRow DEF Terminal
    <2>2. job' = [job EXCEPT ![j] = x] /\ failures' = [failures EXCEPT ![j] = f]
      BY <1>2, <1>6 DEF FinishSuccess, IInv, TypeOK
    <2> HIDE DEF x
    <2>3. QED  BY <1>1, <1>2, <1>3, <2>1, <2>2, EndStep
  <1>7. CASE FinishPermanent(s)
    <2> DEFINE p == [r EXCEPT !.last_error = "permanent"]
               x == IF r.cancel THEN Finished(r, "CANCELLED") ELSE Finished(p, "FAILED")
    <2>1. p \in Row /\ p.last_error = "permanent"
      BY <1>3 DEF Row, Errors
    <2>2. job' = [job EXCEPT ![j] = x] /\ failures' = [failures EXCEPT ![j] = f + 1]
      BY <1>2, <1>7 DEF FinishPermanent
    <2> HIDE DEF p
    <2>3. x \in Row /\ RowOK(x, f + 1, m) /\ x.state \in Terminal
      BY <1>3, <1>5, <2>1, FinishedRow DEF Terminal
    <2> HIDE DEF x
    <2>4. QED  BY <1>1, <1>2, <1>5, <2>2, <2>3, EndStep
  <1>8. CASE FinishTransient(s, d)
    <2> DEFINE x == IF r.cancel THEN Finished(r, "CANCELLED")
                    ELSE Retried(r, m, d, "transient")
    <2>1. job' = [job EXCEPT ![j] = x] /\ failures' = [failures EXCEPT ![j] = f + 1]
      BY <1>2, <1>8 DEF FinishTransient
    <2>2. CASE r.cancel
      <3>1. x \in Row /\ RowOK(x, f + 1, m) /\ x.state \in Terminal
        BY <1>3, <1>5, <2>2, FinishedRow DEF Terminal
      <3> HIDE DEF x
      <3>2. QED  BY <1>1, <1>2, <1>5, <2>1, <3>1, EndStep
    <2>3. CASE ~r.cancel
      <3>1. /\ x \in Row /\ RowOK(x, f + 1, m)
            /\ x.state \in {"QUEUED", "FAILED"}
            /\ x.state = "QUEUED" => x.attempt_count = r.attempt_count
        <4>1. x = Retried(r, m, d, "transient") /\ "transient" \in Errors
          BY <2>3 DEF Errors
        <4> HIDE DEF x, r, f, m
        <4>2. QED  BY <1>3, <1>4, <1>5, <4>1, RetriedRow
      <3>2. x.state = "QUEUED" => x.attempt_count >= r.attempt_count - 1
        BY <1>3, <3>1 DEF Row
      <3> HIDE DEF x
      <3>3. QED  BY <1>1, <1>2, <1>5, <2>1, <3>1, <3>2, EndStep DEF Terminal
    <2>4. QED  BY <2>2, <2>3
  <1>9. CASE FinishWaiting(s, d)
    <2> DEFINE g == GivenBack(r)
               x == IF r.cancel THEN Finished(r, "CANCELLED")
                    ELSE Retried(g, m, d, "transient")
    <2>1. g \in Row /\ g.attempt_count = f
      <3>1. Dec(r.attempt_count) = f  BY <1>3, <1>4 DEF Dec
      <3>2. g = [r EXCEPT !.attempt_count = f]  BY <3>1 DEF GivenBack
      <3>3. QED  BY <1>3, <3>2 DEF Row
    <2>2. job' = [job EXCEPT ![j] = x] /\ failures' = [failures EXCEPT ![j] = f]
      BY <1>2, <1>9 DEF FinishWaiting, IInv, TypeOK
    <2> HIDE DEF g
    <2>3. CASE r.cancel
      <3>1. x \in Row /\ RowOK(x, f, m) /\ x.state \in Terminal
        BY <1>3, <2>3, FinishedRow DEF Terminal
      <3> HIDE DEF x
      <3>2. QED  BY <1>1, <1>2, <1>3, <2>2, <3>1, EndStep
    <2>4. CASE ~r.cancel
      <3>1. /\ x \in Row /\ RowOK(x, f, m)
            /\ x.state \in {"QUEUED", "FAILED"}
            /\ x.state = "QUEUED" => x.attempt_count = f
        <4>1. x = Retried(g, m, d, "transient") /\ "transient" \in Errors
          BY <2>4 DEF Errors
        <4>2. f <= m
          BY <1>3, <1>4
        <4> HIDE DEF x, r, f, m
        <4>3. QED  BY <1>3, <2>1, <4>1, <4>2, RetriedRow
      <3>2. x.state = "QUEUED" => x.attempt_count >= r.attempt_count - 1
        BY <1>3, <1>4, <3>1
      <3> HIDE DEF x
      <3>3. QED  BY <1>1, <1>2, <1>3, <2>2, <3>1, <3>2, EndStep DEF Terminal
    <2>5. QED  BY <2>3, <2>4
  <1>10. QED  BY <1>6, <1>7, <1>8, <1>9


\* Renewals, lost claims, crashes and time only touch deadlines and slots.
LEMMA DeadlineStep ==
    ASSUME IInv,
           \/ \E s \in Slot : Renew(s) \/ ClaimLost(s) \/ DatabaseUnavailable(s)
           \/ \E w \in Worker : Crash(w)
           \/ Tick
    PROVE  IInv'
  <1>1. ASSUME NEW s \in Slot, Renew(s)  PROVE IInv'
    <2>1. PICK j \in Job : j = exec[s].id
      BY <1>1 DEF Renew, Owned, IInv, TypeOK, Snapshot
    <2> DEFINE c == Lesser(ClaimTTL, job[j].timeout)
    <2>2. job[j] \in Row /\ c \in Nat /\ c <= job[j].timeout
      BY ConfigAssumption DEF IInv, TypeOK, Row, Lesser
    <2>3. job' = [job EXCEPT ![j] = [job[j] EXCEPT !.claim = c]]
      BY <1>1, <2>1 DEF Renew
    <2>4. failures' = failures /\ exec' = exec
      BY <1>1 DEF Renew
    <2> HIDE DEF c
    <2>5. job' \in [Job -> Row]
      BY <2>2, <2>3 DEF IInv, TypeOK, Row
    <2>6. \A k \in Job : /\ job'[k].state = job[k].state
                         /\ job'[k].attempt_count = job[k].attempt_count
                         /\ job'[k].claimed_by = job[k].claimed_by
                         /\ job'[k].last_error = job[k].last_error
                         /\ job'[k].claim <= job'[k].timeout
                         /\ job[k].timeout = 0 => job'[k].timeout = 0
      BY <2>2, <2>3 DEF IInv, TypeOK, Row, RowOK
    <2>7. QED
      BY <2>4, <2>5, <2>6, QuietStep DEF IInv, TypeOK
  <1>2. ASSUME exec' \in [Slot -> Snapshot], job' = job, failures' = failures,
               \A s \in Slot : exec'[s] = exec[s] \/ exec'[s] = Idle
        PROVE  IInv'
    <2>1. \A k \in Job : job[k].claim <= job[k].timeout
      BY DEF IInv, RowOK
    <2>2. QED
      BY <1>2, <2>1, QuietStep DEF IInv, TypeOK
  <1>3. Idle \in Snapshot
    BY DEF Idle, Snapshot
  <1>4. ASSUME NEW s \in Slot, ClaimLost(s) \/ DatabaseUnavailable(s)  PROVE IInv'
    BY <1>2, <1>3, <1>4 DEF ClaimLost, DatabaseUnavailable, IInv, TypeOK
  <1>5. ASSUME NEW w \in Worker, Crash(w)  PROVE IInv'
    BY <1>2, <1>3, <1>5 DEF Crash, IInv, TypeOK
  <1>6. CASE Tick
    <2>1. ASSUME NEW n \in Nat  PROVE Dec(n) \in Nat
      BY DEF Dec
    <2>2. ASSUME NEW a \in Nat, NEW b \in Nat, a <= b  PROVE Dec(a) <= Dec(b)
      BY <2>2 DEF Dec
    <2>3. ASSUME NEW k \in Job
          PROVE  /\ job'[k] \in Row
                 /\ job'[k].state = job[k].state
                 /\ job'[k].attempt_count = job[k].attempt_count
                 /\ job'[k].claimed_by = job[k].claimed_by
                 /\ job'[k].last_error = job[k].last_error
                 /\ job'[k].claim <= job'[k].timeout
                 /\ job[k].timeout = 0 => job'[k].timeout = 0
      <3> DEFINE c == Dec(job[k].claim)  t == Dec(job[k].timeout)
                 a == Dec(job[k].avail)  g == Lesser(job[k].age + 1, WaitingBudget)
      <3>1. job[k] \in Row /\ job[k].claim <= job[k].timeout
        BY DEF IInv, TypeOK, RowOK
      <3>2. /\ c \in Nat /\ t \in Nat /\ a \in Nat /\ c <= t
            /\ job[k].timeout = 0 => t = 0
        BY <2>1, <2>2, <3>1 DEF Row, Dec
      <3>3. g \in Nat
        BY <3>1, ConfigAssumption DEF Row, Lesser
      <3>4. job'[k] = IF job[k].state \in Active
                      THEN [job[k] EXCEPT !.claim = c, !.timeout = t, !.avail = a, !.age = g]
                      ELSE job[k]
        BY <1>6 DEF Tick
      <3> HIDE DEF c, t, a, g
      <3>5. CASE job[k].state \in Active
        <4> DEFINE x == [job[k] EXCEPT !.claim = c, !.timeout = t]
        <4>1. /\ x \in Row /\ x.claim = c /\ x.timeout = t
              /\ x.state = job[k].state /\ x.attempt_count = job[k].attempt_count
              /\ x.claimed_by = job[k].claimed_by /\ x.last_error = job[k].last_error
          BY <3>1, <3>2 DEF Row
        <4>2. job'[k] = [x EXCEPT !.avail = a, !.age = g]
          BY <3>4, <3>5
        <4> HIDE DEF x
        <4>3. QED  BY <3>2, <3>3, <4>1, <4>2 DEF Row
      <3>6. CASE job[k].state \notin Active
        BY <3>1, <3>4, <3>6
      <3>7. QED  BY <3>5, <3>6
    <2>4. job' \in [Job -> Row]
      BY <1>6, <2>3 DEF Tick
    <2>5. exec' = exec /\ failures' = failures
      BY <1>6 DEF Tick
    <2>6. QED
      BY <2>3, <2>4, <2>5, QuietStep DEF IInv, TypeOK
  <1>7. QED  BY <1>1, <1>4, <1>5, <1>6

\* Cancellation, reuse of a purge job and pruning change one row and no slot.
LEMMA RowOnlyStep ==
    ASSUME IInv, NEW j \in Job,
           RequestCancellation(j) \/ ReusePurgeJob(j) \/ Prune(j)
    PROVE  IInv'
  <1> DEFINE r == job[j]  f == failures[j]  m == MaxAttempts[j]
  <1>1. /\ r \in Row /\ f \in Nat /\ m \in Nat \ {0} /\ RowOK(r, f, m) /\ TokenOK(j)
        /\ exec \in [Slot -> Snapshot]
    BY QueueAssumption DEF IInv, TypeOK
  <1>2. exec' = exec /\ failures' = [failures EXCEPT ![j] = f]
    BY DEF RequestCancellation, ReusePurgeJob, Prune, IInv, TypeOK
  <1>3. ASSUME NEW x \in Row, RowOK(x, f, m), job' = [job EXCEPT ![j] = x],
               \/ x.state \in Terminal \cup {"PRUNED"}
               \/ x.state = r.state /\ x.attempt_count = r.attempt_count
        PROVE  IInv'
    <2>1. /\ TypeOK'
          /\ \A k \in Job : RowOK(job[k], failures[k], MaxAttempts[k])'
          /\ job'[j] = x
          /\ \A k \in Job \ {j} : job'[k] = job[k]
      BY <1>1, <1>2, <1>3, RowStep
    <2>2. TokenOK(j)'
      BY <1>1, <1>2, <1>3, <2>1 DEF TokenOK, Executes, Active, Terminal
    <2>3. QED
      BY <1>2, <2>1, <2>2, TokenStep DEF IInv
  <1>4. CASE RequestCancellation(j)
    <2> DEFINE y == [r EXCEPT !.cancel = TRUE]
    <2>1. y \in Row /\ y.state = r.state /\ y.attempt_count = r.attempt_count /\ RowOK(y, f, m)
      BY <1>1 DEF Row, RowOK
    <2>2. \/ job' = [job EXCEPT ![j] = Finished(y, "CANCELLED")]
          \/ job' = [job EXCEPT ![j] = y]
      BY <1>4 DEF RequestCancellation
    <2> HIDE DEF y
    <2>3. /\ Finished(y, "CANCELLED") \in Row /\ RowOK(Finished(y, "CANCELLED"), f, m)
          /\ Finished(y, "CANCELLED").state \in Terminal
      BY <1>1, <2>1, FinishedRow DEF Terminal
    <2>4. QED  BY <1>3, <2>1, <2>2, <2>3
  <1>5. CASE ReusePurgeJob(j)
    <2> DEFINE y == Reused(r)
    <2>1. job' = [job EXCEPT ![j] = y]
      BY <1>5 DEF ReusePurgeJob
    <2>2. y \in Row /\ y.state = r.state /\ y.attempt_count = r.attempt_count /\ RowOK(y, f, m)
      BY <1>1 DEF Reused, Row, RowOK
    <2> HIDE DEF y
    <2>3. QED  BY <1>3, <2>1, <2>2
  <1>6. CASE Prune(j)
    <2> DEFINE y == [r EXCEPT !.state = "PRUNED"]
    <2>1. job' = [job EXCEPT ![j] = y] /\ r.state \in Terminal
      BY <1>6 DEF Prune
    <2>2. /\ y \in Row /\ y.state = "PRUNED" /\ y.claim = r.claim
          /\ y.timeout = r.timeout /\ y.claimed_by = r.claimed_by
      BY <1>1 DEF Row, States, Active, Terminal
    <2>3. r.claim <= r.timeout /\ r.timeout = 0 /\ r.claimed_by = NoWorker
      BY <1>1, <2>1 DEF RowOK, Terminal
    <2>4. RowOK(y, f, m)
      BY <2>2, <2>3 DEF RowOK
    <2> HIDE DEF y
    <2>5. QED  BY <1>3, <2>1, <2>2, <2>4
  <1>7. QED  BY <1>4, <1>5, <1>6


\* Recovery changes every abandoned row at once and no slot.
LEMMA RecoverStep ==
    ASSUME IInv, RecoverExpired
    PROVE  IInv'
  <1>1. ASSUME NEW j \in Job
        PROVE  /\ job'[j] \in Row
               /\ failures'[j] \in Nat
               /\ RowOK(job'[j], failures'[j], MaxAttempts[j])
               /\ \/ job'[j] = job[j]
                  \/ job'[j].state \in {"FAILED", "CANCELLED"}
                  \/ /\ job[j].state = "RUNNING" /\ job'[j].state = "QUEUED"
                     /\ job'[j].attempt_count = job[j].attempt_count
    <2>1. job[j] \in Row /\ failures[j] \in Nat /\ MaxAttempts[j] \in Nat \ {0}
          /\ RowOK(job[j], failures[j], MaxAttempts[j])
      BY QueueAssumption DEF IInv, TypeOK
    <2>2. CASE j \in Expired
      <3>1. job'[j] = Recovered(job[j], MaxAttempts[j]) /\ failures'[j] = failures[j] + 1
        BY <2>2 DEF RecoverExpired
      <3>2. job[j].state = "RUNNING"
        BY <2>2 DEF Expired
      <3>3. failures[j] + 1 \in Nat
        BY <2>1
      <3>4. QED  BY <2>1, <3>1, <3>2, <3>3, RecoveredRow
    <2>3. CASE j \notin Expired
      BY <2>1, <2>3 DEF RecoverExpired
    <2>4. QED  BY <2>2, <2>3
  <1>2. TypeOK'
    BY <1>1 DEF RecoverExpired, IInv, TypeOK
  <1>3. \A j \in Job : RowOK(job[j], failures[j], MaxAttempts[j])'
    BY <1>1
  <1>4. ASSUME NEW j \in Job  PROVE TokenOK(j)'
    <2>1. TokenOK(j) /\ exec' = exec
      BY DEF IInv, RecoverExpired
    <2>2. QED
      BY <1>1, <2>1 DEF TokenOK, Executes, Active
  <1>5. QED  BY <1>2, <1>3, <1>4 DEF IInv

\* Every step of the queue keeps the inductive invariant.
LEMMA NextIInv == IInv /\ [Next]_vars => IInv'
  <1> SUFFICES ASSUME IInv, [Next]_vars  PROVE IInv'
    OBVIOUS
  <1>1. \A d \in RetryDelays : d \in Nat
    BY ConfigAssumption
  <1>2. ASSUME NEW j \in Job, NEW d \in RetryDelays, Enqueue(j, d)  PROVE IInv'
    BY <1>1, <1>2, EnqueueStep
  <1>3. ASSUME NEW s \in Slot, NEW j \in Job, Claim(s, j)  PROVE IInv'
    BY <1>3, ClaimStep
  <1>4. ASSUME NEW s \in Slot, Renew(s) \/ ClaimLost(s) \/ DatabaseUnavailable(s)
        PROVE  IInv'
    BY <1>4, DeadlineStep
  <1>5. ASSUME NEW s \in Slot, FinishSuccess(s) \/ FinishPermanent(s)  PROVE IInv'
    <2>1. 0 \in Nat  OBVIOUS
    <2>2. QED  BY <1>5, <2>1, FinishStep
  <1>6. ASSUME NEW s \in Slot, NEW d \in RetryDelays,
               FinishTransient(s, d) \/ FinishWaiting(s, d)
        PROVE  IInv'
    BY <1>1, <1>6, FinishStep
  <1>7. ASSUME NEW j \in Job, RequestCancellation(j) \/ ReusePurgeJob(j) \/ Prune(j)
        PROVE  IInv'
    BY <1>7, RowOnlyStep
  <1>8. CASE RecoverExpired
    BY <1>8, RecoverStep
  <1>9. ASSUME NEW w \in Worker, Crash(w)  PROVE IInv'
    BY <1>9, DeadlineStep
  <1>10. CASE Tick
    BY <1>10, DeadlineStep
  <1>11. CASE UNCHANGED vars
    BY <1>11 DEF vars, IInv, TypeOK, RowOK, TokenOK, Executes
  <1>12. QED
    BY <1>2, <1>3, <1>4, <1>5, <1>6, <1>7, <1>8, <1>9, <1>10, <1>11 DEF Next

-----------------------------------------------------------------------------
(* The theorems                                                            *)

\* The inductive invariant holds in every reachable state.
THEOREM QueueInvariant == Spec => []IInv
  <1>1. QED  BY InitIInv, NextIInv, PTL DEF Spec

\* Rows, snapshots and counters keep their types; in particular giving an
\* attempt back never makes attempt_count negative.
THEOREM QueueTypeOK == Spec => []TypeOK
  <1>1. IInv => TypeOK  BY DEF IInv
  <1>2. QED  BY <1>1, QueueInvariant, PTL

\* _owned_job lets at most one execution of a worker through per job, however
\* many workers, slots, retries, waits, recoveries and crashes there are.
THEOREM QueueFencing == Spec => []FencedOwnership
  <1>1. IInv => FencedOwnership
    <2> SUFFICES ASSUME IInv, NEW s \in Slot, NEW t \in Slot, Owned(s), Owned(t),
                        exec[s].id = exec[t].id
                 PROVE  s = t
      BY DEF FencedOwnership
    <2>1. exec[s].id \in Job /\ job[exec[s].id].state = "RUNNING"
      BY DEF IInv, TypeOK, Snapshot, Owned
    <2>2. TokenOK(exec[s].id)
      BY <2>1 DEF IInv
    <2>3. QED
      BY <2>1, <2>2 DEF TokenOK, Executes, Owned
  <1>2. QED  BY <1>1, QueueInvariant, PTL

\* Attempts are charged exactly for failures and abandoned executions, and a
\* job fails only permanently or with its whole budget used.
THEOREM QueueAttempts == Spec => []AttemptsCharged
  <1>1. IInv => AttemptsCharged
    BY DEF IInv, RowOK, AttemptsCharged
  <1>2. QED  BY <1>1, QueueInvariant, PTL

\* Renewals never carry a claim past the execution timeout.
THEOREM QueueClaims == Spec => []ClaimWithinTimeout
  <1>1. IInv => ClaimWithinTimeout
    BY DEF IInv, RowOK, ClaimWithinTimeout
  <1>2. QED  BY <1>1, QueueInvariant, PTL

-----------------------------------------------------------------------------
(* The queue implements JobPromise                                         *)

\* What one step may make of a row r with f failures: a row q with g, in the
\* terms of the rows.  Each disjunct is a step of JobPromise or a stutter.
Moves(j, r, f, q, g) ==
    \/ q = r /\ g = f
    \/ r.state \in Active /\ q.state \in Active /\ q.cancel = r.cancel /\ g = f
    \/ r.state = "NONE" /\ q.state = "QUEUED" /\ q.cancel = r.cancel /\ g = f
    \/ r.state = "RUNNING" /\ ~r.cancel /\ q.state = "COMPLETED" /\ g = f
    \/ r.state = "RUNNING" /\ ~r.cancel /\ q.state = "FAILED" /\ g = f + 1
    \/ /\ r.state = "RUNNING" /\ ~r.cancel /\ q.state = "QUEUED" /\ q.cancel = r.cancel
       /\ g = f + 1 /\ f + 1 < MaxAttempts[j]
    \/ r.state = "RUNNING" /\ ~r.cancel /\ q.state = "RUNNING" /\ q.cancel = TRUE /\ g = f
    \/ /\ r.state \in Active /\ Kind[j] = "PURGE_TORRENT"
       /\ q.state = r.state /\ q.cancel = FALSE /\ g = f
    \/ r.state \in Active /\ q.state = "CANCELLED" /\ g = f
    \/ r.state = "RUNNING" /\ r.cancel /\ q.state = "CANCELLED" /\ g = f + 1
    \/ r.state \in Terminal /\ Kind[j] # "ADD_TORRENT" /\ q.state = "PRUNED" /\ g = f

\* A row that was not inserted yet has no cancellation pending.
FreshRows == \A j \in Job : job[j].state = "NONE" => job[j].cancel = FALSE

\* Requeueing leaves the cancellation as it is.
LEMMA RequeuedMove ==
    ASSUME NEW r \in Row, NEW d \in Nat
    PROVE  Requeued(r, d).state = "QUEUED" /\ Requeued(r, d).cancel = r.cancel
  BY ReleasedRow DEF Requeued, Row, States, Active

\* _finish sets the state it is given.
LEMMA FinishedMove ==
    ASSUME NEW r \in Row, NEW final \in Terminal
    PROVE  Finished(r, final).state = final
  BY ReleasedRow DEF Finished, Row, States, Terminal

\* retry_torrent_job fails the job at its last attempt and queues it before.
LEMMA RetriedMove ==
    ASSUME NEW r \in Row, NEW m \in Nat, NEW d \in Nat, NEW e \in Errors
    PROVE  /\ r.attempt_count >= m => Retried(r, m, d, e).state = "FAILED"
           /\ ~(r.attempt_count >= m) => /\ Retried(r, m, d, e).state = "QUEUED"
                                         /\ Retried(r, m, d, e).cancel = r.cancel
  <1> DEFINE x == [r EXCEPT !.last_error = e]
  <1>1. x \in Row /\ x.cancel = r.cancel
    BY DEF Row
  <1>2. Retried(r, m, d, e) = IF r.attempt_count >= m THEN Finished(x, "FAILED")
                              ELSE Requeued(x, d)
    BY DEF Retried
  <1> HIDE DEF x
  <1>3. "FAILED" \in Terminal  BY DEF Terminal
  <1>4. QED  BY <1>1, <1>2, <1>3, FinishedMove, RequeuedMove

\* The steps of an execution on its row.
LEMMA FinishMoves ==
    ASSUME IInv, NEW s \in Slot, NEW d \in Nat, NEW j \in Job,
           \/ FinishSuccess(s) \/ FinishPermanent(s)
           \/ FinishTransient(s, d) \/ FinishWaiting(s, d)
    PROVE  Moves(j, job[j], failures[j], job'[j], failures'[j])
  <1> DEFINE k == exec[s].id
             r == job[k]
             m == MaxAttempts[k]
  <1>1. /\ k \in Job /\ r.state = "RUNNING"
        /\ job \in [Job -> Row] /\ failures \in [Job -> Nat]
    BY DEF FinishSuccess, FinishPermanent, FinishTransient, FinishWaiting,
           Owned, IInv, TypeOK, Snapshot
  <1>2. /\ r \in Row /\ failures[k] \in Nat /\ m \in Nat \ {0}
        /\ r.attempt_count = failures[k] + 1 /\ r.attempt_count <= m
    <2>1. r \in Row /\ failures[k] \in Nat /\ m \in Nat \ {0}
      BY <1>1, QueueAssumption
    <2>2. RowOK(r, failures[k], m)  BY <1>1 DEF IInv
    <2>3. QED  BY <1>1, <2>1, <2>2 DEF RowOK
  <1>3. CASE j # k
    BY <1>1, <1>3 DEF FinishSuccess, FinishPermanent, FinishTransient, FinishWaiting, Moves
  <1>4. ASSUME j = k, r.cancel  PROVE Moves(j, job[j], failures[j], job'[j], failures'[j])
    <2>1. job'[j] = Finished(r, "CANCELLED")
          /\ (failures'[j] = failures[j] \/ failures'[j] = failures[j] + 1)
      BY <1>1, <1>4 DEF FinishSuccess, FinishPermanent, FinishTransient, FinishWaiting
    <2>2. job'[j].state = "CANCELLED"
      BY <1>2, <2>1, FinishedMove DEF Terminal
    <2>3. QED  BY <1>1, <1>4, <2>1, <2>2 DEF Moves, Active
  <1>5. ASSUME j = k, ~r.cancel, FinishSuccess(s)
        PROVE  Moves(j, job[j], failures[j], job'[j], failures'[j])
    <2>1. job'[j] = Finished(r, "COMPLETED") /\ failures'[j] = failures[j]
      BY <1>1, <1>5 DEF FinishSuccess
    <2>2. job'[j].state = "COMPLETED"
      BY <1>2, <2>1, FinishedMove DEF Terminal
    <2>3. QED  BY <1>1, <1>5, <2>1, <2>2 DEF Moves
  <1>6. ASSUME j = k, ~r.cancel, FinishPermanent(s)
        PROVE  Moves(j, job[j], failures[j], job'[j], failures'[j])
    <2>1. job'[j] = Finished([r EXCEPT !.last_error = "permanent"], "FAILED")
          /\ failures'[j] = failures[j] + 1
      BY <1>1, <1>6 DEF FinishPermanent
    <2>2. [r EXCEPT !.last_error = "permanent"] \in Row
      BY <1>2 DEF Row, Errors
    <2>3. job'[j].state = "FAILED"
      BY <2>1, <2>2, FinishedMove DEF Terminal
    <2>4. QED  BY <1>1, <1>6, <2>1, <2>3 DEF Moves
  <1>7. ASSUME j = k, ~r.cancel, FinishTransient(s, d)
        PROVE  Moves(j, job[j], failures[j], job'[j], failures'[j])
    <2>1. job'[j] = Retried(r, m, d, "transient") /\ failures'[j] = failures[j] + 1
      BY <1>1, <1>7 DEF FinishTransient
    <2>2. "transient" \in Errors  BY DEF Errors
    <2>3. \/ job'[j].state = "FAILED"
          \/ /\ failures[j] + 1 < MaxAttempts[j]
             /\ job'[j].state = "QUEUED" /\ job'[j].cancel = r.cancel
      BY <1>2, <1>7, <2>1, <2>2, RetriedMove
    <2>4. QED  BY <1>1, <1>7, <2>1, <2>3 DEF Moves
  <1>8. ASSUME j = k, ~r.cancel, FinishWaiting(s, d)
        PROVE  Moves(j, job[j], failures[j], job'[j], failures'[j])
    <2>1. job'[j] = Retried(GivenBack(r), m, d, "transient") /\ failures'[j] = failures[j]
      BY <1>1, <1>8 DEF FinishWaiting
    <2>2. /\ GivenBack(r) \in Row /\ GivenBack(r).attempt_count = failures[k]
          /\ GivenBack(r).cancel = r.cancel
      BY <1>2 DEF GivenBack, Row, Dec
    <2>3. ~(GivenBack(r).attempt_count >= m) /\ "transient" \in Errors
      BY <1>2, <2>2 DEF Errors
    <2>4. job'[j].state = "QUEUED" /\ job'[j].cancel = r.cancel
      BY <1>2, <2>1, <2>2, <2>3, RetriedMove
    <2>5. QED  BY <1>1, <1>8, <2>1, <2>4 DEF Moves, Active
  <1>9. QED  BY <1>3, <1>4, <1>5, <1>6, <1>7, <1>8

\* Recovery strikes each abandoned job, or stops it when that was asked.
LEMMA RecoverMoves ==
    ASSUME IInv, RecoverExpired, NEW j \in Job
    PROVE  Moves(j, job[j], failures[j], job'[j], failures'[j])
  <1> DEFINE r == job[j]
             m == MaxAttempts[j]
             x == [r EXCEPT !.last_error = IF r.timeout = 0 THEN "execution_timeout"
                                           ELSE "claim_expired"]
  <1>1. CASE j \notin Expired
    BY <1>1 DEF RecoverExpired, Moves
  <1>2. CASE j \in Expired
    <2>1. /\ r \in Row /\ failures[j] \in Nat /\ m \in Nat \ {0} /\ r.state = "RUNNING"
          /\ RowOK(r, failures[j], m)
      BY <1>2, QueueAssumption DEF IInv, TypeOK, Expired
    <2>2. r.attempt_count = failures[j] + 1
      BY <2>1 DEF RowOK
    <2>3. job'[j] = Recovered(r, m) /\ failures'[j] = failures[j] + 1
      BY <1>2 DEF RecoverExpired
    <2>4. x \in Row /\ x.cancel = r.cancel
      BY <2>1 DEF Row, Errors
    <2>5. Recovered(r, m) = IF r.cancel THEN Finished(x, "CANCELLED")
                            ELSE IF r.attempt_count >= m THEN Finished(x, "FAILED")
                            ELSE Requeued(x, RecoveryDelay)
      BY DEF Recovered
    <2> HIDE DEF x
    <2>6. /\ Finished(x, "CANCELLED").state = "CANCELLED"
          /\ Finished(x, "FAILED").state = "FAILED"
      BY <2>4, FinishedMove DEF Terminal
    <2>7. /\ Requeued(x, RecoveryDelay).state = "QUEUED"
          /\ Requeued(x, RecoveryDelay).cancel = r.cancel
      BY <2>4, RequeuedMove, ConfigAssumption
    <2>8. CASE r.cancel
      BY <2>1, <2>3, <2>5, <2>6, <2>8 DEF Moves
    <2>9. CASE ~r.cancel /\ r.attempt_count >= m
      BY <2>1, <2>3, <2>5, <2>6, <2>9 DEF Moves
    <2>10. CASE ~r.cancel /\ ~(r.attempt_count >= m)
      BY <2>1, <2>2, <2>3, <2>5, <2>7, <2>10 DEF Moves
    <2>11. QED  BY <2>8, <2>9, <2>10
  <1>3. QED  BY <1>1, <1>2

\* Cancellation, its withdrawal, insertion and deletion.
LEMMA RowMoves ==
    ASSUME IInv, NEW k \in Job, NEW j \in Job, NEW d \in Nat,
           Enqueue(k, d) \/ RequestCancellation(k) \/ ReusePurgeJob(k) \/ Prune(k)
    PROVE  Moves(j, job[j], failures[j], job'[j], failures'[j])
  <1>1. job \in [Job -> Row] /\ job[k] \in Row
    BY DEF IInv, TypeOK
  <1>2. failures' = failures
    BY DEF Enqueue, RequestCancellation, ReusePurgeJob, Prune
  <1>3. CASE j # k
    BY <1>1, <1>2, <1>3 DEF Enqueue, RequestCancellation, ReusePurgeJob, Prune, Moves
  <1>4. ASSUME j = k, Enqueue(k, d)
        PROVE  Moves(j, job[j], failures[j], job'[j], failures'[j])
    <2>1. job'[j] = Requeued(job[j], d) /\ job[j].state = "NONE"
      BY <1>1, <1>4 DEF Enqueue
    <2>2. QED  BY <1>1, <1>2, <1>4, <2>1, RequeuedMove DEF Moves
  <1>5. ASSUME j = k, RequestCancellation(k)
        PROVE  Moves(j, job[j], failures[j], job'[j], failures'[j])
    <2>1. CASE /\ job[k].state = "QUEUED"
               /\ job' = [job EXCEPT ![k] = Finished([@ EXCEPT !.cancel = TRUE], "CANCELLED")]
      <3>1. job'[j] = Finished([job[j] EXCEPT !.cancel = TRUE], "CANCELLED")
        BY <1>1, <1>5, <2>1
      <3>2. [job[j] EXCEPT !.cancel = TRUE] \in Row
        BY <1>1, <1>5 DEF Row
      <3>3. job'[j].state = "CANCELLED"
        BY <3>1, <3>2, FinishedMove DEF Terminal
      <3>4. QED  BY <1>2, <1>5, <2>1, <3>3 DEF Moves, Active
    <2>2. CASE /\ job[k].state = "RUNNING" /\ ~job[k].cancel
               /\ job' = [job EXCEPT ![k].cancel = TRUE]
      <3>1. job'[j].state = "RUNNING" /\ job'[j].cancel = TRUE
        BY <1>1, <1>5, <2>2 DEF Row
      <3>2. QED  BY <1>2, <1>5, <2>2, <3>1 DEF Moves
    <2>3. QED  BY <1>5, <2>1, <2>2 DEF RequestCancellation
  <1>6. ASSUME j = k, ReusePurgeJob(k)
        PROVE  Moves(j, job[j], failures[j], job'[j], failures'[j])
    <2>1. job'[j].state = job[j].state /\ job'[j].cancel = FALSE
      BY <1>1, <1>6 DEF ReusePurgeJob, Reused, Row
    <2>2. QED  BY <1>2, <1>6, <2>1 DEF Moves, ReusePurgeJob
  <1>7. ASSUME j = k, Prune(k)
        PROVE  Moves(j, job[j], failures[j], job'[j], failures'[j])
    <2>1. job'[j].state = "PRUNED"
      BY <1>1, <1>7 DEF Prune, Row
    <2>2. QED  BY <1>2, <1>7, <2>1 DEF Moves, Prune
  <1>8. QED  BY <1>3, <1>4, <1>5, <1>6, <1>7

\* Claims, renewals, lost claims, crashes and time leave every job as it is.
LEMMA QuietMoves ==
    ASSUME IInv, NEW j \in Job, UNCHANGED failures,
           \/ \E s \in Slot, k \in Job : Claim(s, k)
           \/ \E s \in Slot : Renew(s)
           \/ UNCHANGED job
           \/ Tick
    PROVE  Moves(j, job[j], failures[j], job'[j], failures'[j])
  <1>1. job \in [Job -> Row] /\ job[j] \in Row
    BY DEF IInv, TypeOK
  <1>2. ASSUME NEW s \in Slot, NEW k \in Job, Claim(s, k)
        PROVE  Moves(j, job[j], failures[j], job'[j], failures'[j])
    <2>1. CASE j # k  BY <1>1, <1>2, <2>1 DEF Claim, Moves
    <2>2. CASE j = k
      <3>1. job'[j] = Claimed(job[j], WorkerOf[s], job[j].attempt_count + 1)
            /\ job[j].state = "QUEUED"
        BY <1>1, <1>2, <2>2 DEF Claim, Claimable
      <3>2. job'[j].state = "RUNNING" /\ job'[j].cancel = job[j].cancel
        BY <1>1, <3>1 DEF Claimed, Held, Row
      <3>3. QED  BY <3>1, <3>2 DEF Moves, Active
    <2>3. QED  BY <2>1, <2>2
  <1>3. ASSUME NEW s \in Slot, Renew(s)
        PROVE  Moves(j, job[j], failures[j], job'[j], failures'[j])
    <2>1. exec[s].id \in Job /\ job[exec[s].id].state = "RUNNING"
      BY <1>3 DEF Renew, Owned, IInv, TypeOK, Snapshot
    <2>2. CASE j # exec[s].id  BY <1>1, <1>3, <2>2 DEF Renew, Moves
    <2>3. CASE j = exec[s].id
      <3>1. job'[j].state = job[j].state /\ job'[j].cancel = job[j].cancel
        BY <1>1, <1>3, <2>3 DEF Renew, Row
      <3>2. QED  BY <2>1, <2>3, <3>1 DEF Moves, Active
    <2>4. QED  BY <2>2, <2>3
  <1>4. CASE UNCHANGED job  BY <1>4 DEF Moves
  <1>5. CASE Tick
    <2>1. CASE job[j].state \in Active
      <3>1. job'[j].state = job[j].state /\ job'[j].cancel = job[j].cancel
        BY <1>1, <1>5, <2>1 DEF Tick, Row
      <3>2. QED  BY <2>1, <3>1 DEF Moves
    <2>2. CASE job[j].state \notin Active
      BY <1>5, <2>2 DEF Tick, Moves
    <2>3. QED  BY <2>1, <2>2
  <1>6. QED  BY <1>2, <1>3, <1>4, <1>5

\* Every step of the queue moves each job as the promise allows.
LEMMA NextMoves ==
    ASSUME IInv, [Next]_vars, NEW j \in Job
    PROVE  Moves(j, job[j], failures[j], job'[j], failures'[j])
  <1> DEFINE Goal == Moves(j, job[j], failures[j], job'[j], failures'[j])
  <1>1. \A d \in RetryDelays : d \in Nat
    BY ConfigAssumption
  <1>2. ASSUME NEW k \in Job, NEW d \in RetryDelays, Enqueue(k, d)  PROVE Goal
    BY <1>1, <1>2, RowMoves
  <1>3. ASSUME NEW k \in Job, RequestCancellation(k) \/ ReusePurgeJob(k) \/ Prune(k)
        PROVE  Goal
    <2>1. 0 \in Nat  OBVIOUS
    <2>2. QED  BY <1>3, <2>1, RowMoves
  <1>4. ASSUME NEW s \in Slot, FinishSuccess(s) \/ FinishPermanent(s)  PROVE Goal
    <2>1. 0 \in Nat  OBVIOUS
    <2>2. QED  BY <1>4, <2>1, FinishMoves
  <1>5. ASSUME NEW s \in Slot, NEW d \in RetryDelays,
               FinishTransient(s, d) \/ FinishWaiting(s, d)
        PROVE  Goal
    BY <1>1, <1>5, FinishMoves
  <1>6. CASE RecoverExpired  BY <1>6, RecoverMoves
  <1>7. ASSUME NEW s \in Slot, NEW k \in Job, Claim(s, k)  PROVE Goal
    <2>1. UNCHANGED failures  BY <1>7 DEF Claim
    <2>2. QED  BY <1>7, <2>1, QuietMoves
  <1>8. ASSUME NEW s \in Slot, Renew(s)  PROVE Goal
    <2>1. UNCHANGED failures  BY <1>8 DEF Renew
    <2>2. QED  BY <1>8, <2>1, QuietMoves
  <1>9. ASSUME NEW s \in Slot, ClaimLost(s) \/ DatabaseUnavailable(s)  PROVE Goal
    <2>1. UNCHANGED failures /\ UNCHANGED job  BY <1>9 DEF ClaimLost, DatabaseUnavailable
    <2>2. QED  BY <2>1, QuietMoves
  <1>10. ASSUME NEW w \in Worker, Crash(w)  PROVE Goal
    <2>1. UNCHANGED failures /\ UNCHANGED job  BY <1>10 DEF Crash
    <2>2. QED  BY <2>1, QuietMoves
  <1>11. CASE Tick
    <2>1. UNCHANGED failures  BY <1>11 DEF Tick
    <2>2. QED  BY <1>11, <2>1, QuietMoves
  <1>12. CASE UNCHANGED vars
    <2>1. UNCHANGED failures /\ UNCHANGED job  BY <1>12 DEF vars
    <2>2. QED  BY <2>1, QuietMoves
  <1>13. QED
    BY <1>2, <1>3, <1>4, <1>5, <1>6, <1>7, <1>8, <1>9, <1>10, <1>11, <1>12 DEF Next

\* No step cancels a row before it is inserted.
LEMMA NextFresh == IInv /\ FreshRows /\ [Next]_vars => FreshRows'
  <1> SUFFICES ASSUME IInv, FreshRows, [Next]_vars, NEW j \in Job, job'[j].state = "NONE"
               PROVE  job'[j].cancel = FALSE
    BY DEF FreshRows
  <1>1. Moves(j, job[j], failures[j], job'[j], failures'[j])
    BY NextMoves
  <1>2. job'[j] = job[j]
    BY <1>1 DEF Moves, Active, Terminal
  <1>3. QED  BY <1>2 DEF FreshRows

\* The phases and the pending stops that the rows stand for.
LEMMA PhaseValues ==
    ASSUME NEW r \in Row
    PROVE  /\ r.state = "NONE" => PhaseOf(r) = "absent"
           /\ r.state \in Active => PhaseOf(r) = "open"
           /\ r.state = "COMPLETED" => PhaseOf(r) = "done"
           /\ r.state = "FAILED" => PhaseOf(r) = "failed"
           /\ r.state = "CANCELLED" => PhaseOf(r) = "cancelled"
           /\ r.state = "PRUNED" => PhaseOf(r) = "gone"
           /\ PhaseOf(r) \in Promise!Phases
  BY DEF PhaseOf, Row, States, Active, Terminal, Promise!Phases, Promise!Ended

\* A move of a row is a step of its job, or leaves the job as it is.
LEMMA MoveIsStep ==
    ASSUME IInv, FreshRows, TypeOK', NEW j \in Job,
           Moves(j, job[j], failures[j], job'[j], failures'[j])
    PROVE  \/ Promise!JobStep(j)
           \/ Promise!Becomes(j, PhaseOf(job[j]), failures[j], Open(j) /\ job[j].cancel)
  <1> DEFINE r == job[j]
             q == job'[j]
             f == failures[j]
             g == failures'[j]
  <1>1. /\ r \in Row /\ q \in Row /\ f \in Nat /\ g \in Nat
        /\ r.cancel \in BOOLEAN /\ q.cancel \in BOOLEAN
    BY DEF IInv, TypeOK, Row
  <1>2. /\ r.state = "NONE" => f = 0 /\ r.cancel = FALSE
        /\ MaxAttempts[j] \in Nat
        /\ r.state = "RUNNING" => f + 1 <= MaxAttempts[j]
    <2>1. RowOK(r, f, MaxAttempts[j]) /\ MaxAttempts[j] \in Nat
      BY QueueAssumption DEF IInv
    <2>2. QED  BY <1>1, <2>1 DEF RowOK, FreshRows
  <1>3. ASSUME NEW p, NEW n, NEW a,
               PhaseOf(q) = p, g = n, (q.state \in Active /\ q.cancel) = a
        PROVE  Promise!Becomes(j, p, n, a)
    BY <1>3 DEF Promise!Becomes, Open
  <1>4. /\ r.state = "RUNNING" => r.state \in Active
        /\ q.state \in {"QUEUED", "RUNNING"} => q.state \in Active
        /\ q.state \in {"COMPLETED", "FAILED", "CANCELLED", "PRUNED"} => q.state \notin Active
    BY DEF Active
  <1>5. /\ r.state \in Active => PhaseOf(r) = "open"
        /\ q.state \in Active => PhaseOf(q) = "open"
        /\ r.state = "NONE" => PhaseOf(r) = "absent"
        /\ r.state \in Terminal => PhaseOf(r) \in Promise!Ended
        /\ q.state = "COMPLETED" => PhaseOf(q) = "done"
        /\ q.state = "FAILED" => PhaseOf(q) = "failed"
        /\ q.state = "CANCELLED" => PhaseOf(q) = "cancelled"
        /\ q.state = "PRUNED" => PhaseOf(q) = "gone"
    BY <1>1, PhaseValues DEF Terminal, Promise!Ended
  <1>6. CASE q = r /\ g = f
    <2>1. PhaseOf(q) = PhaseOf(r) /\ g = f
      BY <1>5, <1>6
    <2>2. (q.state \in Active /\ q.cancel) = (Open(j) /\ job[j].cancel)
      BY <1>6 DEF Open
    <2>3. QED  BY <2>1, <2>2 DEF Promise!Becomes, Open
  <1>7. CASE r.state \in Active /\ q.state \in Active /\ q.cancel = r.cancel /\ g = f
    <2>1. PhaseOf(q) = PhaseOf(r) /\ g = f
      BY <1>5, <1>7
    <2>2. (q.state \in Active /\ q.cancel) = (Open(j) /\ job[j].cancel)
      BY <1>7 DEF Open
    <2>3. QED  BY <2>1, <2>2 DEF Promise!Becomes, Open
  <1>8. CASE r.state = "NONE" /\ q.state = "QUEUED" /\ q.cancel = r.cancel /\ g = f
    <2>1. PhaseOf(r) = "absent" /\ PhaseOf(q) = "open" /\ g = 0
      BY <1>2, <1>4, <1>5, <1>8
    <2>2. (q.state \in Active /\ q.cancel) = FALSE
      BY <1>2, <1>4, <1>8
    <2>3. Promise!Becomes(j, "open", 0, FALSE)
      BY <1>3, <2>1, <2>2
    <2>4. Promise!Submit(j)
      BY <1>8, <2>1, <2>3 DEF Promise!Submit, Open
    <2>5. QED  BY <2>4 DEF Promise!JobStep
  <1>9. CASE r.state = "RUNNING" /\ ~r.cancel /\ q.state = "COMPLETED" /\ g = f
    <2>1. PhaseOf(r) = "open" /\ PhaseOf(q) = "done" /\ g = f
      BY <1>2, <1>4, <1>5, <1>9
    <2>2. (q.state \in Active /\ q.cancel) = FALSE
      BY <1>2, <1>4, <1>9
    <2>3. Promise!Becomes(j, "done", f, FALSE)
      BY <1>3, <2>1, <2>2
    <2>4. Promise!Succeed(j)
      BY <1>9, <2>1, <2>3 DEF Promise!Succeed, Open
    <2>5. QED  BY <2>4 DEF Promise!JobStep
  <1>10. CASE r.state = "RUNNING" /\ ~r.cancel /\ q.state = "FAILED" /\ g = f + 1
    <2>1. PhaseOf(r) = "open" /\ PhaseOf(q) = "failed" /\ g = f + 1
      BY <1>2, <1>4, <1>5, <1>10
    <2>2. (q.state \in Active /\ q.cancel) = FALSE
      BY <1>2, <1>4, <1>10
    <2>3. Promise!Becomes(j, "failed", f + 1, FALSE)
      BY <1>3, <2>1, <2>2
    <2>4. Promise!Refuse(j)
      BY <1>10, <2>1, <2>3 DEF Promise!Refuse, Open
    <2>5. QED  BY <2>4 DEF Promise!JobStep
  <1>11. CASE /\ r.state = "RUNNING" /\ ~r.cancel /\ q.state = "QUEUED" /\ q.cancel = r.cancel
             /\ g = f + 1 /\ f + 1 < MaxAttempts[j]
    <2>1. PhaseOf(r) = "open" /\ PhaseOf(q) = "open" /\ g = f + 1
      BY <1>2, <1>4, <1>5, <1>11
    <2>2. (q.state \in Active /\ q.cancel) = FALSE
      BY <1>2, <1>4, <1>11
    <2>3. Promise!Becomes(j, "open", f + 1, FALSE)
      BY <1>3, <2>1, <2>2
    <2>4. Promise!Strike(j)
      BY <1>11, <2>1, <2>3 DEF Promise!Strike, Open
    <2>5. QED  BY <2>4 DEF Promise!JobStep
  <1>12. CASE r.state = "RUNNING" /\ ~r.cancel /\ q.state = "RUNNING" /\ q.cancel = TRUE /\ g = f
    <2>1. PhaseOf(r) = "open" /\ PhaseOf(q) = "open" /\ g = f
      BY <1>2, <1>4, <1>5, <1>12
    <2>2. (q.state \in Active /\ q.cancel) = TRUE
      BY <1>2, <1>4, <1>12
    <2>3. Promise!Becomes(j, "open", f, TRUE)
      BY <1>3, <2>1, <2>2
    <2>4. Promise!AskStop(j)
      BY <1>12, <2>1, <2>3 DEF Promise!AskStop, Open
    <2>5. QED  BY <2>4 DEF Promise!JobStep
  <1>13. CASE /\ r.state \in Active /\ Kind[j] = "PURGE_TORRENT"
             /\ q.state = r.state /\ q.cancel = FALSE /\ g = f
    <2>1. PhaseOf(r) = "open" /\ Promise!Becomes(j, "open", f, FALSE)
      <3>1. q.state \in Active /\ PhaseOf(q) = "open" /\ (q.state \in Active /\ q.cancel) = FALSE
        BY <1>5, <1>13
      <3>2. QED  BY <1>3, <1>5, <1>13, <3>1
    <2>2. CASE r.cancel
      <3>1. Promise!Withdraw(j)
        BY <1>13, <2>1, <2>2 DEF Promise!Withdraw, Open
      <3>2. QED  BY <3>1 DEF Promise!JobStep
    <2>3. CASE ~r.cancel
      <3>1. (Open(j) /\ job[j].cancel) = FALSE
        BY <2>3
      <3>2. QED  BY <2>1, <3>1 DEF Promise!Becomes
    <2>4. QED  BY <2>2, <2>3
  <1>14. CASE r.state \in Active /\ q.state = "CANCELLED" /\ g = f
    <2>1. PhaseOf(r) = "open" /\ PhaseOf(q) = "cancelled" /\ g = f
      BY <1>2, <1>4, <1>5, <1>14
    <2>2. (q.state \in Active /\ q.cancel) = FALSE
      BY <1>2, <1>4, <1>14
    <2>3. Promise!Becomes(j, "cancelled", f, FALSE)
      BY <1>3, <2>1, <2>2
    <2>4. Promise!Stop(j)
      BY <1>14, <2>1, <2>3 DEF Promise!Stop, Open
    <2>5. QED  BY <2>4 DEF Promise!JobStep
  <1>15. CASE r.state = "RUNNING" /\ r.cancel /\ q.state = "CANCELLED" /\ g = f + 1
    <2>1. PhaseOf(r) = "open" /\ PhaseOf(q) = "cancelled" /\ g = f + 1
      BY <1>2, <1>4, <1>5, <1>15
    <2>2. (q.state \in Active /\ q.cancel) = FALSE
      BY <1>2, <1>4, <1>15
    <2>3. Promise!Becomes(j, "cancelled", f + 1, FALSE)
      BY <1>3, <2>1, <2>2
    <2>4. Promise!Stop(j)
      BY <1>4, <1>15, <2>1, <2>3 DEF Promise!Stop, Open
    <2>5. QED  BY <2>4 DEF Promise!JobStep
  <1>16. CASE r.state \in Terminal /\ Kind[j] # "ADD_TORRENT" /\ q.state = "PRUNED" /\ g = f
    <2>1. PhaseOf(r) \in Promise!Ended /\ PhaseOf(q) = "gone" /\ g = f
      BY <1>2, <1>4, <1>5, <1>16
    <2>2. (q.state \in Active /\ q.cancel) = FALSE
      BY <1>2, <1>4, <1>16
    <2>3. Promise!Becomes(j, "gone", f, FALSE)
      BY <1>3, <2>1, <2>2
    <2>4. Promise!Delete(j)
      BY <1>16, <2>1, <2>3 DEF Promise!Delete, Open
    <2>5. QED  BY <2>4 DEF Promise!JobStep
  <1>17. QED
    BY <1>6, <1>7, <1>8, <1>9, <1>10, <1>11, <1>12, <1>13, <1>14, <1>15, <1>16 DEF Moves

\* The empty table is the promise's initial state.
LEMMA InitPromise == Init => Promise!Init /\ FreshRows
  <1> SUFFICES ASSUME Init  PROVE Promise!Init /\ FreshRows
    OBVIOUS
  <1>1. \A j \in Job : job[j] = AbsentRow /\ job[j].state = "NONE" /\ job[j].cancel = FALSE
    BY DEF Init, AbsentRow
  <1>2. \A j \in Job : PhaseOf(job[j]) = "absent" /\ (Open(j) /\ job[j].cancel) = FALSE
    BY <1>1 DEF PhaseOf, Open, Active
  <1>3. failures = [j \in Job |-> 0]
    BY DEF Init
  <1>4. Promise!Init
    BY <1>2, <1>3 DEF Promise!Init
  <1>5. QED  BY <1>1, <1>4 DEF FreshRows

\* Every step of the queue is a step of the promise for all jobs together.
LEMMA NextPromise == IInv /\ FreshRows /\ [Next]_vars => [Promise!Next]_(Promise!vars)
  <1> SUFFICES ASSUME IInv, FreshRows, [Next]_vars
               PROVE  Promise!Next
    OBVIOUS
  <1>1. TypeOK'
    BY NextIInv DEF IInv
  <1>2. ASSUME NEW j \in Job
        PROVE  \/ Promise!JobStep(j)
               \/ Promise!Becomes(j, PhaseOf(job[j]), failures[j], Open(j) /\ job[j].cancel)
    BY <1>1, NextMoves, MoveIsStep
  <1>3. /\ [j \in Job |-> PhaseOf(job[j])]' \in [Job -> Promise!Phases]
        /\ failures' \in [Job -> Nat]
        /\ [j \in Job |-> Open(j) /\ job[j].cancel]' \in [Job -> BOOLEAN]
    <2>1. \A j \in Job : PhaseOf(job'[j]) \in Promise!Phases
      BY <1>1, PhaseValues DEF TypeOK
    <2>2. \A j \in Job : (Open(j) /\ job[j].cancel)' \in BOOLEAN
      OBVIOUS
    <2>3. QED  BY <1>1, <2>1, <2>2 DEF TypeOK
  <1>4. QED  BY <1>2, <1>3 DEF Promise!Next, Promise!Becomes

\* The durable queue, with any number of jobs, workers and slots, implements
\* JobPromise: cancellations win, jobs end once, and are given up after
\* max_attempts real failures and not before.
THEOREM QueueKeepsPromise == Spec => ImplementsPromise
  <1>1. Init => IInv /\ FreshRows /\ Promise!Init
    BY InitIInv, InitPromise
  <1>2. IInv /\ FreshRows /\ [Next]_vars => (IInv /\ FreshRows)'
    BY NextIInv, NextFresh
  <1>3. QED
    BY <1>1, <1>2, NextPromise, PTL DEF Spec, ImplementsPromise, Promise!Spec
=============================================================================
