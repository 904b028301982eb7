----------------------------- MODULE JobPromise -----------------------------
(***************************************************************************)
(* What the durable queue promises whoever enqueues a job, without rows,   *)
(* claims, workers or clocks: a job is open until it ends once; it is      *)
(* given up after MaxAttempts real failures or at a permanent refusal; a   *)
(* stop that was asked for and not withdrawn beats every other outcome;    *)
(* and what has ended only ever disappears.  JobQueue implements it.       *)
(***************************************************************************)
EXTENDS Naturals

CONSTANTS
    Job,          \* the jobs
    MaxAttempts,  \* how many failures each of them survives, plus one
    Kept,         \* the jobs whose outcome maintenance never deletes
    Revocable     \* the jobs whose stop may be withdrawn

VARIABLES phase, strikes, stop

vars == <<phase, strikes, stop>>

Ended == {"done", "failed", "cancelled"}
Phases == Ended \cup {"absent", "open", "gone"}

Init ==
    /\ phase = [j \in Job |-> "absent"]
    /\ strikes = [j \in Job |-> 0]
    /\ stop = [j \in Job |-> FALSE]

\* The job's next phase, failures and pending stop
Becomes(j, p, n, asked) == phase'[j] = p /\ strikes'[j] = n /\ stop'[j] = asked

Submit(j) == phase[j] = "absent" /\ Becomes(j, "open", 0, FALSE)

\* Success and permanent refusal end the job unless a stop is pending.
Succeed(j) ==
    phase[j] = "open" /\ ~stop[j] /\ Becomes(j, "done", strikes[j], FALSE)

Refuse(j) ==
    phase[j] = "open" /\ ~stop[j] /\ Becomes(j, "failed", strikes[j] + 1, FALSE)

\* A failed or abandoned execution costs one attempt; the last one, the job.
Strike(j) ==
    /\ phase[j] = "open" /\ ~stop[j]
    /\ Becomes(j, IF strikes[j] + 1 < MaxAttempts[j] THEN "open" ELSE "failed",
               strikes[j] + 1, FALSE)

AskStop(j) == phase[j] = "open" /\ ~stop[j] /\ Becomes(j, "open", strikes[j], TRUE)

Withdraw(j) ==
    /\ phase[j] = "open" /\ stop[j] /\ j \in Revocable
    /\ Becomes(j, "open", strikes[j], FALSE)

\* An idle job stops at once; a running one when its execution ends, failed
\* or not.
Stop(j) ==
    /\ phase[j] = "open"
    /\ \/ Becomes(j, "cancelled", strikes[j], FALSE)
       \/ stop[j] /\ Becomes(j, "cancelled", strikes[j] + 1, FALSE)

Delete(j) ==
    phase[j] \in Ended /\ j \notin Kept /\ Becomes(j, "gone", strikes[j], FALSE)

JobStep(j) ==
    \/ Submit(j) \/ Succeed(j) \/ Refuse(j) \/ Strike(j)
    \/ AskStop(j) \/ Withdraw(j) \/ Stop(j) \/ Delete(j)

\* One recovery transaction may move several jobs; each takes a step of its own.
Next ==
    /\ phase' \in [Job -> Phases] /\ strikes' \in [Job -> Nat] /\ stop' \in [Job -> BOOLEAN]
    /\ \A j \in Job : JobStep(j) \/ Becomes(j, phase[j], strikes[j], stop[j])

Spec == Init /\ [][Next]_vars
=============================================================================
