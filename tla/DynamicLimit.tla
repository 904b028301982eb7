---------------------------- MODULE DynamicLimit ----------------------------
(***************************************************************************)
(* The dynamic concurrency limit: each scheduler cycle compares what the   *)
(* running torrents downloaded over a measurement window with a target and *)
(* may admit more; a completion shrinks the limit to what still runs and   *)
(* freezes replacement for one window.  A completion is recorded by a      *)
(* worker, between two cycles, under the lock of the scheduler row.        *)
(*                                                                         *)
(* The choice of the torrents is left open here (module FairSelection      *)
(* makes it): any candidates within the limit.  The measured throughput is *)
(* a choice too: below the minimum or not.                                 *)
(***************************************************************************)
EXTENDS Naturals, FiniteSets

CONSTANTS
  Torrent,
  InitialActive, MaxActive, Step,   \* options WOS_SCHEDULER_DYNAMIC_*
  Evaluation,                       \* the measurement window, in ticks
  StaticActive,                     \* WOS_SCHEDULER_MAX_ACTIVE_GLOBAL
  MaxChanges                        \* bound on administrator actions

VARIABLES
  want,      \* torrents with an active request that are not complete
  down,      \* torrents in state DOWNLOADING (the others are PAUSED)
  chosen,    \* desired_active
  forced,    \* admin_forced_active
  enabled,   \* WOS_SCHEDULER_DYNAMIC_CONCURRENCY_ENABLED
  current,   \* dynamic_current_active
  sample,    \* torrents of dynamic_sample_baseline
  sampled,   \* ticks since dynamic_sampled_at, or NotSampled
  freeze,    \* ticks until dynamic_cooldown_until, 0 when there is none
  changes,   \* administrator actions so far
  steady,    \* ticks since a cycle or a recorded completion saw another set run
  seen,      \* the set it saw
  refill     \* ticks until the slot of the last completion may be refilled

vars == <<want, down, chosen, forced, enabled, current, sample, sampled, freeze, changes,
          steady, seen, refill>>
durable == <<current, sample, sampled, freeze>>
watched == <<steady, seen, refill>>

NotSampled == Evaluation + 1
Active == (chosen \cup forced) \cap down
Candidates == want \ forced
Least(a, b) == IF a < b THEN a ELSE b
Most(a, b) == IF a > b THEN a ELSE b

Init ==
  /\ want = {} /\ down = {} /\ chosen = {} /\ forced = {} /\ enabled = TRUE
  /\ current = InitialActive /\ sample = {} /\ sampled = NotSampled /\ freeze = 0
  /\ changes = 0 /\ steady = 0 /\ seen = {} /\ refill = 0

----------------------------------------------------------------------------
Request(t) ==
  /\ t \notin want
  /\ want' = want \cup {t} /\ down' = down \cup {t}
  /\ UNCHANGED <<chosen, forced, enabled, changes, durable, watched>>

\* A stalled torrent leaves DOWNLOADING, or a chosen one is seen downloading again.
Pause(t) ==
  /\ t \in (chosen \cap down) \ forced
  /\ down' = down \ {t}
  /\ UNCHANGED <<want, chosen, forced, enabled, changes, durable, watched>>
Resume(t) ==
  /\ t \in chosen \ down
  /\ down' = down \cup {t}
  /\ UNCHANGED <<want, chosen, forced, enabled, changes, durable, watched>>

\* The last owner leaves: the torrent is purged and drops out of the control set.
Cancel(t) ==
  /\ t \in want
  /\ want' = want \ {t} /\ down' = down \ {t} /\ chosen' = chosen \ {t} /\ forced' = forced \ {t}
  /\ UNCHANGED <<enabled, changes, durable, watched>>

Force(t) ==
  /\ changes < MaxChanges /\ t \in want \ forced
  /\ forced' = forced \cup {t} /\ down' = down \cup {t} /\ changes' = changes + 1
  /\ UNCHANGED <<want, chosen, enabled, durable, watched>>

Toggle ==
  /\ changes < MaxChanges
  /\ enabled' = ~enabled /\ changes' = changes + 1
  /\ UNCHANGED <<want, down, chosen, forced, durable, watched>>

Min0(n) == IF n > 0 THEN n - 1 ELSE 0
Tick ==
  /\ sampled' = IF sampled < Evaluation THEN sampled + 1 ELSE sampled
  /\ freeze' = Min0(freeze) /\ refill' = Min0(refill)
  /\ steady' = Least(steady + 1, Evaluation)
  /\ UNCHANGED <<want, down, chosen, forced, enabled, current, sample, changes, seen>>

----------------------------------------------------------------------------
\* record_dynamic_completion: `left` still runs after the torrent became READY.

\* Mutated form: the window of the torrents that still run goes on.
RecordedNoRestart(left) ==
  IF left = {}
  THEN current' = InitialActive /\ freeze' = 0 /\ sample' = {} /\ sampled' = NotSampled
  ELSE current' = Cardinality(left) /\ freeze' = 0 /\ UNCHANGED <<sample, sampled>>
Recorded(left) ==
  IF left = {}
  THEN current' = InitialActive /\ freeze' = 0 /\ sample' = {} /\ sampled' = NotSampled
  ELSE current' = Cardinality(left) /\ freeze' = Evaluation /\ sample' = left /\ sampled' = 0

Complete(t) ==
  /\ t \in Active
  /\ LET left == Active \ {t}
     IN /\ IF enabled THEN Recorded(left) /\ steady' = 0 /\ seen' = left
                      ELSE UNCHANGED <<durable, steady, seen>>
        /\ refill' = IF enabled /\ left # {} THEN Evaluation ELSE 0
  /\ want' = want \ {t} /\ down' = down \ {t} /\ chosen' = chosen \ {t} /\ forced' = forced \ {t}
  /\ UNCHANGED <<enabled, changes>>

----------------------------------------------------------------------------
\* apply_dynamic_concurrency: the limit of this cycle, whether only the torrents that run may be
\* chosen, and the new window; `slow` says the throughput was under the minimum.

Outcome(limit, frozen, base, age, cooling) ==
  [limit |-> limit, frozen |-> frozen, sample |-> base, sampled |-> age, freeze |-> cooling]

Waiting == Candidates \ Active # {}
Busy == Most(current, Cardinality(Active))
SameSet == sampled # NotSampled /\ sample = Active
Scales(slow) ==
  /\ enabled /\ Active # {} /\ freeze = 0 /\ SameSet /\ sampled >= Evaluation
  /\ Waiting /\ Busy < MaxActive /\ slow

\* Mutated form: every cycle of the freeze starts it anew.
FrozenAgain == Outcome(Busy, TRUE, Active, 0, Evaluation)
Frozen == IF SameSet THEN Outcome(Busy, TRUE, sample, sampled, freeze)
                     ELSE Outcome(Busy, TRUE, Active, 0, Evaluation)

Measured(slow) ==
  IF ~enabled THEN Outcome(StaticActive, FALSE, {}, NotSampled, freeze)
  ELSE IF Active = {} THEN Outcome(InitialActive, FALSE, {}, NotSampled, 0)
  ELSE IF freeze > 0 THEN Frozen
  ELSE IF ~SameSet THEN Outcome(Busy, FALSE, Active, 0, 0)
  ELSE IF sampled < Evaluation THEN Outcome(Busy, FALSE, sample, sampled, 0)
  ELSE Outcome(IF Scales(slow) THEN Least(MaxActive, Busy + Step) ELSE Busy, FALSE, Active, 0, 0)

\* align_measurement_after_selection: a changed set starts a fresh window, unless frozen.

\* Mutated form: a window goes on when the selection only added torrents to it.
AlignedUnlessGrown(m, now) ==
  IF enabled /\ m.freeze = 0 /\ ~(m.sample \subseteq now)
  THEN sample' = now /\ sampled' = 0
  ELSE sample' = (IF enabled /\ m.freeze = 0 THEN now ELSE m.sample) /\ sampled' = m.sampled
Aligned(m, now) ==
  IF enabled /\ m.freeze = 0 /\ now # m.sample
  THEN sample' = now /\ sampled' = 0
  ELSE sample' = m.sample /\ sampled' = m.sampled

Cycle ==
  \E slow \in BOOLEAN :
    LET m    == Measured(slow)
        pool == IF m.frozen THEN Candidates \cap Active ELSE Candidates
    IN \E pick \in SUBSET pool :
         /\ Cardinality(pick) + Cardinality(forced) <= Most(m.limit, Cardinality(forced))
         /\ chosen' = pick
         /\ current' = m.limit /\ freeze' = m.freeze
         /\ Aligned(m, pick \cup forced)
         /\ seen' = IF m.frozen THEN Active ELSE pick \cup forced
         /\ steady' = IF seen = Active /\ seen' = Active THEN steady ELSE 0
         /\ refill' = IF Active = {} \/ ~enabled THEN 0 ELSE refill
         /\ UNCHANGED <<want, down, forced, enabled, changes>>

Next ==
  \/ \E t \in Torrent : Request(t) \/ Pause(t) \/ Resume(t) \/ Cancel(t) \/ Force(t) \/ Complete(t)
  \/ Toggle \/ Tick \/ Cycle

\* Time passes and the scheduler loop goes on.
Fairness == WF_vars(Cycle) /\ WF_vars(Tick)

Spec == Init /\ [][Next]_vars /\ Fairness

----------------------------------------------------------------------------
TypeOK ==
  /\ want \subseteq Torrent /\ down \subseteq want /\ chosen \subseteq want /\ forced \subseteq down
  /\ enabled \in BOOLEAN /\ current \in Nat /\ sample \subseteq Torrent
  /\ sampled \in 0 .. NotSampled /\ freeze \in 0 .. Evaluation

\* "Duree minimale de mesure complete avant une nouvelle decision de capacite": the limit is only
\* raised when the cycles of a whole window, and the completions in it, all saw the same set run.
FullWindowStep ==
  \A slow \in BOOLEAN : (enabled /\ current' > Busy /\ Scales(slow)) => steady >= Evaluation
FullWindow == [][FullWindowStep]_vars

\* record_dynamic_completion "freezes replacement for one full window": no cycle admits a torrent
\* within a window of a completion, unless nothing runs any more or the option is off.
RefillWaitsStep == (refill > 0 /\ enabled /\ Active # {}) => chosen' \subseteq chosen
RefillWaits == [][RefillWaitsStep]_vars

Thawed == freeze = 0

\* A freeze ends: whatever completes, stalls or comes back, replacement is possible again and
\* again.  It restarts only when the running set changed, and a frozen set can only shrink.
FreezeEnds == []<>Thawed

-----------------------------------------------------------------------------
(* Why they hold *)

\* What the theorems assume of the options.
Parameters ==
  IsFiniteSet(Torrent) /\ {InitialActive, MaxActive, Step, Evaluation, StaticActive} \subseteq Nat

\* The inductive invariant: an open window measures the set that the cycles saw, and no longer than
\* they saw it; the slot of a completion is held back no longer than the freeze lasts.
LimitInv ==
  /\ TypeOK
  /\ sampled # NotSampled => sample = seen /\ sampled <= steady
  /\ steady \in 0 .. Evaluation /\ refill \in 0 .. freeze
=============================================================================
