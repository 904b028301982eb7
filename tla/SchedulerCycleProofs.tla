------------------------ MODULE SchedulerCycleProofs ------------------------
(***************************************************************************)
(* Proofs about SchedulerCycle, for any schedulers, torrents and capacity: *)
(* SchedulerInv is inductive; without overruns content is deleted only     *)
(* under a torrent that qBittorrent does not run, a forced torrent loses   *)
(* its marker only when it is stopped, and, as long as no torrent fails    *)
(* and nobody forces one, the slots are never exceeded.                    *)
(***************************************************************************)
EXTENDS SchedulerCycle, FiniteSetTheorems, TLAPS

USE SchedulerAssumption

\* The initial state satisfies the invariant.
LEMMA InitInv == Init => SchedulerInv
  <1> SUFFICES ASSUME Init PROVE SchedulerInv
    OBVIOUS
  <1>1. TypeOK
    BY DEF Init, TypeOK, GoneRow, Row, States, Idle, Cycle
  <1>2. Leader /\ IdleIsIdle
    BY DEF Init, Leader, IdleIsIdle
  <1>4. OrphansOutdated
    BY DEF Init, OrphansOutdated, GoneRow
  <1>3. \A t \in Torrent : PurgeFenced(t)
    BY DEF Init, PurgeFenced, NoResume, Silenced, GoneRow
  <1> QED
    BY <1>1, <1>2, <1>3, <1>4 DEF SchedulerInv

-----------------------------------------------------------------------------
(* Steps of a cycle                                                        *)

\* A step of scheduler s: the other cycles are left alone, and s holds the
\* lease or has given up.
Moves(s) ==
    /\ cycle' \in [Scheduler -> Cycle]
    /\ \A x \in Scheduler \ {s} : cycle'[x] = cycle[x]
    /\ cycle'[s].pc = "idle" => cycle'[s] = Idle
    /\ cycle'[s].orphans \subseteq cycle[s].orphans \cup Schedulable
    /\ \/ cycle'[s] = Idle /\ lease' = lease
       \/ cycle[s] # Idle /\ lease' = lease
       \/ MayAcquire(s) /\ lease' = HeldBy(s)

\* Without overruns a scheduler at work, or about to begin, is alone.
LEMMA Alone ==
  ASSUME SchedulerInv, ~Overrun, NEW s \in Scheduler, cycle[s] # Idle \/ MayAcquire(s)
  PROVE  \A x \in Scheduler \ {s} : cycle[x] = Idle
  <1> SUFFICES ASSUME NEW x \in Scheduler \ {s}, cycle[x] # Idle PROVE FALSE
    OBVIOUS
  <1>1. lease.owner = x /\ lease.live
    BY DEF SchedulerInv, Leader
  <1>2. cycle[s] = Idle
    BY <1>1 DEF SchedulerInv, Leader
  <1> QED
    BY <1>1, <1>2 DEF MayAcquire

\* A cycle step keeps the lease typed, Leader and IdleIsIdle.
LEMMA MovesInv ==
  ASSUME SchedulerInv, NEW s \in Scheduler, Moves(s)
  PROVE  /\ lease' \in [owner : Scheduler \cup {NoScheduler}, live : BOOLEAN]
         /\ Leader'
         /\ IdleIsIdle'
  <1>0. TypeOK /\ Leader /\ IdleIsIdle
    BY DEF SchedulerInv
  <1>1. lease' \in [owner : Scheduler \cup {NoScheduler}, live : BOOLEAN]
    <2>1. lease \in [owner : Scheduler \cup {NoScheduler}, live : BOOLEAN]
      BY <1>0 DEF TypeOK
    <2>2. HeldBy(s) \in [owner : Scheduler \cup {NoScheduler}, live : BOOLEAN]
      BY DEF HeldBy
    <2> QED
      BY <2>1, <2>2 DEF Moves
  <1>2. IdleIsIdle'
    BY <1>0 DEF Moves, IdleIsIdle
  <1>3. Leader'
    <2> SUFFICES ASSUME ~Overrun, NEW x \in Scheduler, cycle'[x] # Idle
                 PROVE  lease'.owner = x /\ lease'.live
      BY DEF Leader
    <2>1. CASE x = s
      <3>1. CASE cycle[s] # Idle /\ lease' = lease
        BY <1>0, <2>1, <3>1 DEF Leader
      <3>2. CASE MayAcquire(s) /\ lease' = HeldBy(s)
        BY <2>1, <3>2 DEF HeldBy
      <3> QED
        BY <2>1, <3>1, <3>2 DEF Moves
    <2>2. CASE x # s
      <3>1. cycle[x] # Idle
        BY <2>2 DEF Moves
      <3>2. lease.owner = x /\ lease.live
        BY <1>0, <3>1 DEF Leader
      <3>3. ~MayAcquire(s) /\ cycle[s] = Idle
        BY <2>2, <3>1, Alone
      <3> QED
        BY <3>2, <3>3 DEF Moves
    <2> QED
      BY <2>1, <2>2
  <1> QED
    BY <1>1, <1>2, <1>3

\* What a step of a cycle at work that leaves the rows alone has to show about
\* a torrent.
LEMMA FencedByCycle ==
  ASSUME SchedulerInv, ~Overrun, NEW s \in Scheduler, NEW t \in Torrent \ Unreachable,
         Moves(s), cycle[s] # Idle, row' = row, resume' = resume,
         Silenced(t) => qb'[t] # "running" /\ t \notin cycle'[s].run \cup cycle'[s].start,
         row[t].state = "PURGE_PENDING" /\ t \in cycle'[s].purges => StopOwed(s, t)'
  PROVE  PurgeFenced(t)'
  <1>0. PurgeFenced(t)
    BY DEF SchedulerInv
  <1>1. \A x \in Scheduler \ {s} : cycle'[x] = Idle
    BY Alone DEF Moves
  <1>2. NoResume(t)'
    BY <1>0 DEF PurgeFenced, NoResume
  <1>3. ASSUME Silenced(t)'
        PROVE  qb'[t] # "running" /\ \A x \in Scheduler : t \notin cycle'[x].run \cup cycle'[x].start
    <2>1. Silenced(t)
      BY <1>3 DEF Silenced
    <2> QED
      BY <1>1, <2>1 DEF Idle
  <1>4. ASSUME row'[t].state = "PURGE_PENDING", NEW x \in Scheduler, t \in cycle'[x].purges
        PROVE  StopOwed(x, t)'
    BY <1>1, <1>4 DEF Idle
  <1> QED
    BY <1>2, <1>3, <1>4 DEF PurgeFenced

\* A cycle that is given up has nothing to acknowledge and starts nothing.
LEMMA IdleFields ==
  /\ Idle \in Cycle /\ Idle.pc = "idle"
  /\ Idle.purges = {} /\ Idle.orphans = {} /\ Idle.run = {} /\ Idle.start = {}
  BY DEF Idle, Cycle

\* The step of s is a step of a cycle at work that leaves rows and resumes
\* alone, and of the rest of the invariant only PurgeFenced is at stake.
LEMMA CycleInv ==
  ASSUME SchedulerInv, NEW s \in Scheduler, Moves(s),
         row' = row, resume' = resume, decided' = decided,
         qb' \in [Torrent -> {"absent", "stopped", "running"}],
         ~Overrun => \A t \in Torrent \ Unreachable : PurgeFenced(t)'
  PROVE  SchedulerInv'
  <1>1. Leader' /\ IdleIsIdle'
    BY MovesInv
  <1>2. TypeOK'
    BY MovesInv DEF Moves, SchedulerInv, TypeOK
  <1>3. OrphansOutdated'
    BY DEF SchedulerInv, OrphansOutdated, Moves, Schedulable, ControlSet
  <1> QED
    BY <1>1, <1>2, <1>3 DEF SchedulerInv

\* The lease is renewed between two phases, or the cycle given up.
LEMMA RenewInv ==
  ASSUME SchedulerInv, NEW s \in Scheduler, Renew(s)
  PROVE  SchedulerInv'
  <1>0. TypeOK /\ cycle[s] \in Cycle /\ cycle[s] # Idle
    BY IdleFields DEF SchedulerInv, TypeOK, Renew
  <1>1. CASE MayAcquire(s)
    <2> DEFINE p == IF cycle[s].pc = "renew2" THEN "controls"
                    ELSE IF cycle[s].stops # {} THEN "stops"
                    ELSE AfterStops(cycle[s], "controls")
    <2>1. p \in {"stops", "controls", "commit"}
      BY DEF AfterStops
    <2>2. cycle' = [cycle EXCEPT ![s].pc = p] /\ lease' = HeldBy(s)
      BY <1>1 DEF Renew
    <2>3. cycle[s].pc = "renew1" /\ p # "stops" => cycle[s].stops = {}
      OBVIOUS
    <2>4. cycle[s].pc = "renew2" => p # "stops"
      OBVIOUS
    <2>5. cycle[s].pc \in {"renew1", "renew2"}
      BY DEF Renew
    <2> HIDE DEF p
    <2>6. /\ cycle'[s] = [cycle[s] EXCEPT !.pc = p]
          /\ cycle'[s] \in Cycle /\ cycle'[s].orphans = cycle[s].orphans
          /\ \A x \in Scheduler \ {s} : cycle'[x] = cycle[x]
      BY <1>0, <2>1, <2>2 DEF TypeOK, Cycle
    <2>7. Moves(s)
      <3>1. cycle' \in [Scheduler -> Cycle]
        BY <1>0, <2>1, <2>2, <2>6 DEF TypeOK
      <3>2. cycle'[s].pc # "idle"
        BY <1>0, <2>1, <2>6 DEF Cycle
      <3> QED
        BY <1>1, <2>2, <2>6, <3>1, <3>2 DEF Moves
    <2>8. ASSUME ~Overrun, NEW t \in Torrent \ Unreachable PROVE PurgeFenced(t)'
      <3>0. PurgeFenced(t)
        BY <2>8 DEF SchedulerInv
      <3>1. Silenced(t) => qb'[t] # "running" /\ t \notin cycle'[s].run \cup cycle'[s].start
        BY <1>0, <2>6, <3>0 DEF PurgeFenced, Renew, Cycle
      <3>2. ASSUME row[t].state = "PURGE_PENDING", t \in cycle'[s].purges
            PROVE  StopOwed(s, t)'
        <4>1. StopOwed(s, t)
          BY <1>0, <2>6, <3>0, <3>2 DEF PurgeFenced, Cycle
        <4>2. /\ cycle'[s].pc = p /\ cycle'[s].run = cycle[s].run /\ cycle'[s].start = cycle[s].start
              /\ cycle'[s].stops = cycle[s].stops /\ cycle'[s].failed = cycle[s].failed
          BY <1>0, <2>6 DEF Cycle
        <4>3. qb' = qb
          BY DEF Renew
        <4> QED
          BY <2>1, <2>3, <2>4, <2>5, <4>1, <4>2, <4>3 DEF StopOwed
      <3> QED
        BY <1>0, <2>7, <2>8, <3>1, <3>2, FencedByCycle DEF Renew
    <2> QED
      BY <1>0, <2>7, <2>8, CycleInv DEF Renew, TypeOK
  <1>2. CASE ~MayAcquire(s)
    <2>1. cycle' = [cycle EXCEPT ![s] = Idle] /\ lease' = lease
      BY <1>2 DEF Renew
    <2>2. cycle'[s] = Idle /\ Moves(s)
      BY <1>0, <2>1, IdleFields DEF Moves, TypeOK
    <2>3. ASSUME ~Overrun, NEW t \in Torrent \ Unreachable PROVE PurgeFenced(t)'
      <3>0. PurgeFenced(t)
        BY <2>3 DEF SchedulerInv
      <3> QED
        BY <1>0, <2>2, <2>3, <3>0, FencedByCycle, IdleFields DEF Renew, PurgeFenced
    <2> QED
      BY <1>0, <2>2, <2>3, CycleInv DEF Renew, TypeOK
  <1> QED
    BY <1>1, <1>2

\* The stop call stops what it reaches and starts nothing.
LEMMA StoppedFacts ==
  ASSUME TypeOK
  PROVE  \A T : /\ Stopped(T) \in [Torrent -> {"absent", "stopped", "running"}]
                /\ \A t \in Torrent : Stopped(T)[t] = "running" => qb[t] = "running"
                /\ \A t \in Torrent : t \in T \ Unreachable => Stopped(T)[t] # "running"
  BY DEF Stopped, TypeOK

\* The start call starts only what it is given.
LEMMA StartedFacts ==
  ASSUME TypeOK
  PROVE  \A T : /\ Started(T) \in [Torrent -> {"absent", "stopped", "running"}]
                /\ \A t \in Torrent \ T : Started(T)[t] = qb[t]
  BY DEF Started, TypeOK

\* A cycle is given up after calls that started nothing being purged.
LEMMA GivesUpInv ==
  ASSUME SchedulerInv, NEW s \in Scheduler, cycle[s] # Idle,
         cycle' = [cycle EXCEPT ![s] = Idle],
         row' = row, lease' = lease, decided' = decided, resume' = resume,
         qb' \in [Torrent -> {"absent", "stopped", "running"}],
         \A t \in Torrent : qb'[t] = "running" => qb[t] = "running" \/ t \in cycle[s].start
  PROVE  SchedulerInv'
  <1>0. TypeOK
    BY DEF SchedulerInv
  <1>1. cycle'[s] = Idle /\ Moves(s)
    BY <1>0, IdleFields DEF Moves, TypeOK
  <1>2. ASSUME ~Overrun, NEW t \in Torrent \ Unreachable PROVE PurgeFenced(t)'
    <2>0. PurgeFenced(t)
      BY <1>2 DEF SchedulerInv
    <2>1. Silenced(t) => qb'[t] # "running"
      BY <2>0 DEF PurgeFenced
    <2> QED
      BY <1>1, <1>2, <2>1, FencedByCycle, IdleFields
  <1> QED
    BY <1>1, <1>2, CycleInv

\* A cycle that fails or dies is given up with nothing applied.
LEMMA CycleFailsInv ==
  ASSUME SchedulerInv, NEW s \in Scheduler, CycleFails(s)
  PROVE  SchedulerInv'
  BY GivesUpInv DEF CycleFails, SchedulerInv, TypeOK

\* The schedule fails halfway, having started some of what it meant to.
LEMMA ControlsFailInv ==
  ASSUME SchedulerInv, NEW s \in Scheduler, ControlsFail(s)
  PROVE  SchedulerInv'
  <1>0. TypeOK /\ cycle[s] # Idle
    BY IdleFields DEF SchedulerInv, ControlsFail
  <1>1. /\ qb' \in [Torrent -> {"absent", "stopped", "running"}]
        /\ \A t \in Torrent : qb'[t] = "running" => qb[t] = "running" \/ t \in cycle[s].start
    <2>1. CASE \E T \in SUBSET cycle[s].halt : qb' = Stopped(T)
      BY <1>0, <2>1, StoppedFacts
    <2>2. CASE \E T \in SUBSET cycle[s].start : qb' = Started(T)
      <3>1. PICK T \in SUBSET cycle[s].start : qb' = Started(T)
        BY <2>2
      <3> QED
        BY <1>0, <3>1, StartedFacts
    <2> QED
      BY <2>1, <2>2 DEF ControlsFail
  <1> QED
    BY <1>0, <1>1, GivesUpInv DEF ControlsFail

\* Both outcomes of the stop phase: stops is emptied, and if nothing failed,
\* everything in it is stopped.
LEMMA StopPhaseInv ==
  ASSUME SchedulerInv, NEW s \in Scheduler, cycle[s].pc = "stops", Moves(s),
         cycle'[s].pc \in {"renew2", "commit"},
         cycle'[s].run = cycle[s].run, cycle'[s].start = cycle[s].start,
         cycle'[s].purges = cycle[s].purges,
         row' = row, decided' = decided, resume' = resume,
         qb' \in [Torrent -> {"absent", "stopped", "running"}],
         \A t \in Torrent : qb'[t] = "running" => qb[t] = "running",
         cycle'[s].failed \/ \A t \in cycle[s].stops \ Unreachable : qb'[t] # "running"
  PROVE  SchedulerInv'
  <1>0. cycle[s] # Idle
    BY IdleFields
  <1>1. ASSUME ~Overrun, NEW t \in Torrent \ Unreachable PROVE PurgeFenced(t)'
    <2>0. PurgeFenced(t)
      BY <1>1 DEF SchedulerInv
    <2>1. Silenced(t) => qb'[t] # "running" /\ t \notin cycle'[s].run \cup cycle'[s].start
      BY <2>0 DEF PurgeFenced
    <2>2. ASSUME row[t].state = "PURGE_PENDING", t \in cycle'[s].purges
          PROVE  StopOwed(s, t)'
      <3>1. StopOwed(s, t)
        BY <2>0, <2>2 DEF PurgeFenced
      <3>2. t \in cycle[s].stops
        BY <3>1 DEF StopOwed
      <3> QED
        BY <3>1, <3>2 DEF StopOwed
    <2> QED
      BY <1>0, <1>1, <2>1, <2>2, FencedByCycle
  <1> QED
    BY <1>1, CycleInv

\* The record both outcomes leave.
LEMMA StopPhaseMoves ==
  ASSUME SchedulerInv, NEW s \in Scheduler, cycle[s].pc = "stops", lease' = lease,
         \/ cycle' = [cycle EXCEPT ![s] = [@ EXCEPT !.pc = AfterStops(cycle[s], "renew2"),
                                                    !.stops = {}]]
         \/ cycle' = [cycle EXCEPT ![s] = [@ EXCEPT !.pc = AfterStops(cycle[s], "renew2"),
                                                    !.stops = {}, !.failed = TRUE]]
  PROVE  /\ Moves(s)
         /\ cycle'[s].pc \in {"renew2", "commit"}
         /\ cycle'[s].run = cycle[s].run /\ cycle'[s].start = cycle[s].start
         /\ cycle'[s].purges = cycle[s].purges
  <1> DEFINE p == AfterStops(cycle[s], "renew2")
             e == [cycle[s] EXCEPT !.pc = p, !.stops = {}]
             f == [cycle[s] EXCEPT !.pc = p, !.stops = {}, !.failed = TRUE]
             Left(c) == /\ c \in Cycle /\ c.pc = p
                        /\ c.run = cycle[s].run /\ c.start = cycle[s].start
                        /\ c.purges = cycle[s].purges /\ c.orphans = cycle[s].orphans
  <1>0. TypeOK /\ cycle \in [Scheduler -> Cycle] /\ cycle[s] \in Cycle /\ cycle[s] # Idle
    BY IdleFields DEF SchedulerInv, TypeOK
  <1>1. p \in {"renew2", "commit"}
    BY DEF AfterStops
  <1>2. cycle' = [cycle EXCEPT ![s] = e] \/ cycle' = [cycle EXCEPT ![s] = f]
    OBVIOUS
  <1> HIDE DEF p
  <1>3. Left(e)
    BY <1>0, <1>1 DEF Cycle
  <1>4. Left(f)
    BY <1>0, <1>1 DEF Cycle
  <1> HIDE DEF e, f
  <1>5. cycle'[s] = e \/ cycle'[s] = f
    BY <1>0, <1>2
  <1>6. Left(cycle'[s])
    BY <1>3, <1>4, <1>5
  <1>7. cycle' \in [Scheduler -> Cycle] /\ \A x \in Scheduler \ {s} : cycle'[x] = cycle[x]
    BY <1>0, <1>2, <1>3, <1>4
  <1>8. Moves(s)
    BY <1>0, <1>1, <1>6, <1>7 DEF Moves
  <1> QED
    BY <1>1, <1>6, <1>8

\* The owed stops are applied.
LEMMA StopsAppliedInv ==
  ASSUME SchedulerInv, NEW s \in Scheduler, StopsApplied(s)
  PROVE  SchedulerInv'
  <1>0. TypeOK
    BY DEF SchedulerInv
  <1>1. qb' = Stopped(cycle[s].stops) /\ cycle[s].pc = "stops"
    BY DEF StopsApplied
  <1>2. /\ Moves(s)
        /\ cycle'[s].pc \in {"renew2", "commit"}
        /\ cycle'[s].run = cycle[s].run /\ cycle'[s].start = cycle[s].start
        /\ cycle'[s].purges = cycle[s].purges
    BY StopPhaseMoves DEF StopsApplied
  <1>3. cycle[s].stops \subseteq Torrent
    BY <1>0 DEF TypeOK, Cycle
  <1>4. /\ qb' \in [Torrent -> {"absent", "stopped", "running"}]
        /\ \A t \in Torrent : qb'[t] = "running" => qb[t] = "running"
        /\ \A t \in cycle[s].stops \ Unreachable : qb'[t] # "running"
    BY <1>0, <1>1, <1>3, StoppedFacts
  <1> QED
    BY <1>1, <1>2, <1>4, StopPhaseInv DEF StopsApplied

\* Some of the owed stops are applied, and the failure is kept.
LEMMA StopsFailInv ==
  ASSUME SchedulerInv, NEW s \in Scheduler, StopsFail(s)
  PROVE  SchedulerInv'
  <1>0. TypeOK /\ cycle \in [Scheduler -> Cycle] /\ cycle[s] \in Cycle
    BY DEF SchedulerInv, TypeOK
  <1>1. PICK T \in SUBSET cycle[s].stops : qb' = Stopped(T)
    BY DEF StopsFail
  <1>2. /\ Moves(s)
        /\ cycle'[s].pc \in {"renew2", "commit"}
        /\ cycle'[s].run = cycle[s].run /\ cycle'[s].start = cycle[s].start
        /\ cycle'[s].purges = cycle[s].purges
    BY StopPhaseMoves DEF StopsFail
  <1>3. cycle'[s].failed
    <2> DEFINE f == [cycle[s] EXCEPT !.pc = AfterStops(cycle[s], "renew2"),
                                     !.stops = {}, !.failed = TRUE]
    <2>1. f.failed
      BY <1>0 DEF Cycle
    <2>2. cycle' = [cycle EXCEPT ![s] = f]
      BY DEF StopsFail
    <2> HIDE DEF f
    <2> QED
      BY <1>0, <2>1, <2>2
  <1>4. /\ qb' \in [Torrent -> {"absent", "stopped", "running"}]
        /\ \A t \in Torrent : qb'[t] = "running" => qb[t] = "running"
    BY <1>0, <1>1, StoppedFacts
  <1> QED
    BY <1>2, <1>3, <1>4, StopPhaseInv DEF StopsFail

\* The two calls of the schedule: the next record starts nothing but what
\* was to run or to start, and qBittorrent starts nothing but that.
LEMMA SchedulePhaseInv ==
  ASSUME SchedulerInv, NEW s \in Scheduler, cycle[s].pc \in {"controls", "starts"}, Moves(s),
         cycle'[s].pc \in {"starts", "commit"},
         cycle'[s].run \cup cycle'[s].start \subseteq cycle[s].run \cup cycle[s].start,
         cycle'[s].purges = cycle[s].purges, cycle'[s].failed = cycle[s].failed,
         row' = row, decided' = decided, resume' = resume,
         qb' \in [Torrent -> {"absent", "stopped", "running"}],
         \A t \in Torrent : qb'[t] = "running" => qb[t] = "running" \/ t \in cycle[s].start
  PROVE  SchedulerInv'
  <1>0. cycle[s] # Idle
    BY IdleFields
  <1>1. ASSUME ~Overrun, NEW t \in Torrent \ Unreachable PROVE PurgeFenced(t)'
    <2>0. PurgeFenced(t)
      BY <1>1 DEF SchedulerInv
    <2>1. Silenced(t) => qb'[t] # "running" /\ t \notin cycle'[s].run \cup cycle'[s].start
      BY <2>0 DEF PurgeFenced
    <2>2. ASSUME row[t].state = "PURGE_PENDING", t \in cycle'[s].purges
          PROVE  StopOwed(s, t)'
      <3>1. StopOwed(s, t)
        BY <2>0, <2>2 DEF PurgeFenced
      <3>2. t \notin cycle'[s].run \cup cycle'[s].start
        BY <3>1 DEF StopOwed
      <3>3. cycle'[s].failed \/ qb'[t] # "running"
        BY <3>1 DEF StopOwed
      <3> QED
        BY <3>2, <3>3 DEF StopOwed
    <2> QED
      BY <1>0, <1>1, <2>1, <2>2, FencedByCycle
  <1> QED
    BY <1>1, CycleInv

\* What was not chosen is stopped.
LEMMA ControlsStopInv ==
  ASSUME SchedulerInv, NEW s \in Scheduler, ControlsStop(s)
  PROVE  SchedulerInv'
  <1> DEFINE found == {t \in cycle[s].run : qb[t] = "stopped"}
             e == [cycle[s] EXCEPT !.pc = "starts", !.run = {}, !.halt = {}, !.start = found]
  <1>0. TypeOK /\ cycle \in [Scheduler -> Cycle] /\ cycle[s] \in Cycle /\ cycle[s].pc = "controls"
    BY DEF SchedulerInv, TypeOK, ControlsStop
  <1>1. found \subseteq cycle[s].run /\ found \subseteq Torrent
    BY <1>0 DEF Cycle
  <1>2. cycle' = [cycle EXCEPT ![s] = e]
    BY DEF ControlsStop
  <1> HIDE DEF found
  <1>3. /\ e \in Cycle /\ e.pc = "starts" /\ e.run = {} /\ e.start = found
        /\ e.purges = cycle[s].purges /\ e.failed = cycle[s].failed
        /\ e.orphans = cycle[s].orphans
    BY <1>0, <1>1 DEF Cycle
  <1> HIDE DEF e
  <1>4. cycle'[s] = e /\ Moves(s)
    BY <1>0, <1>2, <1>3, IdleFields DEF Moves, ControlsStop
  <1>5. /\ qb' \in [Torrent -> {"absent", "stopped", "running"}]
        /\ \A t \in Torrent : qb'[t] = "running" => qb[t] = "running"
    BY <1>0, StoppedFacts DEF ControlsStop
  <1> QED
    BY <1>0, <1>1, <1>3, <1>4, <1>5, SchedulePhaseInv DEF ControlsStop

\* What was chosen is started.
LEMMA ControlsStartInv ==
  ASSUME SchedulerInv, NEW s \in Scheduler, ControlsStart(s)
  PROVE  SchedulerInv'
  <1> DEFINE e == [cycle[s] EXCEPT !.pc = "commit", !.start = {}]
  <1>0. TypeOK /\ cycle \in [Scheduler -> Cycle] /\ cycle[s] \in Cycle /\ cycle[s].pc = "starts"
    BY DEF SchedulerInv, TypeOK, ControlsStart
  <1>1. cycle' = [cycle EXCEPT ![s] = e]
    BY DEF ControlsStart
  <1>2. /\ e \in Cycle /\ e.pc = "commit" /\ e.run = cycle[s].run /\ e.start = {}
        /\ e.purges = cycle[s].purges /\ e.failed = cycle[s].failed
        /\ e.orphans = cycle[s].orphans
    BY <1>0 DEF Cycle
  <1> HIDE DEF e
  <1>3. cycle'[s] = e /\ Moves(s)
    BY <1>0, <1>1, <1>2, IdleFields DEF Moves, ControlsStart
  <1>4. /\ qb' \in [Torrent -> {"absent", "stopped", "running"}]
        /\ \A t \in Torrent : qb'[t] = "running" => qb[t] = "running" \/ t \in cycle[s].start
    BY <1>0, StartedFacts DEF ControlsStart
  <1> QED
    BY <1>0, <1>2, <1>3, <1>4, SchedulePhaseInv DEF ControlsStart

\* A step of s that writes rows but lets no torrent into or out of the purge:
\* what it has to show about a torrent once the other cycles are idle.
LEMMA FencedAlone ==
  ASSUME NEW s \in Scheduler, NEW t \in Torrent,
         \A x \in Scheduler \ {s} : cycle'[x] = Idle,
         NoResume(t)',
         Silenced(t)' => qb'[t] # "running" /\ t \notin cycle'[s].run \cup cycle'[s].start,
         row'[t].state = "PURGE_PENDING" /\ t \in cycle'[s].purges => StopOwed(s, t)'
  PROVE  PurgeFenced(t)'
  BY IdleFields DEF PurgeFenced

\* The first transaction captures the stops of pending purges, and chooses
\* only among torrents that are not being purged.
LEMMA DecideInv ==
  ASSUME SchedulerInv, NEW s \in Scheduler, NEW R, Decide(s, R)
  PROVE  SchedulerInv'
  <1> DEFINE e == [pc |-> "renew1", stops |-> PurgeStops \cup ErrorStops,
                   run |-> Forced \cup R, halt |-> Schedulable \ R, start |-> {},
                   purges |-> PurgeStops, errors |-> ErrorStops,
                   orphans |-> OrphanStops(R), failed |-> FALSE]
  <1>0. TypeOK /\ cycle \in [Scheduler -> Cycle] /\ MayAcquire(s) /\ lease' = HeldBy(s)
    BY DEF SchedulerInv, TypeOK, Decide
  <1>1. R \subseteq ControlSet /\ Forced \subseteq ControlSet /\ Schedulable \subseteq ControlSet
    BY DEF Decide, Schedulable, Forced
  <1>2. /\ ControlSet \subseteq Torrent /\ PurgeStops \subseteq Torrent
        /\ ErrorStops \subseteq Torrent /\ OrphanStops(R) \subseteq Schedulable
    BY DEF ControlSet, PurgeStops, ErrorStops, OrphanStops
  <1>3. /\ e \in Cycle /\ e.pc = "renew1" /\ e.run \subseteq ControlSet /\ e.start = {}
        /\ e.purges \subseteq e.stops /\ e.orphans \subseteq Schedulable
    BY <1>1, <1>2 DEF Cycle
  <1>4. cycle' = [cycle EXCEPT ![s] = e]
    BY DEF Decide
  <1> HIDE DEF e
  <1>5. cycle'[s] = e /\ Moves(s)
    BY <1>0, <1>3, <1>4 DEF Moves
  <1>6. /\ row' \in [Torrent -> Row]
        /\ \A t \in Torrent : row'[t].state = row[t].state /\ row'[t].stop = row[t].stop
    <2> DEFINE W(t, b) == [row[t] EXCEPT !.desired = b]
    <2>1. \A t \in Torrent : row[t] \in Row
      BY <1>0 DEF TypeOK
    <2>2. ASSUME NEW t \in Torrent, NEW b \in BOOLEAN
          PROVE  W(t, b) \in Row /\ W(t, b).state = row[t].state /\ W(t, b).stop = row[t].stop
      BY <2>1 DEF Row
    <2>3. row' = [t \in Torrent |-> IF t \in Schedulable THEN W(t, t \in R) ELSE row[t]]
      BY DEF Decide
    <2> HIDE DEF W
    <2>4. \A t \in Torrent : row'[t] = row[t] \/ \E b \in BOOLEAN : row'[t] = W(t, b)
      <3> SUFFICES ASSUME NEW t \in Torrent
                   PROVE  row'[t] = row[t] \/ \E b \in BOOLEAN : row'[t] = W(t, b)
        OBVIOUS
      <3>1. CASE t \in Schedulable
        <4>1. row'[t] = W(t, t \in R) /\ (t \in R) \in BOOLEAN
          BY <2>3, <3>1
        <4> QED
          BY <4>1, Zenon
      <3>2. CASE t \notin Schedulable
        BY <2>3, <3>2
      <3> QED
        BY <3>1, <3>2
    <2>5. \A t \in Torrent : /\ row'[t] \in Row /\ row'[t].state = row[t].state
                             /\ row'[t].stop = row[t].stop
      BY <2>1, <2>2, <2>4
    <2> QED
      BY <2>3, <2>5
  <1>7. TypeOK' /\ Leader' /\ IdleIsIdle'
    BY <1>0, <1>5, <1>6, MovesInv DEF Moves, Decide, TypeOK
  <1>9. OrphansOutdated'
    BY <1>1, <1>5, <1>6 DEF SchedulerInv, OrphansOutdated, Moves, ControlSet
  <1>8. ASSUME ~Overrun, NEW t \in Torrent \ Unreachable PROVE PurgeFenced(t)'
    <2>0. PurgeFenced(t)
      BY <1>8 DEF SchedulerInv
    <2>1. \A x \in Scheduler \ {s} : cycle'[x] = Idle
      BY <1>0, <1>5, <1>8, Alone DEF Moves
    <2>2. qb' = qb /\ resume' = resume
      BY DEF Decide
    <2>3. NoResume(t)' /\ (Silenced(t)' => Silenced(t))
      BY <1>6, <2>0, <2>2 DEF PurgeFenced, NoResume, Silenced
    <2>4. row[t].state # "CONTROLLED" => t \notin e.run \cup e.start
      BY <1>3 DEF ControlSet
    <2>5. Silenced(t)' => qb'[t] # "running" /\ t \notin cycle'[s].run \cup cycle'[s].start
      BY <1>5, <2>0, <2>2, <2>3, <2>4 DEF PurgeFenced, Silenced
    <2>6. row'[t].state = "PURGE_PENDING" /\ t \in cycle'[s].purges => StopOwed(s, t)'
      BY <1>3, <1>5, <1>6, <2>4 DEF StopOwed
    <2> QED
      BY <2>1, <2>3, <2>5, <2>6, FencedAlone
  <1> QED
    BY <1>7, <1>8, <1>9 DEF SchedulerInv

\* An acknowledgement keeps the row typed and its state.
LEMMA AcknowledgedFacts ==
  ASSUME TypeOK, NEW s \in Scheduler, NEW t \in Torrent
  PROVE  /\ Acknowledged(t, cycle[s]) \in Row
         /\ Acknowledged(t, cycle[s]).state = row[t].state
  <1> DEFINE r == row[t]
             A == [r EXCEPT !.stop = FALSE]
             B == [r EXCEPT !.desired = FALSE, !.forced = FALSE]
             C == [r EXCEPT !.stop = FALSE, !.forced = FALSE]
  <1>1. r \in Row
    BY DEF TypeOK
  <1>2. A \in Row /\ A.state = r.state
    BY <1>1 DEF Row
  <1>3. B \in Row /\ B.state = r.state
    BY <1>1 DEF Row
  <1>4. C \in Row /\ C.state = r.state
    BY <1>1 DEF Row
  <1>5. Acknowledged(t, cycle[s]) \in {A, B, C, r}
    BY DEF Acknowledged
  <1> HIDE DEF A, B, C
  <1> QED
    BY <1>1, <1>2, <1>3, <1>4, <1>5

\* The stop of a pending purge is withdrawn only if the cycle captured it and
\* applied it without a failure.
LEMMA WithdrawnStop ==
  ASSUME TypeOK, NEW s \in Scheduler, NEW t \in Torrent, row[t].state = "PURGE_PENDING",
         t \notin cycle[s].orphans,
         row[t].stop, ~Acknowledged(t, cycle[s]).stop
  PROVE  t \in cycle[s].purges /\ ~cycle[s].failed
  BY DEF Acknowledged

\* The second transaction acknowledges the captured stops.
LEMMA CommitInv ==
  ASSUME SchedulerInv, NEW s \in Scheduler, Commit(s)
  PROVE  SchedulerInv'
  <1>0. TypeOK /\ cycle[s].pc = "commit" /\ cycle[s] # Idle
    BY IdleFields DEF SchedulerInv, Commit
  <1>1. cycle'[s] = Idle /\ Moves(s)
    BY <1>0, IdleFields DEF Moves, TypeOK, Commit
  <1>2. \A t \in Torrent : row'[t] = row[t] \/ row'[t] = Acknowledged(t, cycle[s])
    BY DEF Commit
  <1>3. \A t \in Torrent : row'[t] \in Row /\ row'[t].state = row[t].state
    BY <1>0, <1>2, AcknowledgedFacts DEF TypeOK
  <1>4. row' \in [Torrent -> Row]
    <2>1. CASE row' = row
      BY <1>0, <2>1 DEF TypeOK
    <2>2. CASE row' = [t \in Torrent |-> Acknowledged(t, cycle[s])]
      BY <1>0, <2>2, AcknowledgedFacts
    <2> QED
      BY <2>1, <2>2 DEF Commit
  <1>5. TypeOK' /\ Leader' /\ IdleIsIdle'
    BY <1>0, <1>1, <1>4, MovesInv DEF Moves, Commit, TypeOK
  <1>6. OrphansOutdated'
    BY <1>1, <1>3, IdleFields DEF SchedulerInv, OrphansOutdated, Moves
  <1>7. ASSUME ~Overrun, NEW t \in Torrent \ Unreachable PROVE PurgeFenced(t)'
    <2>0. PurgeFenced(t)
      BY <1>7 DEF SchedulerInv
    <2>1. \A x \in Scheduler \ {s} : cycle'[x] = Idle
      BY <1>0, <1>1, <1>7, Alone DEF Moves
    <2>2. qb' = qb /\ resume' = resume
      BY DEF Commit
    <2>3. NoResume(t)'
      BY <1>3, <2>0, <2>2 DEF PurgeFenced, NoResume
    <2>4. ASSUME Silenced(t)' PROVE qb'[t] # "running"
      <3>1. CASE Silenced(t)
        BY <2>0, <2>2, <3>1 DEF PurgeFenced
      <3>2. CASE ~Silenced(t)
        <4>1. row[t].state = "PURGE_PENDING" /\ row[t].stop /\ ~row'[t].stop
          BY <1>3, <2>4, <3>2 DEF Silenced
        <4>2. ~Acknowledged(t, cycle[s]).stop /\ t \notin cycle[s].orphans
          BY <1>2, <4>1 DEF SchedulerInv, OrphansOutdated
        <4>3. t \in cycle[s].purges /\ ~cycle[s].failed
          BY <1>0, <4>1, <4>2, WithdrawnStop
        <4>4. StopOwed(s, t)
          BY <2>0, <4>1, <4>3 DEF PurgeFenced
        <4> QED
          BY <1>0, <2>2, <4>3, <4>4 DEF StopOwed
      <3> QED
        BY <3>1, <3>2
    <2> QED
      BY <1>1, <2>1, <2>3, <2>4, FencedAlone, IdleFields
  <1> QED
    BY <1>5, <1>6, <1>7 DEF SchedulerInv

\* A waiting scheduler takes or renews the lease: nobody else is at work.
LEMMA KeepLeaseInv ==
  ASSUME SchedulerInv, NEW s \in Scheduler, KeepLease(s)
  PROVE  SchedulerInv'
  <1>0. TypeOK
    BY DEF SchedulerInv
  <1>1. Moves(s)
    BY <1>0 DEF Moves, KeepLease, TypeOK
  <1>2. ~Overrun => \A t \in Torrent \ Unreachable : PurgeFenced(t)'
    BY DEF SchedulerInv, KeepLease, PurgeFenced, NoResume, Silenced, StopOwed
  <1> QED
    BY <1>0, <1>1, <1>2, CycleInv DEF KeepLease, TypeOK

\* A scheduler that is told to stop gives the lease back.
LEMMA ReleaseInv ==
  ASSUME SchedulerInv, NEW s \in Scheduler, Release(s)
  PROVE  SchedulerInv'
  <1>1. TypeOK'
    BY DEF SchedulerInv, TypeOK, Release
  <1>2. Leader'
    BY DEF SchedulerInv, Leader, Release
  <1> QED
    BY <1>1, <1>2 DEF SchedulerInv, Release, IdleIsIdle, OrphansOutdated, PurgeFenced, NoResume,
                      Silenced, StopOwed

\* A lease that expires leaves no scheduler at work, or there are overruns.
LEMMA LeaseExpiresInv ==
  ASSUME SchedulerInv, LeaseExpires
  PROVE  SchedulerInv'
  <1>0. TypeOK /\ Leader
    BY DEF SchedulerInv
  <1>1. lease' \in [owner : Scheduler \cup {NoScheduler}, live : BOOLEAN]
    BY <1>0 DEF LeaseExpires, TypeOK
  <1>2. TypeOK'
    BY <1>0, <1>1 DEF TypeOK, LeaseExpires
  <1>3. Leader'
    BY <1>0 DEF Leader, LeaseExpires
  <1> QED
    BY <1>2, <1>3 DEF SchedulerInv, LeaseExpires, IdleIsIdle, OrphansOutdated, PurgeFenced,
                      NoResume, Silenced, StopOwed

-----------------------------------------------------------------------------
(* Steps of a torrent                                                      *)

\* What the others may do to the captured controls: outdate some of them.
Outdates ==
    /\ cycle' \in [Scheduler -> Cycle]
    /\ \A s \in Scheduler :
         /\ cycle'[s].pc = cycle[s].pc /\ cycle'[s].stops = cycle[s].stops
         /\ cycle'[s].run = cycle[s].run /\ cycle'[s].start = cycle[s].start
         /\ cycle'[s].halt = cycle[s].halt /\ cycle'[s].failed = cycle[s].failed
         /\ cycle'[s].purges \subseteq cycle[s].purges
         /\ cycle'[s].orphans \subseteq cycle[s].orphans
         /\ cycle[s] = Idle => cycle'[s] = Idle

\* A step that concerns torrent t only.
Touches(t) ==
    /\ Outdates
    /\ lease' = lease /\ decided' = decided
    /\ row' \in [Torrent -> Row]
    /\ qb' \in [Torrent -> {"absent", "stopped", "running"}]
    /\ resume' \in SUBSET Torrent
    /\ \A x \in Torrent \ {t} : /\ row'[x] = row[x] /\ qb'[x] = qb[x]
                                /\ x \in resume' => x \in resume

\* An unchanged cycle is one.
LEMMA SameOutdates == TypeOK /\ cycle' = cycle => Outdates
  BY DEF TypeOK, Outdates

\* An increment of the generation leaves its torrent captured nowhere.
LEMMA BumpOutdates ==
  ASSUME TypeOK, NEW t \in Torrent, Bump(t)
  PROVE  /\ Outdates
         /\ \A s \in Scheduler : t \notin cycle'[s].purges /\ t \notin cycle'[s].orphans
  <1> DEFINE e(s) == [cycle[s] EXCEPT !.purges = @ \ {t}, !.errors = @ \ {t}, !.orphans = @ \ {t}]
  <1>1. \A s \in Scheduler : cycle[s] \in Cycle
    BY DEF TypeOK
  <1>2. ASSUME NEW s \in Scheduler
        PROVE  /\ e(s) \in Cycle
               /\ e(s).pc = cycle[s].pc /\ e(s).stops = cycle[s].stops
               /\ e(s).run = cycle[s].run /\ e(s).start = cycle[s].start
               /\ e(s).halt = cycle[s].halt /\ e(s).failed = cycle[s].failed
               /\ e(s).purges = cycle[s].purges \ {t}
               /\ e(s).orphans = cycle[s].orphans \ {t}
    BY <1>1 DEF Cycle
  <1>3. ASSUME NEW s \in Scheduler, cycle[s] = Idle PROVE e(s) = Idle
    <2>1. e(s) \in Cycle /\ Idle \in Cycle
      BY <1>2, IdleFields
    <2>2. /\ e(s).pc = Idle.pc /\ e(s).stops = Idle.stops /\ e(s).run = Idle.run
          /\ e(s).halt = Idle.halt /\ e(s).start = Idle.start /\ e(s).failed = Idle.failed
      BY <1>1, <1>3 DEF Cycle
    <2>3. e(s).purges = Idle.purges /\ e(s).errors = Idle.errors /\ e(s).orphans = Idle.orphans
      <3>1. /\ e(s).purges = cycle[s].purges \ {t} /\ e(s).errors = cycle[s].errors \ {t}
            /\ e(s).orphans = cycle[s].orphans \ {t}
        BY <1>1 DEF Cycle
      <3>2. Idle.purges = {} /\ Idle.errors = {} /\ Idle.orphans = {}
        BY DEF Idle
      <3> QED
        BY <1>3, <3>1, <3>2
    <2> HIDE DEF e
    <2> QED
      BY <2>1, <2>2, <2>3 DEF Cycle
  <1>4. cycle' = [s \in Scheduler |-> e(s)]
    BY DEF Bump
  <1> HIDE DEF e
  <1>5. cycle' \in [Scheduler -> Cycle] /\ \A s \in Scheduler : cycle'[s] = e(s)
    BY <1>2, <1>4
  <1> QED
    BY <1>2, <1>3, <1>5 DEF Outdates

\* What a torrent step has to show: only that its own torrent stays fenced.
LEMMA TouchesInv ==
  ASSUME SchedulerInv, NEW t \in Torrent, Touches(t),
         \/ row'[t].state = "PURGE_PENDING" => row[t].state = "PURGE_PENDING"
         \/ \A s \in Scheduler : t \notin cycle'[s].orphans,
         ~Overrun /\ t \notin Unreachable => PurgeFenced(t)'
  PROVE  SchedulerInv'
  <1>1. TypeOK'
    BY DEF Touches, Outdates, SchedulerInv, TypeOK
  <1>2. Leader'
    BY DEF Touches, Outdates, SchedulerInv, Leader
  <1>3. IdleIsIdle'
    BY DEF Touches, Outdates, SchedulerInv, IdleIsIdle
  <1>4. OrphansOutdated'
    BY DEF Touches, Outdates, SchedulerInv, OrphansOutdated
  <1>5. ASSUME ~Overrun, NEW x \in Torrent \ Unreachable PROVE PurgeFenced(x)'
    <2>1. CASE x = t
      BY <1>5, <2>1
    <2>2. CASE x # t
      <3>1. PurgeFenced(x)
        BY <1>5 DEF SchedulerInv
      <3>2. /\ row'[x] = row[x] /\ qb'[x] = qb[x] /\ (x \in resume' => x \in resume)
            /\ \A s \in Scheduler :
                 /\ cycle'[s].pc = cycle[s].pc /\ cycle'[s].stops = cycle[s].stops
                 /\ cycle'[s].run = cycle[s].run /\ cycle'[s].start = cycle[s].start
                 /\ cycle'[s].failed = cycle[s].failed
                 /\ cycle'[s].purges \subseteq cycle[s].purges
        BY <2>2 DEF Touches, Outdates
      <3> QED
        BY <3>1, <3>2 DEF PurgeFenced, NoResume, Silenced, StopOwed
    <2> QED
      BY <2>1, <2>2
  <1> QED
    BY <1>1, <1>2, <1>3, <1>4, <1>5 DEF SchedulerInv

\* A step that leaves the torrent outside the purge.
LEMMA OutsidePurge ==
  ASSUME SchedulerInv, NEW t \in Torrent, Touches(t),
         row'[t].state \notin {"PURGE_PENDING", "PURGING"}
  PROVE  SchedulerInv'
  <1>1. PurgeFenced(t)'
    BY DEF PurgeFenced, NoResume, Silenced
  <1> QED
    BY <1>1, TouchesInv

\* A step that leaves the torrent where it is, silences it no further and
\* starts nothing.
LEMMA StaysInPurge ==
  ASSUME SchedulerInv, NEW t \in Torrent, Touches(t),
         row'[t].state = row[t].state, Silenced(t)' => Silenced(t),
         qb'[t] = "running" => qb[t] = "running", t \in resume' => t \in resume
  PROVE  SchedulerInv'
  <1>1. ASSUME ~Overrun, t \notin Unreachable PROVE PurgeFenced(t)'
    <2>1. PurgeFenced(t)
      BY <1>1 DEF SchedulerInv
    <2> QED
      BY <2>1 DEF PurgeFenced, NoResume, StopOwed, Touches, Outdates
  <1> QED
    BY <1>1, TouchesInv

\* What a step writes to one row.
LEMMA WriteTyped ==
  ASSUME TypeOK, NEW t \in Torrent
  PROVE  \A r \in Row : Write(t, r) => /\ row' \in [Torrent -> Row] /\ row'[t] = r
                                       /\ \A x \in Torrent \ {t} : row'[x] = row[x]
  BY DEF Write, TypeOK

\* A step that writes a row, and perhaps increments its generation.
LEMMA WriteTouches ==
  ASSUME TypeOK, NEW t \in Torrent,
         lease' = lease, decided' = decided, cycle' = cycle \/ Bump(t),
         qb' = qb \/ qb' = [qb EXCEPT ![t] = IF @ = "absent" THEN "stopped" ELSE @],
         resume' = resume \/ resume' = resume \cup {t}
  PROVE  \A r \in Row : Write(t, r) => Touches(t) /\ row'[t] = r
  <1>1. Outdates
    BY SameOutdates, BumpOutdates
  <1>2. /\ qb' \in [Torrent -> {"absent", "stopped", "running"}]
        /\ \A x \in Torrent \ {t} : qb'[x] = qb[x]
    BY DEF TypeOK
  <1>3. resume' \in SUBSET Torrent /\ \A x \in Torrent \ {t} : x \in resume' => x \in resume
    BY DEF TypeOK
  <1> QED
    BY <1>1, <1>2, <1>3, WriteTyped DEF Touches

\* The steps that leave a torrent outside the purge: created, added, observed,
\* retried, joined, resumed by an administrator, or purged at last.
LEMMA OutsideSteps ==
  ASSUME SchedulerInv, NEW t \in Torrent,
         \/ Created(t) \/ Added(t) \/ RetryResync(t) \/ RetryAdd(t) \/ Joined(t) \/ PurgeCommits(t)
         \/ \E state \in {"CONTROLLED", "READY", "ERROR"} : Observed(t, state)
         \/ \E reschedules \in BOOLEAN : ForceResume(t, reschedules)
  PROVE  SchedulerInv'
  <1> DEFINE Outside(r) == r \in Row /\ r.state \notin {"PURGE_PENDING", "PURGING"}
  <1>0. TypeOK /\ row[t] \in Row
    BY DEF SchedulerInv, TypeOK
  <1>1. /\ lease' = lease /\ decided' = decided /\ (cycle' = cycle \/ Bump(t))
        /\ qb' = qb \/ qb' = [qb EXCEPT ![t] = IF @ = "absent" THEN "stopped" ELSE @]
        /\ resume' = resume \/ resume' = resume \cup {t}
    BY DEF Created, Added, RetryResync, RetryAdd, Joined, PurgeCommits, Observed, ForceResume
  <1>2. \E r : Outside(r) /\ Write(t, r)
    <2>1. CASE Created(t)
      <3> DEFINE r == [row[t] EXCEPT !.state = "OUT", !.held = TRUE]
      <3>1. Outside(r)
        BY <1>0 DEF Row, States
      <3> QED
        BY <2>1, <3>1 DEF Created
    <2>2. CASE Added(t)
      <3> DEFINE r == [row[t] EXCEPT !.state = "CONTROLLED"]
      <3>1. Outside(r)
        BY <1>0 DEF Row, States
      <3> QED
        BY <2>2, <3>1 DEF Added
    <2>3. CASE RetryResync(t)
      <3> DEFINE r == [Quiet(row[t]) EXCEPT !.state = "CONTROLLED"]
      <3>1. Outside(r)
        BY <1>0 DEF Row, States, Quiet
      <3> QED
        BY <2>3, <3>1 DEF RetryResync
    <2>4. CASE RetryAdd(t)
      <3> DEFINE r == [Quiet(row[t]) EXCEPT !.state = "OUT"]
      <3>1. Outside(r)
        BY <1>0 DEF Row, States, Quiet
      <3> QED
        BY <2>4, <3>1 DEF RetryAdd
    <2>5. CASE Joined(t)
      <3> DEFINE r == [row[t] EXCEPT !.held = TRUE, !.forced = FALSE, !.stop = FALSE]
      <3>1. Outside(r)
        BY <1>0, <2>5 DEF Row, States, Joined
      <3> QED
        BY <2>5, <3>1 DEF Joined
    <2>6. CASE PurgeCommits(t)
      <3>1. Outside(GoneRow)
        BY DEF GoneRow, Row, States
      <3> QED
        BY <2>6, <3>1 DEF PurgeCommits
    <2>7. CASE \E state \in {"CONTROLLED", "READY", "ERROR"} : Observed(t, state)
      <3>1. PICK state \in {"CONTROLLED", "READY", "ERROR"} : Observed(t, state)
        BY <2>7
      <3> DEFINE q == IF state = "READY" THEN Quiet(row[t]) ELSE row[t]
                 r == [q EXCEPT !.state = state]
      <3>2. q \in Row
        BY <1>0 DEF Row, Quiet
      <3>3. Write(t, r)
        BY <3>1 DEF Observed
      <3> HIDE DEF q
      <3>4. Outside(r)
        BY <3>2 DEF Row, States
      <3> QED
        BY <3>3, <3>4
    <2>8. CASE \E reschedules \in BOOLEAN : ForceResume(t, reschedules)
      <3> DEFINE r == [row[t] EXCEPT !.forced = TRUE, !.stop = FALSE]
      <3>1. Outside(r)
        BY <1>0, <2>8 DEF Row, States, ForceResume
      <3> QED
        BY <2>8, <3>1 DEF ForceResume
    <2> QED
      BY <2>1, <2>2, <2>3, <2>4, <2>5, <2>6, <2>7, <2>8
  <1>3. Touches(t) /\ Outside(row'[t])
    BY <1>0, <1>1, <1>2, WriteTouches
  <1> QED
    BY <1>3, OutsidePurge

\* The last right goes, or an administrator schedules the purge.
LEMMA RightsGoInv ==
  ASSUME SchedulerInv, NEW t \in Torrent, Orphaned(t) \/ AdminPurge(t)
  PROVE  SchedulerInv'
  <1> DEFINE p == [row[t] EXCEPT !.held = FALSE, !.stop = @ \/ row[t].forced]
             q == [row[t] EXCEPT !.held = FALSE, !.forced = FALSE]
             Kept(r) == /\ r \in Row /\ r.state = row[t].state
                        /\ ~r.stop => ~row[t].stop
  <1>0. TypeOK /\ row[t] \in Row
    BY DEF SchedulerInv, TypeOK
  <1>1. lease' = lease /\ decided' = decided /\ Bump(t) /\ qb' = qb /\ resume' = resume
    BY DEF Orphaned, AdminPurge
  <1>2. Write(t, p) \/ Write(t, q)
    BY DEF Orphaned, AdminPurge
  <1>3. Kept(p)
    BY <1>0 DEF Row
  <1>4. Kept(q)
    BY <1>0 DEF Row
  <1> HIDE DEF p, q
  <1>5. Touches(t) /\ Kept(row'[t])
    BY <1>0, <1>1, <1>2, <1>3, <1>4, WriteTouches
  <1>6. Silenced(t)' => Silenced(t)
    BY <1>5 DEF Silenced
  <1> QED
    BY <1>1, <1>5, <1>6, StaysInPurge

\* A resume reaches qBittorrent: its torrent is not being purged.
LEMMA ResumeArrivesInv ==
  ASSUME SchedulerInv, NEW t \in Torrent, ResumeArrives(t)
  PROVE  SchedulerInv'
  <1>0. TypeOK
    BY DEF SchedulerInv
  <1>1. Touches(t)
    <2>1. Outdates
      BY <1>0, SameOutdates DEF ResumeArrives
    <2>2. /\ qb' \in [Torrent -> {"absent", "stopped", "running"}]
          /\ \A x \in Torrent \ {t} : qb'[x] = qb[x]
      BY <1>0, StartedFacts DEF ResumeArrives, TypeOK
    <2> QED
      BY <1>0, <2>1, <2>2 DEF Touches, ResumeArrives, TypeOK
  <1>2. ASSUME ~Overrun, t \notin Unreachable PROVE PurgeFenced(t)'
    <2>1. row[t].state \notin {"PURGE_PENDING", "PURGING"}
      BY <1>2 DEF SchedulerInv, PurgeFenced, NoResume, ResumeArrives
    <2>2. row' = row
      BY DEF ResumeArrives
    <2> QED
      BY <2>1, <2>2 DEF PurgeFenced, NoResume, Silenced
  <1> QED
    BY <1>1, <1>2, TouchesInv DEF ResumeArrives

\* A purge that is activated owes a stop that no cycle has captured yet.
LEMMA PurgeActivatesInv ==
  ASSUME SchedulerInv, NEW t \in Torrent, PurgeActivates(t)
  PROVE  SchedulerInv'
  <1> DEFINE r == [Quiet(row[t]) EXCEPT !.state = "PURGE_PENDING", !.stop = TRUE]
  <1>0. TypeOK /\ row[t] \in Row
    BY DEF SchedulerInv, TypeOK
  <1>1. r \in Row /\ r.state = "PURGE_PENDING" /\ r.stop
    BY <1>0 DEF Row, States, Quiet
  <1>2. Write(t, r) /\ Bump(t) /\ lease' = lease /\ decided' = decided
    BY DEF PurgeActivates
  <1> HIDE DEF r
  <1>3. Touches(t) /\ row'[t] = r
    BY <1>0, <1>1, <1>2, WriteTouches DEF PurgeActivates
  <1>4. \A s \in Scheduler : t \notin cycle'[s].purges /\ t \notin cycle'[s].orphans
    BY <1>0, <1>2, BumpOutdates
  <1>5. ~Overrun => PurgeFenced(t)'
    BY <1>1, <1>3, <1>4 DEF PurgeFenced, NoResume, Silenced, PurgeActivates
  <1> QED
    BY <1>3, <1>4, <1>5, TouchesInv

\* The deletion begins under a torrent that is already silenced.
LEMMA PurgeBeginsInv ==
  ASSUME SchedulerInv, NEW t \in Torrent, PurgeBegins(t)
  PROVE  SchedulerInv'
  <1> DEFINE r == [row[t] EXCEPT !.state = "PURGING"]
  <1>0. TypeOK /\ row[t] \in Row
    BY DEF SchedulerInv, TypeOK
  <1>1. r \in Row /\ r.state = "PURGING"
    BY <1>0 DEF Row, States
  <1>2. Write(t, r) /\ lease' = lease /\ decided' = decided
    BY DEF PurgeBegins
  <1> HIDE DEF r
  <1>3. Touches(t) /\ row'[t] = r
    BY <1>0, <1>1, <1>2, WriteTouches DEF PurgeBegins
  <1>4. ASSUME ~Overrun, t \notin Unreachable PROVE PurgeFenced(t)'
    <2>1. PurgeFenced(t) /\ Silenced(t) /\ row[t].state = "PURGE_PENDING"
      BY <1>4 DEF SchedulerInv, PurgeBegins, Silenced
    <2>2. qb' = qb /\ cycle' = cycle /\ resume' = resume
      BY DEF PurgeBegins
    <2> QED
      BY <1>1, <1>3, <2>1, <2>2 DEF PurgeFenced, NoResume
  <1> QED
    BY <1>1, <1>3, <1>4, TouchesInv

\* The torrent is removed from qBittorrent.
LEMMA PurgeRemovesInv ==
  ASSUME SchedulerInv, NEW t \in Torrent, PurgeRemoves(t)
  PROVE  SchedulerInv'
  <1>0. TypeOK
    BY DEF SchedulerInv
  <1>1. Touches(t) /\ qb'[t] = "absent"
    BY <1>0, SameOutdates DEF Touches, PurgeRemoves, TypeOK
  <1> QED
    BY <1>1, StaysInPurge DEF PurgeRemoves, Silenced

-----------------------------------------------------------------------------
\* Every step preserves the invariant.
LEMMA NextInv == SchedulerInv /\ [Next]_vars => SchedulerInv'
  <1> SUFFICES ASSUME SchedulerInv, [Next]_vars PROVE SchedulerInv'
    OBVIOUS
  <1>1. ASSUME NEW s \in Scheduler, CycleStep(s) PROVE SchedulerInv'
    BY <1>1, DecideInv, RenewInv, StopsAppliedInv, StopsFailInv, ControlsStopInv,
       ControlsStartInv, ControlsFailInv, CommitInv, CycleFailsInv, KeepLeaseInv, ReleaseInv
       DEF CycleStep
  <1>2. CASE LeaseExpires
    BY <1>2, LeaseExpiresInv
  <1>3. ASSUME NEW t \in Torrent, TorrentStep(t) PROVE SchedulerInv'
    BY <1>3, OutsideSteps, RightsGoInv, ResumeArrivesInv, PurgeActivatesInv, PurgeBeginsInv,
       PurgeRemovesInv DEF TorrentStep
  <1>4. CASE UNCHANGED vars
    BY <1>4 DEF vars, SchedulerInv, TypeOK, Leader, IdleIsIdle, OrphansOutdated, PurgeFenced,
                NoResume, Silenced, StopOwed
  <1> QED
    BY <1>1, <1>2, <1>3, <1>4 DEF Next

\* For any number of schedulers, torrents and slots: rows, cycles and lease
\* are well typed, an idle scheduler owes nothing, and without overruns a
\* scheduler at work holds the lease and every purge is fenced.
THEOREM SchedulerInvariant == Spec => []SchedulerInv
  BY InitInv, NextInv, PTL DEF Spec

\* As long as a phase fits in the lease (runtime.py renews it before each),
\* no content is ever deleted under a torrent that qBittorrent runs.
THEOREM NoRunningPurge ==
  ASSUME ~Overrun
  PROVE  Spec => []StoppedBeforePurge
  <1>1. SchedulerInv => StoppedBeforePurge
    BY DEF SchedulerInv, StoppedBeforePurge, PurgeFenced
  <1> QED
    BY <1>1, SchedulerInvariant, PTL

-----------------------------------------------------------------------------
(* What a step of a cycle is                                               *)

\* On the way to the schedule: torrents are only stopped, and the schedule is
\* left out when it is empty.
Waits(s) ==
    /\ cycle[s].pc \in {"renew1", "stops", "renew2"}
    /\ cycle'[s].pc \in {"stops", "renew2", "controls", "commit"}
    /\ cycle'[s].pc = "commit" => cycle[s].run \cup cycle[s].halt = {}
    /\ cycle'[s].run = cycle[s].run /\ cycle'[s].halt = cycle[s].halt
    /\ cycle'[s].start = cycle[s].start /\ cycle'[s].orphans = cycle[s].orphans
    /\ \A t \in Torrent : qb'[t] = "running" => qb[t] = "running"
    /\ \A t \in Torrent : qb[t] = "absent" => qb'[t] = "absent"
    /\ row' = row

\* The first call of the schedule
Halts(s) ==
    /\ cycle[s].pc = "controls" /\ cycle'[s].pc = "starts"
    /\ cycle'[s].start \subseteq cycle[s].run
    /\ cycle'[s].run = {} /\ cycle'[s].orphans = cycle[s].orphans
    /\ qb' = Stopped(cycle[s].halt)
    /\ row' = row

\* Its second call
Starts(s) ==
    /\ cycle[s].pc = "starts" /\ cycle'[s].pc = "commit"
    /\ cycle'[s].run = cycle[s].run /\ cycle'[s].start = {}
    /\ cycle'[s].orphans = cycle[s].orphans
    /\ qb' = Started(cycle[s].start)
    /\ row' = row

\* The cycle is over: it may have started some of what it meant to, and
\* withdrawn markers.
Ends(s) ==
    /\ cycle[s] # Idle /\ cycle'[s] = Idle
    /\ \A t \in Torrent : /\ qb'[t] = "running" =>
                               qb[t] = "running" \/ (cycle[s].pc = "starts" /\ t \in cycle[s].start \ Unreachable)
                          /\ qb[t] = "absent" => qb'[t] = "absent"
                          /\ row'[t].state = row[t].state
                          /\ row'[t].stop => row[t].stop
                          /\ row'[t].forced => row[t].forced

\* Between two cycles
Stays == row' = row /\ qb' = qb /\ cycle' = cycle

\* A stop call brings no torrent into qBittorrent, and neither does a start
\* call.
LEMMA CallsAddNothing ==
  ASSUME TypeOK
  PROVE  \A T, t : t \in Torrent /\ qb[t] = "absent" =>
             Stopped(T)[t] = "absent" /\ Started(T)[t] = "absent"
  BY DEF Stopped, Started, TypeOK

\* A start call starts nothing that the gateway skips.
LEMMA StartedReachable ==
  ASSUME TypeOK
  PROVE  \A T, t : t \in Torrent /\ Started(T)[t] = "running" =>
             qb[t] = "running" \/ t \in T \ Unreachable
  BY DEF Started, TypeOK

\* An acknowledgement gives no marker.
LEMMA AcknowledgedWithdraws ==
  ASSUME TypeOK, NEW s \in Scheduler, NEW t \in Torrent
  PROVE  /\ Acknowledged(t, cycle[s]).stop => row[t].stop
         /\ Acknowledged(t, cycle[s]).forced => row[t].forced
  <1> DEFINE r == row[t]
             A == [r EXCEPT !.stop = FALSE]
             B == [r EXCEPT !.desired = FALSE, !.forced = FALSE]
             C == [r EXCEPT !.stop = FALSE, !.forced = FALSE]
             Withdrawn(x) == (x.stop => r.stop) /\ (x.forced => r.forced)
  <1>1. r \in Row
    BY DEF TypeOK
  <1>2. Withdrawn(A)
    BY <1>1 DEF Row
  <1>3. Withdrawn(B)
    BY <1>1 DEF Row
  <1>4. Withdrawn(C)
    BY <1>1 DEF Row
  <1>5. Acknowledged(t, cycle[s]) \in {A, B, C, r}
    BY DEF Acknowledged
  <1> HIDE DEF A, B, C
  <1> QED
    BY <1>2, <1>3, <1>4, <1>5

\* Every step of a cycle is one of these.
LEMMA CycleSteps ==
  ASSUME TypeOK, NEW s \in Scheduler, CycleStep(s)
  PROVE  /\ resume' = resume
         /\ \A x \in Scheduler \ {s} : cycle'[x] = cycle[x]
         /\ \/ \E R : Decide(s, R)
            \/ Waits(s) \/ Halts(s) \/ Starts(s) \/ Ends(s) \/ Stays
  <1>0. cycle \in [Scheduler -> Cycle] /\ cycle[s] \in Cycle
    BY DEF TypeOK
  <1>1. CASE \E R \in SUBSET Torrent : Decide(s, R)
    <2>1. PICK R \in SUBSET Torrent : Decide(s, R)
      BY <1>1
    <2>2. resume' = resume /\ \A x \in Scheduler \ {s} : cycle'[x] = cycle[x]
      BY <1>0, <2>1 DEF Decide
    <2> QED
      BY <2>1, <2>2
  <1>2. CASE Renew(s)
    <2>1. resume' = resume /\ row' = row /\ qb' = qb
      BY <1>2 DEF Renew
    <2>2. CASE MayAcquire(s)
      <3> DEFINE p == IF cycle[s].pc = "renew2" THEN "controls"
                      ELSE IF cycle[s].stops # {} THEN "stops"
                      ELSE AfterStops(cycle[s], "controls")
      <3>1. /\ p \in {"stops", "controls", "commit"}
            /\ p = "commit" => cycle[s].run \cup cycle[s].halt = {}
        BY DEF AfterStops
      <3>2. cycle' = [cycle EXCEPT ![s].pc = p] /\ cycle[s].pc \in {"renew1", "renew2"}
        BY <1>2, <2>2 DEF Renew
      <3> HIDE DEF p
      <3>3. cycle'[s] = [cycle[s] EXCEPT !.pc = p] /\ \A x \in Scheduler \ {s} : cycle'[x] = cycle[x]
        BY <1>0, <3>2
      <3>4. /\ cycle'[s].pc = p /\ cycle'[s].run = cycle[s].run /\ cycle'[s].halt = cycle[s].halt
            /\ cycle'[s].start = cycle[s].start /\ cycle'[s].orphans = cycle[s].orphans
        BY <1>0, <3>3 DEF Cycle
      <3> QED
        BY <2>1, <3>1, <3>2, <3>3, <3>4 DEF Waits
    <2>3. CASE ~MayAcquire(s)
      <3>1. cycle' = [cycle EXCEPT ![s] = Idle] /\ cycle[s] # Idle
        BY <1>2, <2>3, IdleFields DEF Renew
      <3>2. cycle'[s] = Idle /\ \A x \in Scheduler \ {s} : cycle'[x] = cycle[x]
        BY <1>0, <3>1
      <3>3. Ends(s)
        BY <2>1, <3>1, <3>2 DEF Ends
      <3> QED
        BY <2>1, <3>2, <3>3
    <2> QED
      BY <2>2, <2>3
  <1>3. CASE StopsApplied(s) \/ StopsFail(s)
    <2> DEFINE p == AfterStops(cycle[s], "renew2")
               e == [cycle[s] EXCEPT !.pc = p, !.stops = {}]
               f == [cycle[s] EXCEPT !.pc = p, !.stops = {}, !.failed = TRUE]
               Left(c) == /\ c.pc = p /\ c.run = cycle[s].run /\ c.halt = cycle[s].halt
                          /\ c.start = cycle[s].start /\ c.orphans = cycle[s].orphans
    <2>1. resume' = resume /\ row' = row /\ cycle[s].pc = "stops"
      BY <1>3 DEF StopsApplied, StopsFail
    <2>2. /\ \A t \in Torrent : qb'[t] = "running" => qb[t] = "running"
          /\ \A t \in Torrent : qb[t] = "absent" => qb'[t] = "absent"
      <3>1. PICK T : qb' = Stopped(T)
        BY <1>3 DEF StopsApplied, StopsFail
      <3> QED
        BY <3>1, StoppedFacts, CallsAddNothing
    <2>3. p \in {"renew2", "commit"} /\ (p = "commit" => cycle[s].run \cup cycle[s].halt = {})
      BY DEF AfterStops
    <2>4. cycle' = [cycle EXCEPT ![s] = e] \/ cycle' = [cycle EXCEPT ![s] = f]
      BY <1>3 DEF StopsApplied, StopsFail
    <2> HIDE DEF p
    <2>5. Left(e)
      BY <1>0 DEF Cycle
    <2>6. Left(f)
      BY <1>0 DEF Cycle
    <2> HIDE DEF e, f
    <2>7. Left(cycle'[s]) /\ \A x \in Scheduler \ {s} : cycle'[x] = cycle[x]
      BY <1>0, <2>4, <2>5, <2>6
    <2> QED
      BY <2>1, <2>2, <2>3, <2>7 DEF Waits
  <1>4. CASE ControlsStop(s)
    <2> DEFINE found == {t \in cycle[s].run : qb[t] = "stopped"}
               e == [cycle[s] EXCEPT !.pc = "starts", !.run = {}, !.halt = {}, !.start = found]
    <2>1. cycle' = [cycle EXCEPT ![s] = e] /\ found \subseteq cycle[s].run
      BY <1>4 DEF ControlsStop
    <2> HIDE DEF found
    <2>2. e.pc = "starts" /\ e.run = {} /\ e.start = found /\ e.orphans = cycle[s].orphans
      BY <1>0 DEF Cycle
    <2> HIDE DEF e
    <2>3. cycle'[s] = e /\ \A x \in Scheduler \ {s} : cycle'[x] = cycle[x]
      BY <1>0, <2>1
    <2> QED
      BY <1>4, <2>1, <2>2, <2>3 DEF ControlsStop, Halts
  <1>5. CASE ControlsStart(s)
    <2> DEFINE e == [cycle[s] EXCEPT !.pc = "commit", !.start = {}]
    <2>1. cycle' = [cycle EXCEPT ![s] = e]
      BY <1>5 DEF ControlsStart
    <2>2. e.pc = "commit" /\ e.run = cycle[s].run /\ e.start = {} /\ e.orphans = cycle[s].orphans
      BY <1>0 DEF Cycle
    <2> HIDE DEF e
    <2>3. cycle'[s] = e /\ \A x \in Scheduler \ {s} : cycle'[x] = cycle[x]
      BY <1>0, <2>1
    <2> QED
      BY <1>5, <2>2, <2>3 DEF ControlsStart, Starts
  <1>6. CASE ControlsFail(s)
    <2>1. \A t \in Torrent : /\ qb'[t] = "running" =>
                                  qb[t] = "running" \/ (cycle[s].pc = "starts" /\ t \in cycle[s].start \ Unreachable)
                             /\ qb[t] = "absent" => qb'[t] = "absent"
      <3>1. CASE cycle[s].pc = "controls" /\ \E T \in SUBSET cycle[s].halt : qb' = Stopped(T)
        <4>1. PICK T \in SUBSET cycle[s].halt : qb' = Stopped(T)
          BY <3>1
        <4>2. \A t \in Torrent : qb'[t] = "running" => qb[t] = "running"
          BY <4>1, StoppedFacts
        <4>3. \A t \in Torrent : qb[t] = "absent" => qb'[t] = "absent"
          BY <4>1, CallsAddNothing
        <4> QED
          BY <4>2, <4>3
      <3>2. CASE cycle[s].pc = "starts" /\ \E T \in SUBSET cycle[s].start : qb' = Started(T)
        <4>1. PICK T \in SUBSET cycle[s].start : qb' = Started(T)
          BY <3>2
        <4>2. \A t \in Torrent : qb'[t] = "running" =>
                 qb[t] = "running" \/ t \in cycle[s].start \ Unreachable
          BY <4>1, StartedReachable
        <4>3. \A t \in Torrent : qb[t] = "absent" => qb'[t] = "absent"
          BY <4>1, CallsAddNothing
        <4> QED
          BY <3>2, <4>2, <4>3
      <3> QED
        BY <1>6, <3>1, <3>2 DEF ControlsFail
    <2>2. cycle[s] # Idle /\ cycle' = [cycle EXCEPT ![s] = Idle] /\ row' = row /\ resume' = resume
      BY <1>6, IdleFields DEF ControlsFail
    <2> QED
      BY <1>0, <2>1, <2>2 DEF Ends
  <1>7. CASE Commit(s)
    <2>1. /\ cycle[s] # Idle /\ cycle' = [cycle EXCEPT ![s] = Idle]
          /\ qb' = qb /\ resume' = resume
      BY <1>7, IdleFields DEF Commit
    <2>2. \A t \in Torrent : row'[t] = row[t] \/ row'[t] = Acknowledged(t, cycle[s])
      BY <1>7 DEF Commit
    <2>3. \A t \in Torrent : /\ row'[t].state = row[t].state
                             /\ row'[t].stop => row[t].stop
                             /\ row'[t].forced => row[t].forced
      BY <2>2, AcknowledgedFacts, AcknowledgedWithdraws
    <2>4. cycle'[s] = Idle /\ \A x \in Scheduler \ {s} : cycle'[x] = cycle[x]
      BY <1>0, <2>1
    <2>5. Ends(s)
      BY <2>1, <2>3, <2>4 DEF Ends
    <2> QED
      BY <2>1, <2>4, <2>5
  <1>8. CASE CycleFails(s)
    <2>1. /\ cycle[s] # Idle /\ cycle' = [cycle EXCEPT ![s] = Idle]
          /\ row' = row /\ qb' = qb /\ resume' = resume
      BY <1>8 DEF CycleFails
    <2>2. cycle'[s] = Idle /\ \A x \in Scheduler \ {s} : cycle'[x] = cycle[x]
      BY <1>0, <2>1
    <2>3. Ends(s)
      BY <2>1, <2>2 DEF Ends
    <2> QED
      BY <2>1, <2>2, <2>3
  <1>9. CASE KeepLease(s) \/ Release(s)
    BY <1>9 DEF KeepLease, Release, Stays
  <1> QED
    BY <1>1, <1>2, <1>3, <1>4, <1>5, <1>6, <1>7, <1>8, <1>9 DEF CycleStep

-----------------------------------------------------------------------------
(* The stops owed to forced torrents                                       *)

\* The stop captured for a forced torrent that lost its last right, as long as
\* it is still owed: the cycle that captured it does not start the torrent, and
\* stops it before it acknowledges.
OrphanOwed(s, t) ==
    t \in cycle[s].orphans /\ row[t].stop =>
        /\ t \notin cycle[s].run \cup cycle[s].start
        /\ cycle[s].pc \in {"renew1", "stops", "renew2", "controls"} => t \in cycle[s].halt
        /\ cycle[s].pc \in {"starts", "commit"} => qb[t] # "running"

\* No resume is under way for a torrent whose stop is owed.
StopQuiet(t) == row[t].stop => t \notin resume

OrphanInv ==
    \A t \in Torrent \ Unreachable : StopQuiet(t) /\ \A s \in Scheduler : OrphanOwed(s, t)

\* What a step of a torrent does to the stop that is owed to it: it may begin
\* to owe one only when no captured stop is left, and only a resume that is
\* under way starts the torrent.
LEMMA TorrentTouches ==
  ASSUME TypeOK, NEW t \in Torrent, TorrentStep(t)
  PROVE  /\ Touches(t)
         /\ row'[t].stop => row[t].stop \/ \A s \in Scheduler : t \notin cycle'[s].orphans
         /\ ~Overrun /\ StopQuiet(t) => StopQuiet(t)'
         /\ qb'[t] = "running" => qb[t] = "running" \/ t \in resume
  <1>0. row[t] \in Row /\ qb[t] \in {"absent", "stopped", "running"}
    BY DEF TypeOK
  <1>1. CASE Created(t)
    <2> DEFINE r == [row[t] EXCEPT !.state = "OUT", !.held = TRUE]
    <2>1. r \in Row /\ r.stop = row[t].stop
      BY <1>0 DEF Row, States
    <2>2. Touches(t) /\ row'[t] = r
      BY <1>1, <2>1, WriteTouches DEF Created
    <2> HIDE DEF r
    <2> QED
      BY <1>1, <2>1, <2>2 DEF Created, StopQuiet
  <1>2. CASE Added(t)
    <2> DEFINE r == [row[t] EXCEPT !.state = "CONTROLLED"]
    <2>1. r \in Row /\ r.stop = row[t].stop
      BY <1>0 DEF Row, States
    <2>2. Touches(t) /\ row'[t] = r
      BY <1>2, <2>1, WriteTouches DEF Added
    <2> HIDE DEF r
    <2>3. resume' = resume /\ (qb'[t] = "running" => qb[t] = "running")
      BY <1>2 DEF Added, TypeOK
    <2> QED
      BY <2>1, <2>2, <2>3 DEF StopQuiet
  <1>3. CASE \E state \in {"CONTROLLED", "READY", "ERROR"} : Observed(t, state)
    <2>1. PICK state \in {"CONTROLLED", "READY", "ERROR"} : Observed(t, state)
      BY <1>3
    <2> DEFINE q == IF state = "READY" THEN Quiet(row[t]) ELSE row[t]
               r == [q EXCEPT !.state = state]
    <2>2. q \in Row /\ q.stop = row[t].stop
      BY <1>0 DEF Row, Quiet
    <2>3. Write(t, r)
      BY <2>1 DEF Observed
    <2> HIDE DEF q
    <2>4. r \in Row /\ r.stop = row[t].stop
      BY <2>2 DEF Row, States
    <2> HIDE DEF r
    <2>5. Touches(t) /\ row'[t] = r
      BY <2>1, <2>3, <2>4, WriteTouches DEF Observed
    <2> QED
      BY <2>1, <2>4, <2>5 DEF Observed, StopQuiet
  <1>4. CASE RetryResync(t)
    <2> DEFINE r == [Quiet(row[t]) EXCEPT !.state = "CONTROLLED"]
    <2>1. r \in Row /\ r.stop = row[t].stop
      BY <1>0 DEF Row, States, Quiet
    <2>2. Touches(t) /\ row'[t] = r
      BY <1>4, <2>1, WriteTouches DEF RetryResync
    <2> HIDE DEF r
    <2> QED
      BY <1>4, <2>1, <2>2 DEF RetryResync, StopQuiet
  <1>5. CASE RetryAdd(t)
    <2> DEFINE r == [Quiet(row[t]) EXCEPT !.state = "OUT"]
    <2>1. r \in Row /\ r.stop = row[t].stop
      BY <1>0 DEF Row, States, Quiet
    <2>2. Touches(t) /\ row'[t] = r
      BY <1>5, <2>1, WriteTouches DEF RetryAdd
    <2> HIDE DEF r
    <2> QED
      BY <1>5, <2>1, <2>2 DEF RetryAdd, StopQuiet
  <1>6. CASE Orphaned(t)
    <2> DEFINE r == [row[t] EXCEPT !.held = FALSE, !.stop = @ \/ row[t].forced]
    <2>1. r \in Row
      BY <1>0 DEF Row
    <2>2. Touches(t)
      BY <1>6, <2>1, WriteTouches DEF Orphaned
    <2>3. \A s \in Scheduler : t \notin cycle'[s].orphans
      BY <1>6, BumpOutdates DEF Orphaned
    <2> QED
      BY <1>6, <2>2, <2>3 DEF Orphaned, StopQuiet
  <1>7. CASE Joined(t)
    <2> DEFINE r == [row[t] EXCEPT !.held = TRUE, !.forced = FALSE, !.stop = FALSE]
    <2>1. r \in Row /\ ~r.stop
      BY <1>0 DEF Row
    <2>2. Touches(t) /\ row'[t] = r
      BY <1>7, <2>1, WriteTouches DEF Joined
    <2> HIDE DEF r
    <2> QED
      BY <1>7, <2>1, <2>2 DEF Joined, StopQuiet
  <1>8. CASE \E reschedules \in BOOLEAN : ForceResume(t, reschedules)
    <2> DEFINE r == [row[t] EXCEPT !.forced = TRUE, !.stop = FALSE]
    <2>1. r \in Row /\ ~r.stop
      BY <1>0 DEF Row
    <2>2. Touches(t) /\ row'[t] = r
      BY <1>8, <2>1, WriteTouches DEF ForceResume
    <2> HIDE DEF r
    <2> QED
      BY <1>8, <2>1, <2>2 DEF ForceResume, StopQuiet
  <1>9. CASE ResumeArrives(t)
    <2>1. Outdates
      BY <1>9, SameOutdates DEF ResumeArrives
    <2>2. /\ qb' \in [Torrent -> {"absent", "stopped", "running"}]
          /\ \A x \in Torrent \ {t} : qb'[x] = qb[x]
      BY <1>9, StartedFacts DEF ResumeArrives, TypeOK
    <2>3. Touches(t)
      BY <1>9, <2>1, <2>2 DEF Touches, ResumeArrives, TypeOK
    <2> QED
      BY <1>9, <2>3 DEF ResumeArrives, StopQuiet
  <1>10. CASE AdminPurge(t)
    <2> DEFINE r == [row[t] EXCEPT !.held = FALSE, !.forced = FALSE]
    <2>1. r \in Row /\ r.stop = row[t].stop
      BY <1>0 DEF Row
    <2>2. Touches(t) /\ row'[t] = r
      BY <1>10, <2>1, WriteTouches DEF AdminPurge
    <2> HIDE DEF r
    <2> QED
      BY <1>10, <2>1, <2>2 DEF AdminPurge, StopQuiet
  <1>11. CASE PurgeActivates(t)
    <2> DEFINE r == [Quiet(row[t]) EXCEPT !.state = "PURGE_PENDING", !.stop = TRUE]
    <2>1. r \in Row
      BY <1>0 DEF Row, States, Quiet
    <2>2. Touches(t)
      BY <1>11, <2>1, WriteTouches DEF PurgeActivates
    <2>3. \A s \in Scheduler : t \notin cycle'[s].orphans
      BY <1>11, BumpOutdates DEF PurgeActivates
    <2> QED
      BY <1>11, <2>2, <2>3 DEF PurgeActivates, StopQuiet
  <1>12. CASE PurgeBegins(t)
    <2> DEFINE r == [row[t] EXCEPT !.state = "PURGING"]
    <2>1. r \in Row /\ r.stop = row[t].stop
      BY <1>0 DEF Row, States
    <2>2. Touches(t) /\ row'[t] = r
      BY <1>12, <2>1, WriteTouches DEF PurgeBegins
    <2> HIDE DEF r
    <2> QED
      BY <1>12, <2>1, <2>2 DEF PurgeBegins, StopQuiet
  <1>13. CASE PurgeRemoves(t)
    <2>1. Touches(t) /\ qb'[t] = "absent"
      BY <1>13, SameOutdates DEF Touches, PurgeRemoves, TypeOK
    <2> QED
      BY <1>13, <2>1 DEF PurgeRemoves, StopQuiet
  <1>14. CASE PurgeCommits(t)
    <2>1. GoneRow \in Row /\ ~GoneRow.stop
      BY DEF GoneRow, Row, States
    <2>2. Touches(t) /\ row'[t] = GoneRow
      BY <1>14, <2>1, WriteTouches DEF PurgeCommits
    <2> QED
      BY <1>14, <2>1, <2>2 DEF PurgeCommits, StopQuiet
  <1> QED
    BY <1>1, <1>2, <1>3, <1>4, <1>5, <1>6, <1>7, <1>8, <1>9, <1>10, <1>11, <1>12, <1>13, <1>14
       DEF TorrentStep

\* The steps of a cycle keep the stops owed to forced torrents.
LEMMA OrphanCycle ==
  ASSUME SchedulerInv, OrphanInv, ~Overrun, NEW s \in Scheduler, CycleStep(s)
  PROVE  OrphanInv'
  <1>0. TypeOK /\ cycle \in [Scheduler -> Cycle]
    BY DEF SchedulerInv, TypeOK
  <1>1. /\ resume' = resume
        /\ \A x \in Scheduler \ {s} : cycle'[x] = cycle[x]
        /\ \/ \E R : Decide(s, R)
           \/ Waits(s) \/ Halts(s) \/ Starts(s) \/ Ends(s) \/ Stays
    BY <1>0, CycleSteps
  <1>2. CASE Stays
    BY <1>1, <1>2 DEF Stays, OrphanInv, StopQuiet, OrphanOwed
  <1>3. ASSUME cycle[s] # Idle \/ MayAcquire(s),
               \A t \in Torrent : row'[t].stop => row[t].stop,
               \A t \in Torrent \ Unreachable : OrphanOwed(s, t)'
        PROVE  OrphanInv'
    <2>1. \A x \in Scheduler \ {s} : cycle'[x] = Idle
      BY <1>1, <1>3, Alone
    <2>2. \A t \in Torrent \ Unreachable : StopQuiet(t)'
      BY <1>1, <1>3 DEF OrphanInv, StopQuiet
    <2>3. \A t \in Torrent \ Unreachable : \A x \in Scheduler \ {s} : OrphanOwed(x, t)'
      BY <2>1, IdleFields DEF OrphanOwed
    <2> QED
      BY <1>3, <2>2, <2>3 DEF OrphanInv
  <1>4. CASE \E R : Decide(s, R)
    <2>1. PICK R : Decide(s, R)
      BY <1>4
    <2> DEFINE e == [pc |-> "renew1", stops |-> PurgeStops \cup ErrorStops,
                     run |-> Forced \cup R, halt |-> Schedulable \ R, start |-> {},
                     purges |-> PurgeStops, errors |-> ErrorStops,
                     orphans |-> OrphanStops(R), failed |-> FALSE]
    <2>2. cycle' = [cycle EXCEPT ![s] = e] /\ MayAcquire(s)
      BY <2>1 DEF Decide
    <2>3. /\ e.pc = "renew1" /\ e.run = Forced \cup R /\ e.halt = Schedulable \ R
          /\ e.start = {} /\ e.orphans = OrphanStops(R)
      OBVIOUS
    <2> HIDE DEF e
    <2>4. cycle'[s] = e
      BY <1>0, <2>2
    <2>5. \A t \in Torrent \ Unreachable : OrphanOwed(s, t)'
      BY <2>3, <2>4 DEF OrphanOwed, OrphanStops, Schedulable
    <2>6. \A t \in Torrent : row'[t].stop => row[t].stop
      <3> SUFFICES ASSUME NEW t \in Torrent PROVE row'[t].stop => row[t].stop
        OBVIOUS
      <3>1. row[t] \in Row
        BY <1>0 DEF TypeOK
      <3>2. row'[t] = row[t] \/ row'[t] = [row[t] EXCEPT !.desired = t \in R]
        BY <2>1 DEF Decide
      <3>3. [row[t] EXCEPT !.desired = t \in R].stop = row[t].stop
        BY <3>1 DEF Row
      <3> QED
        BY <3>2, <3>3
    <2> QED
      BY <1>3, <2>2, <2>5, <2>6
  <1>5. CASE Waits(s)
    <2>1. cycle[s] # Idle /\ row' = row
      BY <1>5, IdleFields DEF Waits
    <2>2. \A t \in Torrent \ Unreachable : OrphanOwed(s, t)'
      BY <1>5 DEF Waits, OrphanInv, OrphanOwed
    <2> QED
      BY <1>3, <2>1, <2>2
  <1>6. CASE Halts(s)
    <2>1. cycle[s] # Idle /\ row' = row
      BY <1>6, IdleFields DEF Halts
    <2>2. \A t \in Torrent \ Unreachable : t \in cycle[s].halt => qb'[t] # "running"
      BY <1>0, <1>6, StoppedFacts DEF Halts
    <2>3. \A t \in Torrent \ Unreachable : OrphanOwed(s, t)'
      BY <1>6, <2>2 DEF Halts, OrphanInv, OrphanOwed
    <2> QED
      BY <1>3, <2>1, <2>3
  <1>7. CASE Starts(s)
    <2>1. cycle[s] # Idle /\ row' = row
      BY <1>7, IdleFields DEF Starts
    <2>2. \A t \in Torrent : t \notin cycle[s].start => qb'[t] = qb[t]
      BY <1>0, <1>7, StartedFacts DEF Starts
    <2>3. \A t \in Torrent \ Unreachable : OrphanOwed(s, t)'
      BY <1>7, <2>2 DEF Starts, OrphanInv, OrphanOwed
    <2> QED
      BY <1>3, <2>1, <2>3
  <1>8. CASE Ends(s)
    <2>1. \A t \in Torrent \ Unreachable : OrphanOwed(s, t)'
      BY <1>8, IdleFields DEF Ends, OrphanOwed
    <2> QED
      BY <1>3, <1>8, <2>1 DEF Ends
  <1> QED
    BY <1>1, <1>2, <1>4, <1>5, <1>6, <1>7, <1>8

\* Every step does.
LEMMA OrphanNext ==
  ASSUME SchedulerInv, OrphanInv, ~Overrun, [Next]_vars
  PROVE  OrphanInv'
  <1>0. TypeOK
    BY DEF SchedulerInv
  <1>1. ASSUME NEW s \in Scheduler, CycleStep(s) PROVE OrphanInv'
    BY <1>1, OrphanCycle
  <1>2. CASE LeaseExpires \/ UNCHANGED vars
    BY <1>2 DEF LeaseExpires, vars, OrphanInv, StopQuiet, OrphanOwed
  <1>3. ASSUME NEW t \in Torrent, TorrentStep(t) PROVE OrphanInv'
    <2>1. /\ Touches(t)
          /\ row'[t].stop => row[t].stop \/ \A s \in Scheduler : t \notin cycle'[s].orphans
          /\ StopQuiet(t) => StopQuiet(t)'
          /\ qb'[t] = "running" => qb[t] = "running" \/ t \in resume
      BY <1>0, <1>3, TorrentTouches
    <2>2. ASSUME NEW x \in Torrent \ Unreachable PROVE StopQuiet(x)'
      <3>1. StopQuiet(x)
        BY DEF OrphanInv
      <3>2. CASE x = t
        BY <2>1, <3>1, <3>2
      <3>3. CASE x # t
        BY <2>1, <3>1, <3>3 DEF Touches, StopQuiet
      <3> QED
        BY <3>2, <3>3
    <2>3. ASSUME NEW x \in Torrent \ Unreachable, NEW s \in Scheduler PROVE OrphanOwed(s, x)'
      <3>1. OrphanOwed(s, x) /\ StopQuiet(x)
        BY DEF OrphanInv
      <3>2. /\ cycle'[s].pc = cycle[s].pc
            /\ cycle'[s].run = cycle[s].run /\ cycle'[s].start = cycle[s].start
            /\ cycle'[s].halt = cycle[s].halt
            /\ cycle'[s].orphans \subseteq cycle[s].orphans
        BY <2>1 DEF Touches, Outdates
      <3>3. CASE x = t
        <4>1. x \in cycle'[s].orphans /\ row'[x].stop => row[x].stop
          BY <2>1, <3>3
        <4>2. row[x].stop /\ qb'[x] = "running" => qb[x] = "running"
          BY <2>1, <3>1, <3>3 DEF StopQuiet
        <4> QED
          BY <3>1, <3>2, <4>1, <4>2 DEF OrphanOwed
      <3>4. CASE x # t
        <4>1. row'[x] = row[x] /\ qb'[x] = qb[x]
          BY <2>1, <3>4 DEF Touches
        <4> QED
          BY <3>1, <3>2, <4>1 DEF OrphanOwed
      <3> QED
        BY <3>3, <3>4
    <2> QED
      BY <2>2, <2>3 DEF OrphanInv
  <1> QED
    BY <1>1, <1>2, <1>3 DEF Next

\* As long as a phase fits in the lease, and a request to resume in the time
\* its torrent is held: the marker of a forced torrent is withdrawn only once
\* qBittorrent has stopped the torrent, for any schedulers and torrents.
THEOREM ForcedStopHonoured ==
  ASSUME ~Overrun
  PROVE  Spec => OrphanStopHonoured
  <1> DEFINE Honoured == \A s \in Scheduler, t \in Torrent \ Unreachable :
                 /\ Commit(s)
                 /\ row[t].state = "CONTROLLED" /\ row[t].forced /\ ~row'[t].forced
                 => qb[t] # "running"
  <1>1. Init => OrphanInv
    BY DEF Init, OrphanInv, StopQuiet, OrphanOwed, GoneRow, Idle
  <1>2. SchedulerInv /\ OrphanInv /\ [Next]_vars => OrphanInv'
    BY OrphanNext
  <1>3. SchedulerInv /\ OrphanInv /\ [Next]_vars => [Honoured]_vars
    <2> SUFFICES ASSUME SchedulerInv, OrphanInv,
                        NEW s \in Scheduler, NEW t \in Torrent \ Unreachable, Commit(s),
                        row[t].state = "CONTROLLED", row[t].forced, ~row'[t].forced
                 PROVE  qb[t] # "running"
      OBVIOUS
    <2>1. row'[t] = Acknowledged(t, cycle[s])
      BY DEF Commit
    <2>2. t \in cycle[s].orphans /\ row[t].stop
      <3>1. row[t] \in Row
        BY DEF SchedulerInv, TypeOK
      <3> QED
        BY <2>1, <3>1 DEF Acknowledged, Row
    <2>3. OrphanOwed(s, t) /\ cycle[s].pc = "commit"
      BY DEF OrphanInv, Commit
    <2> QED
      BY <2>2, <2>3 DEF OrphanOwed
  <1>4. Spec => [][Honoured]_vars
    BY <1>1, <1>2, <1>3, SchedulerInvariant, PTL DEF Spec
  <1> QED
    BY <1>4 DEF OrphanStopHonoured

-----------------------------------------------------------------------------
(* The slots, as long as no torrent fails and no administrator forces one  *)

\* The torrents that use a slot
Busy == {t \in Torrent : row[t].state = "CONTROLLED" /\ qb[t] = "running"}

\* Torrents come to the scheduler stopped, and only it starts them.
Calm(t) ==
    /\ row[t].state # "ERROR" /\ ~row[t].forced
    /\ row[t].state \in {"GONE", "OUT"} => qb[t] = "absent"
    /\ qb[t] = "running" => t \notin Unreachable

\* What is to run fits in the slots; whatever uses one is to run or is stopped
\* before anything starts.
Planned(s) ==
    /\ cycle[s].pc \in {"renew1", "stops", "renew2", "controls"} =>
         /\ Cardinality(cycle[s].run) <= Capacity
         /\ Busy \subseteq cycle[s].run \cup cycle[s].halt
    /\ cycle[s].pc = "starts" => Cardinality(Busy \cup cycle[s].start) <= Capacity

SlotInv ==
    /\ resume = {}
    /\ \A t \in Torrent : Calm(t)
    /\ WithinSlots
    /\ \A s \in Scheduler : Planned(s)

\* Fewer torrents than fit do.
LEMMA Fewer ==
  ASSUME IsFiniteSet(Torrent), NEW B \in SUBSET Torrent, NEW A \in SUBSET B,
         Cardinality(B) <= Capacity
  PROVE  Cardinality(A) <= Capacity
  <1>1. IsFiniteSet(B)
    BY FS_Subset
  <1>2. IsFiniteSet(A) /\ Cardinality(A) <= Cardinality(B)
    BY <1>1, FS_Subset
  <1>3. Cardinality(A) \in Nat /\ Cardinality(B) \in Nat
    BY <1>1, <1>2, FS_CardinalityType
  <1> QED
    BY <1>2, <1>3

\* No step of a torrent starts it.
LEMMA CalmSteps ==
  ASSUME TypeOK, ~Admin, Troubles = {}, resume = {},
         NEW t \in Torrent, Calm(t), TorrentStep(t)
  PROVE  /\ Calm(t)' /\ resume' = {}
         /\ row'[t].state = "CONTROLLED" /\ qb'[t] = "running" =>
              row[t].state = "CONTROLLED" /\ qb[t] = "running"
  <1>0. row \in [Torrent -> Row] /\ row[t] \in Row /\ qb \in [Torrent -> {"absent", "stopped", "running"}]
    BY DEF TypeOK
  <1>1. CASE Created(t)
    <2> DEFINE r == [row[t] EXCEPT !.state = "OUT", !.held = TRUE]
    <2>1. r.state = "OUT" /\ r.forced = row[t].forced
      BY <1>0 DEF Row
    <2>2. row'[t] = r /\ qb' = qb /\ resume' = resume /\ row[t].state = "GONE"
      BY <1>0, <1>1 DEF Created, Write
    <2> HIDE DEF r
    <2> QED
      BY <2>1, <2>2 DEF Calm
  <1>2. CASE Added(t)
    <2> DEFINE r == [row[t] EXCEPT !.state = "CONTROLLED"]
    <2>1. r.state = "CONTROLLED" /\ r.forced = row[t].forced
      BY <1>0 DEF Row
    <2>2. row'[t] = r /\ resume' = resume
      BY <1>0, <1>2 DEF Added, Write
    <2>3. qb'[t] = "stopped"
      BY <1>0, <1>2 DEF Added, Calm
    <2> HIDE DEF r
    <2> QED
      BY <2>1, <2>2, <2>3 DEF Calm
  <1>3. CASE \E state \in {"CONTROLLED", "READY", "ERROR"} : Observed(t, state)
    <2>1. PICK state \in {"CONTROLLED", "READY", "ERROR"} : Observed(t, state)
      BY <1>3
    <2>2. state = "READY" /\ row[t].state = "CONTROLLED"
      BY <2>1 DEF Observed
    <2> DEFINE q == Quiet(row[t])
               r == [q EXCEPT !.state = "READY"]
    <2>3. q \in Row /\ ~q.forced
      BY <1>0 DEF Row, Quiet
    <2>4. row'[t] = r /\ qb' = qb /\ resume' = resume
      BY <1>0, <2>1, <2>2 DEF Observed, Write
    <2> HIDE DEF q
    <2>5. r.state = "READY" /\ ~r.forced
      BY <2>3 DEF Row
    <2> HIDE DEF r
    <2> QED
      BY <2>4, <2>5 DEF Calm
  <1>4. CASE RetryResync(t) \/ RetryAdd(t)
    BY <1>4 DEF RetryResync, RetryAdd, Calm
  <1>5. CASE Orphaned(t)
    <2> DEFINE r == [row[t] EXCEPT !.held = FALSE, !.stop = @ \/ row[t].forced]
    <2>1. r.state = row[t].state /\ r.forced = row[t].forced
      BY <1>0 DEF Row
    <2>2. row'[t] = r /\ qb' = qb /\ resume' = resume
      BY <1>0, <1>5 DEF Orphaned, Write
    <2> HIDE DEF r
    <2> QED
      BY <2>1, <2>2 DEF Calm
  <1>6. CASE Joined(t)
    <2> DEFINE r == [row[t] EXCEPT !.held = TRUE, !.forced = FALSE, !.stop = FALSE]
    <2>1. r.state = row[t].state /\ ~r.forced
      BY <1>0 DEF Row
    <2>2. row'[t] = r /\ qb' = qb /\ resume' = resume
      BY <1>0, <1>6 DEF Joined, Write
    <2> HIDE DEF r
    <2> QED
      BY <2>1, <2>2 DEF Calm
  <1>7. CASE (\E reschedules \in BOOLEAN : ForceResume(t, reschedules)) \/ AdminPurge(t)
    BY <1>7 DEF ForceResume, AdminPurge
  <1>8. CASE ResumeArrives(t)
    BY <1>8 DEF ResumeArrives
  <1>9. CASE PurgeActivates(t)
    <2> DEFINE r == [Quiet(row[t]) EXCEPT !.state = "PURGE_PENDING", !.stop = TRUE]
    <2>1. r.state = "PURGE_PENDING" /\ ~r.forced
      BY <1>0 DEF Row, Quiet
    <2>2. row'[t] = r /\ qb' = qb /\ resume' = resume
      BY <1>0, <1>9 DEF PurgeActivates, Write
    <2> HIDE DEF r
    <2> QED
      BY <2>1, <2>2 DEF Calm
  <1>10. CASE PurgeBegins(t)
    <2> DEFINE r == [row[t] EXCEPT !.state = "PURGING"]
    <2>1. r.state = "PURGING" /\ r.forced = row[t].forced
      BY <1>0 DEF Row
    <2>2. row'[t] = r /\ qb' = qb /\ resume' = resume
      BY <1>0, <1>10 DEF PurgeBegins, Write
    <2> HIDE DEF r
    <2> QED
      BY <2>1, <2>2 DEF Calm
  <1>11. CASE PurgeRemoves(t)
    BY <1>0, <1>11 DEF PurgeRemoves, Calm
  <1>12. CASE PurgeCommits(t)
    <2>1. GoneRow.state = "GONE" /\ ~GoneRow.forced
      BY DEF GoneRow
    <2>2. row'[t] = GoneRow /\ qb' = qb /\ qb[t] = "absent" /\ resume' = resume
      BY <1>0, <1>12 DEF PurgeCommits, Write
    <2> QED
      BY <2>1, <2>2 DEF Calm
  <1> QED
    BY <1>1, <1>2, <1>3, <1>4, <1>5, <1>6, <1>7, <1>8, <1>9, <1>10, <1>11, <1>12 DEF TorrentStep

\* The steps of a cycle stay within the slots: what was not chosen is stopped
\* before what was chosen starts, also across failures and changes of leader.
LEMMA SlotCycle ==
  ASSUME SchedulerInv, SlotInv, ~Overrun, IsFiniteSet(Torrent), NEW s \in Scheduler, CycleStep(s)
  PROVE  SlotInv'
  <1>0. TypeOK /\ cycle \in [Scheduler -> Cycle] /\ row \in [Torrent -> Row]
    BY DEF SchedulerInv, TypeOK
  <1>1. /\ resume' = resume
        /\ \A x \in Scheduler \ {s} : cycle'[x] = cycle[x]
        /\ \/ \E R : Decide(s, R)
           \/ Waits(s) \/ Halts(s) \/ Starts(s) \/ Ends(s) \/ Stays
    BY <1>0, CycleSteps
  <1>2. CASE Stays
    BY <1>1, <1>2 DEF Stays, SlotInv, Calm, WithinSlots, Planned, Busy
  <1>3. ASSUME cycle[s] # Idle \/ MayAcquire(s),
               \A t \in Torrent : /\ row'[t].state = row[t].state
                                  /\ row'[t].forced => row[t].forced
                                  /\ qb[t] = "absent" => qb'[t] = "absent"
                                  /\ qb'[t] = "running" => qb[t] = "running" \/ t \notin Unreachable,
               Cardinality(Busy') <= Capacity,
               Planned(s)'
        PROVE  SlotInv'
    <2>1. \A x \in Scheduler \ {s} : cycle'[x] = Idle
      BY <1>1, <1>3, Alone
    <2>2. \A x \in Scheduler \ {s} : Planned(x)'
      BY <2>1, IdleFields DEF Planned
    <2>3. \A t \in Torrent : Calm(t)'
      BY <1>3 DEF SlotInv, Calm
    <2>4. WithinSlots'
      BY <1>3 DEF WithinSlots, Busy
    <2> QED
      BY <1>1, <1>3, <2>2, <2>3, <2>4 DEF SlotInv
  <1>4. Busy \in SUBSET Torrent /\ Busy' \in SUBSET Torrent /\ Cardinality(Busy) <= Capacity
    BY DEF Busy, SlotInv, WithinSlots
  <1>5. CASE \E R : Decide(s, R)
    <2>1. PICK R : Decide(s, R)
      BY <1>5
    <2> DEFINE e == [pc |-> "renew1", stops |-> PurgeStops \cup ErrorStops,
                     run |-> Forced \cup R, halt |-> Schedulable \ R, start |-> {},
                     purges |-> PurgeStops, errors |-> ErrorStops,
                     orphans |-> OrphanStops(R), failed |-> FALSE]
    <2>2. cycle' = [cycle EXCEPT ![s] = e] /\ MayAcquire(s) /\ qb' = qb
      BY <2>1 DEF Decide
    <2>3. e.pc = "renew1" /\ e.run = Forced \cup R /\ e.halt = Schedulable \ R
      OBVIOUS
    <2> HIDE DEF e
    <2>4. cycle'[s] = e
      BY <1>0, <2>2
    <2>5. Forced = {} /\ Schedulable = ControlSet /\ Cardinality(Forced) = 0
      BY FS_EmptySet DEF Forced, Schedulable, ControlSet, SlotInv, Calm
    <2>6. \A t \in Torrent : row'[t].state = row[t].state /\ row'[t].forced = row[t].forced
      <3> SUFFICES ASSUME NEW t \in Torrent
                   PROVE  row'[t].state = row[t].state /\ row'[t].forced = row[t].forced
        OBVIOUS
      <3>1. row[t] \in Row
        BY <1>0
      <3>2. row'[t] = row[t] \/ row'[t] = [row[t] EXCEPT !.desired = t \in R]
        BY <2>1 DEF Decide
      <3>3. /\ [row[t] EXCEPT !.desired = t \in R].state = row[t].state
            /\ [row[t] EXCEPT !.desired = t \in R].forced = row[t].forced
        BY <3>1 DEF Row
      <3> QED
        BY <3>2, <3>3
    <2>7. Busy' = Busy
      BY <2>2, <2>6 DEF Busy
    <2>8. Cardinality(R) <= Capacity
      <3>1. R \in SUBSET Torrent /\ (R = {} \/ Cardinality(R) + Cardinality(Forced) <= Capacity)
        BY <2>1 DEF Decide, MaySelect, Schedulable, ControlSet
      <3>2. CASE R = {}
        BY <3>2, FS_EmptySet
      <3>3. CASE Cardinality(R) + Cardinality(Forced) <= Capacity
        <4>1. Cardinality(R) \in Nat
          BY <3>1, FS_Subset, FS_CardinalityType
        <4> QED
          BY <2>5, <3>3, <4>1
      <3> QED
        BY <3>1, <3>2, <3>3
    <2>9. Planned(s)'
      <3>1. e.run = R /\ Busy \subseteq e.run \cup e.halt
        BY <2>3, <2>5 DEF Busy, ControlSet
      <3> QED
        BY <2>3, <2>4, <2>7, <2>8, <3>1 DEF Planned
    <2> QED
      BY <1>3, <1>4, <2>2, <2>6, <2>7, <2>9
  <1>6. CASE Waits(s)
    <2>1. cycle[s] # Idle /\ row' = row
      BY <1>6, IdleFields DEF Waits
    <2>2. Busy' \subseteq Busy
      BY <1>6 DEF Waits, Busy
    <2>3. Cardinality(Busy') <= Capacity
      BY <1>4, <2>2, Fewer
    <2>4. Planned(s)'
      BY <1>6, <2>2 DEF Waits, SlotInv, Planned
    <2> QED
      BY <1>3, <1>6, <2>1, <2>3, <2>4 DEF Waits
  <1>7. CASE Halts(s)
    <2>1. cycle[s] # Idle /\ row' = row /\ cycle'[s].pc = "starts"
      BY <1>7, IdleFields DEF Halts
    <2>2. /\ Cardinality(cycle[s].run) <= Capacity
          /\ Busy \subseteq cycle[s].run \cup cycle[s].halt
      BY <1>7 DEF Halts, SlotInv, Planned
    <2>3. \A t \in Torrent : /\ qb'[t] = "running" => qb[t] = "running"
                             /\ t \in cycle[s].halt \ Unreachable => qb'[t] # "running"
      BY <1>0, <1>7, StoppedFacts DEF Halts
    <2>4. \A t \in Torrent : qb[t] = "absent" => qb'[t] = "absent"
      BY <1>0, <1>7, CallsAddNothing DEF Halts
    <2>5. Busy' \subseteq cycle[s].run
      BY <2>1, <2>2, <2>3 DEF Busy, SlotInv, Calm
    <2>6. cycle[s].run \in SUBSET Torrent /\ cycle'[s].start \subseteq cycle[s].run
      BY <1>0, <1>7 DEF Halts, Cycle
    <2>7. Cardinality(Busy') <= Capacity /\ Cardinality(Busy' \cup cycle'[s].start) <= Capacity
      BY <2>2, <2>5, <2>6, Fewer
    <2>8. Planned(s)'
      BY <2>1, <2>7 DEF Planned
    <2> QED
      BY <1>3, <2>1, <2>3, <2>4, <2>7, <2>8
  <1>8. CASE Starts(s)
    <2>1. cycle[s] # Idle /\ row' = row /\ cycle'[s].pc = "commit"
      BY <1>8, IdleFields DEF Starts
    <2>2. Cardinality(Busy \cup cycle[s].start) <= Capacity /\ cycle[s].start \in SUBSET Torrent
      BY <1>0, <1>8 DEF Starts, SlotInv, Planned, Cycle
    <2>3. \A t \in Torrent : qb'[t] = "running" => qb[t] = "running" \/ t \in cycle[s].start \ Unreachable
      BY <1>0, <1>8, StartedReachable DEF Starts
    <2>4. \A t \in Torrent : qb[t] = "absent" => qb'[t] = "absent"
      BY <1>0, <1>8, CallsAddNothing DEF Starts
    <2>5. Busy' \subseteq Busy \cup cycle[s].start
      BY <2>1, <2>3 DEF Busy
    <2>6. Cardinality(Busy') <= Capacity
      BY <1>4, <2>2, <2>5, Fewer
    <2>7. Planned(s)'
      BY <2>1 DEF Planned
    <2> QED
      BY <1>3, <2>1, <2>3, <2>4, <2>6, <2>7
  <1>9. CASE Ends(s)
    <2>1. cycle[s] # Idle /\ cycle'[s] = Idle
      BY <1>9 DEF Ends
    <2>2. Cardinality(Busy') <= Capacity
      <3>1. CASE cycle[s].pc = "starts"
        <4>1. /\ Cardinality(Busy \cup cycle[s].start) <= Capacity
              /\ cycle[s].start \in SUBSET Torrent
          BY <1>0, <3>1 DEF SlotInv, Planned, Cycle
        <4>2. Busy' \subseteq Busy \cup cycle[s].start
          BY <1>9 DEF Ends, Busy
        <4> QED
          BY <1>4, <4>1, <4>2, Fewer
      <3>2. CASE cycle[s].pc # "starts"
        <4>1. Busy' \subseteq Busy
          BY <1>9, <3>2 DEF Ends, Busy
        <4> QED
          BY <1>4, <4>1, Fewer
      <3> QED
        BY <3>1, <3>2
    <2>3. Planned(s)'
      BY <2>1, IdleFields DEF Planned
    <2> QED
      BY <1>3, <1>9, <2>1, <2>2, <2>3 DEF Ends
  <1> QED
    BY <1>1, <1>2, <1>5, <1>6, <1>7, <1>8, <1>9

\* Every step stays within the slots.
LEMMA SlotNext ==
  ASSUME SchedulerInv, SlotInv, ~Overrun, ~Admin, Troubles = {}, IsFiniteSet(Torrent), [Next]_vars
  PROVE  SlotInv'
  <1>0. TypeOK
    BY DEF SchedulerInv
  <1>1. ASSUME NEW s \in Scheduler, CycleStep(s) PROVE SlotInv'
    BY <1>1, SlotCycle
  <1>2. CASE LeaseExpires \/ UNCHANGED vars
    BY <1>2 DEF LeaseExpires, vars, SlotInv, Calm, WithinSlots, Planned, Busy
  <1>3. ASSUME NEW t \in Torrent, TorrentStep(t) PROVE SlotInv'
    <2>1. Touches(t)
      BY <1>0, <1>3, TorrentTouches
    <2>2. /\ Calm(t)' /\ resume' = {}
          /\ row'[t].state = "CONTROLLED" /\ qb'[t] = "running" =>
               row[t].state = "CONTROLLED" /\ qb[t] = "running"
      BY <1>0, <1>3, CalmSteps DEF SlotInv
    <2>3. Busy' \subseteq Busy /\ Busy \in SUBSET Torrent
      BY <2>1, <2>2 DEF Busy, Touches
    <2>4. \A x \in Torrent : Calm(x)'
      BY <2>1, <2>2 DEF Touches, SlotInv, Calm
    <2>5. Cardinality(Busy') <= Capacity
      BY <2>3, Fewer DEF SlotInv, WithinSlots, Busy
    <2>6. ASSUME NEW s \in Scheduler PROVE Planned(s)'
      <3>1. /\ cycle'[s].pc = cycle[s].pc /\ cycle'[s].run = cycle[s].run
            /\ cycle'[s].start = cycle[s].start /\ cycle'[s].halt = cycle[s].halt
        BY <2>1 DEF Touches, Outdates
      <3>2. Planned(s) /\ cycle[s].start \in SUBSET Torrent
        BY <1>0 DEF SlotInv, TypeOK, Cycle
      <3>3. Cardinality(Busy \cup cycle[s].start) <= Capacity =>
              Cardinality(Busy' \cup cycle[s].start) <= Capacity
        <4>1. Busy' \cup cycle[s].start \in SUBSET (Busy \cup cycle[s].start)
          BY <2>3
        <4>2. Busy \cup cycle[s].start \in SUBSET Torrent
          BY <2>3, <3>2
        <4> QED
          BY <4>1, <4>2, Fewer
      <3> QED
        BY <2>3, <3>1, <3>2, <3>3 DEF Planned
    <2> QED
      BY <2>2, <2>4, <2>5, <2>6 DEF SlotInv, WithinSlots, Busy
  <1> QED
    BY <1>1, <1>2, <1>3 DEF Next

\* For any schedulers, capacity and finite set of torrents, also unreachable
\* ones: when phases fit in the lease, no torrent fails and no administrator
\* forces one, the torrents qBittorrent runs for the scheduler never use more
\* slots than there are, through every failed call, crash and change of leader.
THEOREM SlotsKept ==
  ASSUME ~Overrun, ~Admin, Troubles = {}, IsFiniteSet(Torrent)
  PROVE  Spec => []WithinSlots
  <1>1. Init => SlotInv
    <2> SUFFICES ASSUME Init PROVE SlotInv
      OBVIOUS
    <2>1. {t \in Torrent : row[t].state = "CONTROLLED" /\ qb[t] = "running"} = {}
      BY DEF Init
    <2>2. WithinSlots
      BY <2>1, FS_EmptySet DEF WithinSlots
    <2>3. \A t \in Torrent : Calm(t)
      BY DEF Init, Calm, GoneRow
    <2>4. \A s \in Scheduler : Planned(s)
      BY IdleFields DEF Init, Planned
    <2> QED
      BY <2>2, <2>3, <2>4 DEF SlotInv, Init
  <1>2. SchedulerInv /\ SlotInv /\ [Next]_vars => SlotInv'
    BY SlotNext
  <1>3. SlotInv => WithinSlots
    BY DEF SlotInv
  <1> QED
    BY <1>1, <1>2, <1>3, SchedulerInvariant, PTL DEF Spec
=============================================================================
