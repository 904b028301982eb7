----------------------------- MODULE MCRealtime -----------------------------
(*
  What must happen in the end: pages catch up and sockets close, notices are sent, a freeze
  of the dynamic limit ends, a restart of NewGreedy can be asked for again, and streams get
  a fast lane.

  A behaviour runs one of the components, chosen by scenario in the initial state.
  RestartChannel is extended and keeps the names of its variables; the others are instances,
  and the state variables x1, x2, ... stand for their variables in the order their modules
  declare them. What a component does not need stays as it was at first.
*)
EXTENDS RestartChannel, TLC

CONSTANTS k1, k2, l1, p1, s1, s2, s3, t1, t2, t3, u1, u2

VARIABLES scenario, x1, x2, x3, x4, x5, x6, x7, x8, x9, x10, x11, x12, x13, x14

MCvars == <<scenario, vars, x1, x2, x3, x4, x5, x6, x7, x8, x9, x10, x11, x12, x13, x14>>

Streams == s1 :> u1 @@ s2 :> u2 @@ s3 :> u2
Asked == s1 :> {<<"all">>} @@ s2 :> {<<"span", 0, 0>>} @@ s3 :> {<<"suffix", 1>>}

Events == INSTANCE Realtime WITH
  Page <- {p1, l1}, Listener <- {l1}, Sock <- {k1, k2}, PerUser <- 1, MaxChanges <- 1,
  MaxOthers <- 1, Busy <- FALSE, session <- x1, redis <- x2, db <- x3, sock <- x4, others <- x5,
  slots <- x6, page <- x7

OnlyEvents == scenario = "events" /\ UNCHANGED <<scenario, vars, x8, x9, x10, x11, x12, x13, x14>>

Notices == INSTANCE DiscordNotices WITH
  Request <- {1, 2}, PageSize <- 1, MaxClock <- 3, MaxFaults <- 1, clock <- x1, ready <- x2,
  cut <- x3, muted <- x4, cursor <- x5, claims <- x6, bot <- x7, sent <- x8, faults <- x9

OnlyNotices == scenario = "notices" /\ UNCHANGED <<scenario, vars, x10, x11, x12, x13, x14>>

Limit == INSTANCE DynamicLimit WITH
  Torrent <- {t1, t2, t3}, InitialActive <- 1, MaxActive <- 3, Step <- 1, Evaluation <- 2,
  StaticActive <- 1, MaxChanges <- 2, want <- x1, down <- x2, chosen <- x3, forced <- x4,
  enabled <- x5, current <- x6, sample <- x7, sampled <- x8, freeze <- x9, changes <- x10,
  steady <- x11, seen <- x12, refill <- x13

OnlyLimit == scenario = "limit" /\ UNCHANGED <<scenario, vars, x14>>

OnlyRestart == scenario = "restart" /\ UNCHANGED <<scenario, x1, x2, x3, x4, x5, x6, x7, x8, x9, x10, x11, x12, x13, x14>>

\* Three streams of two users for one fast lane.
Lanes == INSTANCE DownloadTraffic WITH
  Stream <- {s1, s2, s3}, User <- {u1, u2}, Owner <- Streams, Size <- 2, Headers <- Asked,
  Chunk <- 2, UserCost <- 0, GlobalCost <- 0, InitialFast <- 1, MaxFast <- 1,
  WaitingPerUser <- 1, Bonus <- 0, phase <- x1, header <- x2, sent <- x3, want <- x4,
  delay <- x5, fast <- x6, order <- x7, pause <- x8, age <- x9, since <- x10, fastLimit <- x11,
  userNext <- x12, globalNext <- x13, streamNext <- x14

OnlyLanes == scenario = "lanes" /\ UNCHANGED <<scenario, vars>>

ASSUME LimitParameters == Limit!Parameters

MCInit ==
  /\ Init
  /\ \/ /\ scenario = "events" /\ Events!Init
        /\ x8 = 0 /\ x9 = 0 /\ x10 = 0 /\ x11 = 0 /\ x12 = 0 /\ x13 = 0 /\ x14 = 0
     \/ /\ scenario = "notices" /\ Notices!Init
        /\ x10 = 0 /\ x11 = 0 /\ x12 = 0 /\ x13 = 0 /\ x14 = 0
     \/ /\ scenario = "limit" /\ Limit!Init
        /\ x14 = 0
     \/ /\ scenario = "restart"
        /\ x1 = 0 /\ x2 = 0 /\ x3 = 0 /\ x4 = 0 /\ x5 = 0 /\ x6 = 0 /\ x7 = 0 /\ x8 = 0 /\ x9 = 0
        /\ x10 = 0 /\ x11 = 0 /\ x12 = 0 /\ x13 = 0 /\ x14 = 0
     \/ /\ scenario = "lanes" /\ Lanes!Init

MCNext ==
  \/ OnlyEvents /\ Events!Next
  \/ OnlyNotices /\ Notices!Next
  \/ OnlyLimit /\ Limit!Next
  \/ OnlyRestart /\ Next
  \/ OnlyLanes /\ Lanes!Next

\* The fairness of each component, as its module states it.
MCFairness ==
  /\ \A k \in {k1, k2} :
       /\ WF_MCvars(OnlyEvents /\ Events!Serve(k))
  /\ \A p \in {p1, l1} :
       /\ WF_MCvars(OnlyEvents /\ (Events!Load(p) \/ Events!SignOut(p) \/ Events!Loaded(p)))
       /\ WF_MCvars(OnlyEvents /\ Events!Poll(p))
  /\ WF_MCvars(OnlyNotices /\ Notices!Cycle)
  /\ WF_MCvars(OnlyLimit /\ Limit!Cycle)
  /\ WF_MCvars(OnlyLimit /\ Limit!Tick)
  /\ WF_MCvars(OnlyRestart /\ Tick)
  /\ WF_MCvars(OnlyRestart /\ Store)
  /\ WF_MCvars(OnlyRestart /\ Helper)
  /\ WF_MCvars(OnlyLanes /\ Lanes!Tick)
  /\ \A s \in {s1, s2, s3} :
       /\ WF_MCvars(OnlyLanes /\ Lanes!Moves(s))

MCSpec == MCInit /\ [][MCNext]_MCvars /\ MCFairness

-----------------------------------------------------------------------------
\* What happened reaches those who watch: open pages show it, sockets of ended sessions close,
\* requests are announced on Discord.
\*   - SocketEnds (Realtime): A socket does not outlive its session.
\*   - CatchesUp (Realtime): Every page of a valid session catches up with the list, although
\*     events are lost while it connects; once the session ended, it gives way to the login form.
\*   - ScanReaches (DiscordNotices): Every right that is usable and whose member wants alerts is
\*     claimed in the end, as long as it stays so: the scan comes back to the rights behind its
\*     cursor.
EventsArrive ==
  /\ \A k \in {k1, k2} : []<>(scenario = "events" => ~Events!Over \/ Events!Closed(k))
  /\ []<>(scenario = "events" => Events!Current(p1))
  /\ \A n \in {1, 2} : []<>(scenario = "notices" => ~Notices!Expected(n) \/ Notices!Announced(n))

\* What is held back is let go in the end: the freeze of the dynamic limit, the next restart of
\* NewGreedy while one is under way, a stream without a fast lane.
\*   - FreezeEnds (DynamicLimit): A freeze ends: whatever completes, stalls or comes back,
\*     replacement is possible again and again.  It restarts only when the running set changed,
\*     and a frozen set can only shrink.
\*   - Reopens (RestartChannel): An administrator is never locked out: whatever crashed, a
\*     request is again possible.
\*   - NotDisplaced (DownloadTraffic): A stream that waits is not displaced for ever by streams
\*     that come later, however short they are and although it makes no progress of its own.
PausesEnd ==
  /\ []<>(scenario = "limit" => Limit!Thawed)
  /\ []<>(scenario = "restart" => Open)
  /\ \A s \in {s1, s2, s3} : []<>~(scenario = "lanes" /\ Lanes!Waits(s))

\* The dynamic limit moves only on full evidence.
\*   - FullWindow (DynamicLimit): "Duree minimale de mesure complete avant une nouvelle decision
\*     de capacite": the limit is only raised when the cycles of a whole window, and the
\*     completions in it, all saw the same set run.
\*   - RefillWaits (DynamicLimit): record_dynamic_completion "freezes replacement for one full
\*     window": no cycle admits a torrent within a window of a completion, unless nothing runs
\*     any more or the option is off.
\*   - LimitInv (DynamicLimit): The inductive invariant: an open window measures the set that the
\*     cycles saw, and no longer than they saw it; the slot of a completion is held back no
\*     longer than the freeze lasts.
\*   - TypeOK: the state has the types each component gives it.
LimitPaced ==
  [][/\ scenario = "limit" => Limit!FullWindowStep
     /\ scenario = "limit" => Limit!RefillWaitsStep
     /\ scenario = "limit" => Limit!LimitInv
     /\ scenario = "restart" => TypeOK]_MCvars
=============================================================================
