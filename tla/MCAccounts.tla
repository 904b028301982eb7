----------------------------- MODULE MCAccounts -----------------------------
(*
  What members meet: accounts and sessions, the limits in front of them, the accounts the
  Discord bot opens, its panel and its notices, the events sent to open pages, uploads and
  downloads.

  A behaviour runs one of the components, chosen by scenario in the initial state. Accounts
  is extended and keeps the names of its variables; the others are instances, and the state
  variables x1, x2, ... stand for their variables in the order their modules declare them.
  What a component does not need stays as it was at first.
*)
EXTENDS Accounts, TLC

CONSTANTS a1, a2, b1, b2, c1, c2, f1, k1, k2, l1, m1, m2, n1, n2, p1, q1, q2, q3, r1, u3,
          NoMember, NoUpload

VARIABLES scenario, x1, x2, x3, x4, x5, x6, x7, x8, x9, x10, x11, x12, x13, x14, x15

MCvars == <<scenario, vars, x1, x2, x3, x4, x5, x6, x7, x8, x9, x10, x11, x12, x13, x14, x15>>

OnlyLogin == scenario = "accounts" /\ UNCHANGED <<scenario, x1, x2, x3, x4, x5, x6, x7, x8, x9, x10, x11, x12, x13, x14, x15>>

\* Two requests with one idempotency key and one with another, for one member.
External == INSTANCE Provisioning WITH
  Request <- {q1, q2, q3}, Key <- {k1, k2}, Member <- {m1}, NoMember <- NoMember,
  KeyOf <- (q1 :> k1 @@ q2 :> k1 @@ q3 :> k2), BodyOf <- (q1 :> m1 @@ q2 :> m1 @@ q3 :> m1),
  MaxAccounts <- 3, MaxQuota <- 2, Workers <- 1, MaxPending <- 2, phase <- x1, task <- x2,
  pending <- x3, closed <- x4, accounts <- x5, created <- x6, idem <- x7, link <- x8,
  quota <- x9

OnlyExternal == scenario = "provisioning" /\ UNCHANGED <<scenario, vars, x10, x11, x12, x13, x14, x15>>

Networks == INSTANCE LoginLimits WITH
  Network <- {n1, n2}, Bucket <- {n1, n2}, Name <- {n1}, NetworkIndex <- [n \in {n1, n2} |-> n],
  NameIndex <- [n \in {n1} |-> n1], Maximum <- 2, FallbackMaximum <- 4, GlobalMaximum <- 3,
  MaxKeys <- 1, WindowSeconds <- 3, windows <- x1, overflow <- x2, accounts <- x3, total <- x4,
  recent <- x5

OnlyNetworks == scenario = "login limits" /\ UNCHANGED <<scenario, vars, x6, x7, x8, x9, x10, x11, x12, x13, x14, x15>>

Budgets == INSTANCE ApiLimits WITH
  Address <- {n1, n2}, Client <- {k1}, Maximum <- 2, GlobalMaximum <- 4, MaxKeys <- 2,
  WindowSeconds <- 2, order <- x1, events <- x2, everyone <- x3, recent <- x4

OnlyBudgets == scenario = "API limits" /\ UNCHANGED <<scenario, vars, x5, x6, x7, x8, x9, x10, x11, x12, x13, x14, x15>>

Panel == INSTANCE DiscordPanel WITH
  Member <- {m1, m2}, Op <- {a1, a2}, Places <- 1, Event <- {b1, b2}, MaxPosts <- 3,
  MaxKills <- 1, active <- x1, cooling <- x2, op <- x3, event <- x4, shown <- x5, saved <- x6,
  posts <- x7, kills <- x8

OnlyPanel == scenario = "panel" /\ UNCHANGED <<scenario, vars, x9, x10, x11, x12, x13, x14, x15>>

Routing == INSTANCE AccountRouting WITH
  Worker <- {a1, a2}, Slot <- {b1, b2}, Passkey <- {c1, c2}, ref <- x1, key <- x2, legacy <- x3,
  holder <- x4, job <- x5, qb <- x6, activity <- x7

OnlyRouting == scenario = "routing" /\ UNCHANGED <<scenario, vars, x8, x9, x10, x11, x12, x13, x14, x15>>

Events == INSTANCE Realtime WITH
  Page <- {p1, l1}, Listener <- {l1}, Sock <- {a1, a2}, PerUser <- 1, MaxChanges <- 1,
  MaxOthers <- 1, Busy <- FALSE, session <- x1, redis <- x2, db <- x3, sock <- x4, others <- x5,
  slots <- x6, page <- x7

OnlyEvents == scenario = "events" /\ UNCHANGED <<scenario, vars, x8, x9, x10, x11, x12, x13, x14, x15>>

\* Three uploads of one torrent and a retry of it, with one thread.
Uploads == INSTANCE UploadStaging WITH
  Upload <- {a1, a2, u3}, Retrier <- {r1}, None <- NoUpload, Workers <- 1, MaxPending <- 2,
  MaxPurges <- 1, phase <- x1, queue <- x2, running <- x3, pending <- x4, closed <- x5,
  abandoned <- x6, reads <- x7, files <- x8, row <- x9, job <- x10, rowLock <- x11,
  staged <- x12, removing <- x13, purges <- x14, unsure <- x15

OnlyUploads == scenario = "uploads" /\ UNCHANGED <<scenario, vars>>

\* A file and two archives of one user, and a restart of the process.
Leases == INSTANCE Downloads WITH
  File <- {f1}, Archive <- {a1, a2}, User <- {m1}, Admin <- {},
  Owner <- [d \in {f1, a1, a2} |-> m1], LeaseTime <- 2, Margin <- 1, Limits <- {1},
  PerUser <- 1, Global <- 3, MaxRestarts <- 1, phase <- x1, lease <- x2, limit <- x3,
  waiters <- x4, busy <- x5, awake <- x6, acquired <- x7, todo <- x8, right <- x9,
  active <- x10, torrent <- x11, draining <- x12, inflight <- x13, restarts <- x14, late <- x15

OnlyLeases == scenario = "leases" /\ UNCHANGED <<scenario, vars>>

\* Two archives of an administrator and one of a member, with room for two.
Exempt == INSTANCE Downloads WITH
  File <- {}, Archive <- {a1, a2, q1}, User <- {m1, m2},
  Owner <- (a1 :> m1 @@ a2 :> m1 @@ q1 :> m2), Admin <- {m1}, LeaseTime <- 2, Margin <- 1,
  Limits <- {1}, PerUser <- 1, Global <- 2, MaxRestarts <- 0, phase <- x1, lease <- x2,
  limit <- x3, waiters <- x4, busy <- x5, awake <- x6, acquired <- x7, todo <- x8, right <- x9,
  active <- x10, torrent <- x11, draining <- x12, inflight <- x13, restarts <- x14, late <- x15

OnlyExempt == scenario = "administrators" /\ UNCHANGED <<scenario, vars>>

Notices == INSTANCE DiscordNotices WITH
  Request <- {1, 2}, PageSize <- 1, MaxClock <- 5, MaxFaults <- 1, clock <- x1, ready <- x2,
  cut <- x3, muted <- x4, cursor <- x5, claims <- x6, bot <- x7, sent <- x8, faults <- x9

OnlyNotices == scenario = "notices" /\ UNCHANGED <<scenario, vars, x10, x11, x12, x13, x14, x15>>

ASSUME LoginParameters == Parameters

ASSUME ExternalParameters == External!Parameters

ASSUME RoutingParameters == Routing!Parameters

ASSUME EventsParameters == Events!Parameters

ASSUME UploadsParameters == Uploads!Parameters

ASSUME LeasesParameters == Leases!Parameters

ASSUME ExemptParameters == Exempt!Parameters

MCInit ==
  /\ Init
  /\ \/ /\ scenario = "accounts"
        /\ x1 = 0 /\ x2 = 0 /\ x3 = 0 /\ x4 = 0 /\ x5 = 0 /\ x6 = 0 /\ x7 = 0 /\ x8 = 0 /\ x9 = 0
        /\ x10 = 0 /\ x11 = 0 /\ x12 = 0 /\ x13 = 0 /\ x14 = 0 /\ x15 = 0
     \/ /\ scenario = "provisioning" /\ External!Init
        /\ x10 = 0 /\ x11 = 0 /\ x12 = 0 /\ x13 = 0 /\ x14 = 0 /\ x15 = 0
     \/ /\ scenario = "login limits" /\ Networks!Init
        /\ x6 = 0 /\ x7 = 0 /\ x8 = 0 /\ x9 = 0 /\ x10 = 0 /\ x11 = 0 /\ x12 = 0 /\ x13 = 0 /\ x14 = 0
        /\ x15 = 0
     \/ /\ scenario = "API limits" /\ Budgets!Init
        /\ x5 = 0 /\ x6 = 0 /\ x7 = 0 /\ x8 = 0 /\ x9 = 0 /\ x10 = 0 /\ x11 = 0 /\ x12 = 0 /\ x13 = 0
        /\ x14 = 0 /\ x15 = 0
     \/ /\ scenario = "panel" /\ Panel!Init
        /\ x9 = 0 /\ x10 = 0 /\ x11 = 0 /\ x12 = 0 /\ x13 = 0 /\ x14 = 0 /\ x15 = 0
     \/ /\ scenario = "routing" /\ Routing!Init
        /\ x8 = 0 /\ x9 = 0 /\ x10 = 0 /\ x11 = 0 /\ x12 = 0 /\ x13 = 0 /\ x14 = 0 /\ x15 = 0
     \/ /\ scenario = "events" /\ Events!Init
        /\ x8 = 0 /\ x9 = 0 /\ x10 = 0 /\ x11 = 0 /\ x12 = 0 /\ x13 = 0 /\ x14 = 0 /\ x15 = 0
     \/ /\ scenario = "uploads" /\ Uploads!Init
     \/ /\ scenario = "leases" /\ Leases!Init
     \/ /\ scenario = "administrators" /\ Exempt!Init
     \/ /\ scenario = "notices" /\ Notices!Init
        /\ x10 = 0 /\ x11 = 0 /\ x12 = 0 /\ x13 = 0 /\ x14 = 0 /\ x15 = 0

MCNext ==
  \/ OnlyLogin /\ Next
  \/ OnlyExternal /\ External!Next
  \/ OnlyNetworks /\ Networks!Next
  \/ OnlyBudgets /\ Budgets!Next
  \/ OnlyPanel /\ Panel!Next
  \/ OnlyRouting /\ Routing!Next
  \/ OnlyEvents /\ Events!Next
  \/ OnlyUploads /\ Uploads!Next
  \/ OnlyLeases /\ Leases!Next
  \/ OnlyExempt /\ Exempt!Next
  \/ OnlyNotices /\ Notices!Next

MCSpec == MCInit /\ [][MCNext]_MCvars

-----------------------------------------------------------------------------
\* What clients are granted is bounded and given back, and what they are shown follows what is
\* recorded: accounts that the bot opens, limits, uploads and downloads, the account of a
\* torrent, open pages, the panel and the notices on Discord.
\*   - OneAccountPerKey (Provisioning): A key makes one account and a member has one, whatever
\*     requests are in flight together, and a replay answers only the request it was made for.
\*   - PoolCounts (Provisioning): The pool holds exactly the tasks the executor holds: a request
\*     that gave up keeps its place until the worker is done with it.
\*   - ProvisioningInv (Provisioning): The inductive invariant: what a request made is written
\*     down under its key and its member, and every place of the pool is held by a task.
\*   - NetworksBounded (LoginLimits): In any stretch as long as a window a network is admitted at
\*     most twice the maximum, and all together twice theirs, although networks move between
\*     windows of their own and the overflow.
\*   - BudgetsRoll (ApiLimits): In any window an address and a client spend at most their budget
\*     and all addresses theirs: no live budget is lost to make room for another key.
\*   - PoolExact (UploadStaging): Every slot of the pool stands for work that waits or runs, also
\*     when its caller has gone: cancelled requests never let more work in than the budget, and
\*     no slot is lost for ever.
\*   - OneReadPerKey (UploadStaging): No two requests read the same payload at once, and the slot
\*     of a read stays taken while its thread runs although its caller has left.
\*   - NoOrphanFile (UploadStaging): A file without a row to use it is left behind only by a
\*     commit of unknown outcome, or when the disk refused to remove it.
\*   - StagingInv (UploadStaging): The inductive invariant.
\*   - TransfersExact (Downloads): Downloads give back what they take: the slots of archives and
\*     the requests of a drain are counted exactly, live leases stay within the limits, and
\*     nothing is purged under an archive that has kept its lease.
\*   - AddedUnderRecord (AccountRouting): A torrent that was added to qBittorrent with the
\*     passkey of a slot is recorded under that slot.
\*   - RoutingInv (AccountRouting): The inductive invariant.
\*   - SlotsCounted (Realtime): The limiter's count is the number of sockets that hold a slot,
\*     whatever way each one ended.
\*   - HeardIsShown (Realtime): A page that is not reloading shows every change that it has heard
\*     of: no event is lost in a reload that was under way.
\*   - RealtimeInv (Realtime): The inductive invariant: slots are counted, no event and no answer
\*     is newer than the list, and what a page has heard of it shows or will ask for.
\*   - GateExact (DiscordPanel): A member has one operation under way at a time, and the gate
\*     knows exactly these: a refused second click neither frees the first one nor leaves
\*     anything behind (AccessGate.enter and leave, execute's finally block).
\*   - PanelKnown (DiscordPanel): The channel shows one panel the bot knows, and at most one more
\*     for every kill between posting a panel and saving it (on_ready, save_panel).
\*   - AlertedOnce (DiscordNotices): A member gets the "ready" alert at most once and before the
\*     only warning, whatever page is read again after a kill, a toggle or an interrupted cycle
\*     (notification_cycle, DeliveryState.claim and advance).
\*   - TypeOK: the state has the types each component gives it.
ClientsServed ==
  /\ scenario = "provisioning" => External!OneAccountPerKey
  /\ scenario = "provisioning" => External!PoolCounts
  /\ scenario = "provisioning" => External!ProvisioningInv
  /\ scenario = "login limits" => Networks!NetworksBounded
  /\ scenario = "API limits" => Budgets!BudgetsRoll
  /\ scenario = "uploads" => Uploads!PoolExact
  /\ scenario = "uploads" => Uploads!OneReadPerKey
  /\ scenario = "uploads" => Uploads!NoOrphanFile
  /\ scenario = "uploads" => Uploads!StagingInv
  /\ scenario = "leases" => Leases!TransfersExact
  /\ scenario = "administrators" => Exempt!TransfersExact
  /\ scenario = "routing" => Routing!AddedUnderRecord
  /\ scenario = "routing" => Routing!RoutingInv
  /\ scenario = "events" => Events!SlotsCounted
  /\ scenario = "events" => Events!HeardIsShown
  /\ scenario = "events" => Events!RealtimeInv
  /\ scenario = "panel" => Panel!GateExact
  /\ scenario = "panel" => Panel!PanelKnown
  /\ scenario = "notices" => Notices!AlertedOnce
  /\ scenario = "accounts" => TypeOK
  /\ scenario = "provisioning" => External!TypeOK
  /\ scenario = "login limits" => Networks!TypeOK
  /\ scenario = "API limits" => Budgets!TypeOK
  /\ scenario = "panel" => Panel!TypeOK
  /\ scenario = "routing" => Routing!TypeOK
  /\ scenario = "events" => Events!TypeOK
  /\ scenario = "uploads" => Uploads!TypeOK
  /\ scenario = "leases" => Leases!TypeOK
  /\ scenario = "administrators" => Exempt!TypeOK
  /\ scenario = "notices" => Notices!TypeOK

\* A step never undoes what an earlier answer granted or used up.
\*   - QuotaKept (Provisioning): The accounts never grow beyond the quota in force, also when an
\*     administrator lowers it while requests hash.
\*   - RouteSticky (AccountRouting): A torrent recorded under a slot stays there: no worker, in
\*     whatever order the slots are emptied and filled, moves it to another tracker account.
\*   - UploadsKeepPayload (UploadStaging): An upload that gave up, failed or was overtaken never
\*     takes away the file of a job that was committed: not the other upload's file, and not its
\*     own when the commit it believes lost took place.
NothingTakenBack ==
  [][/\ scenario = "provisioning" => External!QuotaKeptStep
     /\ scenario = "routing" => Routing!RouteStickyStep
     /\ scenario = "uploads" => Uploads!UploadsKeepPayloadStep]_MCvars

\* Which of two equal requests does what makes no difference.
Symmetry == Permutations({a1, a2}) \cup Permutations({b1, b2}) \cup Permutations({c1, c2})
=============================================================================
