--------------------------- MODULE FairSelection ---------------------------
(***************************************************************************)
(* One scheduler cycle chooses the torrents that may download: it loads a  *)
(* bounded window of torrents and a ring of users, keeps the running       *)
(* torrents between two rotations (select_with_continuity) and fills the   *)
(* free slots by weighted deficit round robin (select_torrents).  A shared *)
(* torrent stands in the queue of each of its owners.                      *)
(*                                                                         *)
(* Users and torrents are numbered: a user's number is the order of their  *)
(* ids, a torrent's the order of (queued_at, id) and of (created_at, id).  *)
(* Every account has weight 1, as _scheduler_candidates makes them.        *)
(* 0 stands for None in the cursors.                                       *)
(***************************************************************************)
EXTENDS Naturals, FiniteSets, Sequences, SequencesExt

CONSTANTS
  User,          \* accounts, numbered from 1
  Torrent,       \* physical torrents, numbered from 1
  Owners,        \* [Torrent -> sequence of users], in the order of their requests
  Size,          \* [Torrent -> bytes that remain to be downloaded]
  Small, Medium, \* small_torrent_bytes and medium_torrent_bytes
  Slots,         \* max_active_global less the forced torrents
  PerUser,       \* max_active_per_user
  Quantum,       \* deficit_quantum
  DeficitCap,    \* max(_LARGE_COST, quantum * _MAX_USER_WEIGHT) * 8
  AgingMax,      \* aging_max_bonus
  ControlSet,    \* MAX_SCHEDULER_CONTROL_SET
  Stallable,     \* torrents that may stall: a bound on the instance
  CyclesPerTurn  \* cycles in one rotation quantum: 1 when the cycle is the quantum

VARIABLES
  want,     \* torrents with an active request, downloading or paused, incomplete
  cool,     \* torrents whose scheduler_retry_at is in the future
  bonus,    \* aging bonus each torrent has earned by waiting
  running,  \* desired_active torrents in desired_priority order
  scan,     \* scan_cursor of the window: the last torrent seen
  cursor,   \* cursor_user_id of the ledger
  credit,   \* deficits of the ledger
  elapsed,  \* cycles since the last rotation
  cycle     \* the cycle under way, or Idle

vars == <<want, cool, bonus, running, scan, cursor, credit, elapsed, cycle>>

Idle == [at |-> "idle", all |-> {}, left |-> {}, order |-> <<>>, kept |-> {}, picked |-> {},
         count |-> [u \in User |-> 0], ring |-> <<>>, complete |-> FALSE, index |-> 1,
         scanned |-> 0, turn |-> 0, before |-> [u \in User |-> 0]]

OwnersOf(t) == Range(Owners[t])
Running == Range(running)
Eligible(t) == t \in want \ cool
\* The users a query finds with an eligible torrent anywhere, inside the window or not.
EligibleUsers == {u \in User : \E t \in Torrent : Eligible(t) /\ u \in OwnersOf(t)}

Cost(t) == IF Size[t] <= Small THEN 1 ELSE IF Size[t] <= Medium THEN 2 ELSE 4
LeastOf(S) == CHOOSE x \in S : \A y \in S : x <= y
Ascending(S) == SetToSortSeq(S, <)
\* S in ascending order, starting after c and wrapping round.
After(S, c) == Ascending({x \in S : x > c}) \o Ascending({x \in S : x <= c})
Prefix(s, n) == SubSeq(s, 1, IF n < Len(s) THEN n ELSE Len(s))

Init ==
  /\ want = {} /\ cool = {} /\ bonus = [t \in Torrent |-> 0]
  /\ running = <<>> /\ scan = 0 /\ cursor = 0
  /\ credit = [u \in User |-> 0] /\ elapsed = CyclesPerTurn
  /\ cycle = Idle

----------------------------------------------------------------------------
\* What happens between two cycles.

Request(t) ==
  /\ cycle = Idle /\ t \notin want
  /\ want' = want \cup {t} /\ bonus' = [bonus EXCEPT ![t] = 0]
  /\ UNCHANGED <<cool, running, scan, cursor, credit, elapsed, cycle>>

\* A download completes and leaves the control set.
Complete(t) ==
  /\ cycle = Idle /\ t \in Running
  /\ want' = want \ {t} /\ cool' = cool \ {t}
  /\ running' = SelectSeq(running, LAMBDA x : x # t)
  /\ UNCHANGED <<bonus, scan, cursor, credit, elapsed, cycle>>

\* A stalled download is put aside; it stays desired_active until the next cycle.
Stall(t) ==
  /\ cycle = Idle /\ t \in (Running \cap Stallable) \ cool
  /\ cool' = cool \cup {t}
  /\ UNCHANGED <<want, bonus, running, scan, cursor, credit, elapsed, cycle>>

CooldownEnds(t) ==
  /\ cycle = Idle /\ t \in cool
  /\ cool' = cool \ {t}
  /\ UNCHANGED <<want, bonus, running, scan, cursor, credit, elapsed, cycle>>

\* Time spent waiting earns a bonus, as long as it can still lower the cost, never below 1.
Ages(t) ==
  /\ cycle = Idle /\ t \in want /\ bonus[t] < AgingMax /\ Cost(t) - bonus[t] > 1
  /\ bonus' = [bonus EXCEPT ![t] = @ + 1]
  /\ UNCHANGED <<want, cool, running, scan, cursor, credit, elapsed, cycle>>

\* The scheduler process restarts: its last rotation is forgotten, the ledger is durable.
Restart ==
  /\ cycle = Idle /\ elapsed < CyclesPerTurn
  /\ elapsed' = CyclesPerTurn
  /\ UNCHANGED <<want, cool, bonus, running, scan, cursor, credit, cycle>>

----------------------------------------------------------------------------
\* The start of a cycle: window, ring, candidates, and the torrents that keep their slot.

RotationDue == elapsed >= CyclesPerTurn

\* Waiting torrents in scan order after the cursor, as many as the running ones leave room for.
Window == Prefix(After((want \ Running), scan), ControlSet - Len(running))

\* Successors of the cursor among all eligible users; none before a first choice was made.
Ring == IF cursor = 0 THEN <<>> ELSE Prefix(After(EligibleUsers, cursor), ControlSet)
RingComplete == cursor # 0 /\ Cardinality(EligibleUsers) <= ControlSet

\* Mutated form: the last slot of a user is not kept for him.
KeepBelow(kept, t) ==
  IF Eligible(t) /\ Cardinality({k \in kept : Owners[k][1] = Owners[t][1]}) + 1 < PerUser
  THEN kept \cup {t} ELSE kept
\* A retained torrent counts against its first owner, whoever was charged for it.
Keep(kept, t) ==
  LET first == Owners[t][1]
      mine  == {k \in kept : Owners[k][1] = first}
  IN IF Eligible(t) /\ Cardinality(kept) < Slots /\ Cardinality(mine) < PerUser
     THEN kept \cup {t} ELSE kept
Kept == IF RotationDue THEN {} ELSE FoldLeft(Keep, {}, running)

Begin ==
  /\ cycle = Idle
  /\ LET order == running \o Window
         all   == {t \in Range(order) : Eligible(t)}
     IN /\ cycle' = [Idle EXCEPT !.at = "round", !.order = order, !.all = all,
                       !.kept = Kept, !.left = all \ Kept, !.ring = Ring, !.complete = RingComplete,
                       !.before = credit,
                       !.count = [u \in User |-> Cardinality({k \in Kept : Owners[k][1] = u})]]
        /\ scan' = IF Window = <<>> THEN 0 ELSE Last(Window)
  /\ elapsed' = IF RotationDue THEN 1 ELSE elapsed + 1
  /\ UNCHANGED <<want, cool, bonus, running, cursor, credit>>

----------------------------------------------------------------------------
\* The rounds of select_torrents.

Free == Slots - Cardinality(cycle.kept) - Cardinality(cycle.picked)
Queue(u) == {t \in cycle.left : u \in OwnersOf(t)}
Full(u) == cycle.count[u] >= PerUser
\* Mutated form: only the first owner of a torrent may be served with it.
MayChooseFirst == {u \in User : ~Full(u) /\ \E t \in cycle.left : Owners[t][1] = u}
MayChoose == {u \in User : Queue(u) # {} /\ ~Full(u)}
Rounds == cycle.at = "round" /\ Free > 0 /\ MayChoose # {}

\* The ring position to look at: a complete ring wraps round.
Position == IF cycle.complete /\ cycle.index > Len(cycle.ring) THEN 1 ELSE cycle.index
InRing == cursor # 0 /\ cycle.ring # <<>>
SkipsUser ==
  InRing /\ cycle.scanned < Len(cycle.ring) /\ Position <= Len(cycle.ring) /\ Full(cycle.ring[Position])

\* A ring user at his limit is passed over, and the cursor moves past him.
Skip ==
  /\ Rounds /\ SkipsUser
  /\ cursor' = cycle.ring[Position]
  /\ cycle' = [cycle EXCEPT !.index = Position + 1, !.scanned = @ + 1]
  /\ UNCHANGED <<want, cool, bonus, running, scan, credit, elapsed>>

\* _next_eligible_user: the oldest head of queue without a cursor, else the next id after it.
NextEligible ==
  IF cursor = 0
  THEN CHOOSE u \in MayChoose : \A v \in MayChoose :
         LeastOf(Queue(u)) < LeastOf(Queue(v)) \/ (LeastOf(Queue(u)) = LeastOf(Queue(v)) /\ u <= v)
  ELSE Head(After(MayChoose, cursor))

\* The position after the scan: it wraps only inside the scan loop.
Settled == IF cycle.scanned < Len(cycle.ring) THEN Position ELSE cycle.index
RingUserChosen == InRing /\ Settled <= Len(cycle.ring) /\ cycle.ring[Settled] \in MayChoose
Chosen == IF RingUserChosen THEN cycle.ring[Settled] ELSE NextEligible
Advances == RingUserChosen \/ ~InRing

Choose ==
  /\ Rounds /\ ~SkipsUser
  /\ cursor' = IF Advances THEN Chosen ELSE cursor
  /\ credit' = [credit EXCEPT ![Chosen] = IF @ + Quantum < DeficitCap THEN @ + Quantum ELSE DeficitCap]
  /\ cycle' = [cycle EXCEPT !.at = "take", !.turn = Chosen, !.scanned = 0,
                 !.index = IF Advances /\ cycle.ring # <<>> THEN Settled + 1 ELSE Settled]
  /\ UNCHANGED <<want, cool, bonus, running, scan, elapsed>>

Charged(t) == IF Cost(t) > bonus[t] THEN Cost(t) - bonus[t] ELSE 1
Affordable ==
  /\ Free > 0 /\ Queue(cycle.turn) # {} /\ ~Full(cycle.turn)
  /\ credit[cycle.turn] >= Charged(LeastOf(Queue(cycle.turn)))

\* Mutated form: the user of the turn is not counted as holding one more slot.
TakenUncounted(t) == [cycle EXCEPT !.left = @ \ {t}, !.picked = @ \cup {t}]
\* The torrent leaves the queue of every owner, and only the user of this turn pays.
Taken(t) == [cycle EXCEPT !.left = @ \ {t}, !.picked = @ \cup {t}, !.count[cycle.turn] = @ + 1]

Take ==
  /\ cycle.at = "take" /\ Affordable
  /\ LET t == LeastOf(Queue(cycle.turn))
     IN /\ cycle' = Taken(t)
        /\ credit' = [credit EXCEPT ![cycle.turn] = @ - Charged(t)]
  /\ UNCHANGED <<want, cool, bonus, running, scan, cursor, elapsed>>

TurnEnds ==
  /\ cycle.at = "take" /\ ~Affordable
  /\ cycle' = [cycle EXCEPT !.at = "round", !.turn = 0]
  /\ UNCHANGED <<want, cool, bonus, running, scan, cursor, credit, elapsed>>

----------------------------------------------------------------------------
\* The end of a cycle: the decision is persisted in the order the torrents were loaded, and only
\* the users of this window keep their credit.

UsersOf(S) == UNION {OwnersOf(t) : t \in S}
\* Mutated form: the credit of a user who was not served is lost with the cycle.
PersistedServed == [u \in User |-> IF u \in UsersOf(cycle.picked) THEN credit[u] ELSE 0]
\* select_torrents returns no balance of 0.  Where torrents were kept, select_with_continuity then
\* takes the balance from before the cycle: a charge to exactly 0 is given back.
Persisted ==
  [u \in User |-> IF u \notin UsersOf(cycle.all) THEN 0
                  ELSE IF cycle.kept # {} /\ credit[u] = 0 THEN cycle.before[u] ELSE credit[u]]

Persist ==
  /\ cycle.at = "round" /\ ~Rounds
  /\ running' = SelectSeq(cycle.order, LAMBDA t : t \in cycle.kept \cup cycle.picked)
  /\ credit' = Persisted
  /\ cursor' = IF cycle.all \ cycle.kept = {} THEN 0 ELSE cursor
  /\ cycle' = Idle
  /\ UNCHANGED <<want, cool, bonus, scan, elapsed>>

Step == Begin \/ Skip \/ Choose \/ Take \/ TurnEnds \/ Persist

Next ==
  \/ \E t \in Torrent : Request(t) \/ Complete(t) \/ Stall(t) \/ CooldownEnds(t) \/ Ages(t)
  \/ Restart \/ Step

\* The scheduler loop goes on; nothing is assumed of downloads, users or the clock.
Fairness == WF_vars(Step)

Spec == Init /\ [][Next]_vars /\ Fairness

----------------------------------------------------------------------------
TypeOK ==
  /\ want \subseteq Torrent /\ cool \subseteq want
  /\ bonus \in [Torrent -> 0 .. AgingMax]
  /\ running \in Seq(Torrent) /\ Running \subseteq want /\ Cardinality(Running) = Len(running)
  /\ scan \in Torrent \cup {0} /\ cursor \in User \cup {0}
  /\ credit \in [User -> 0 .. DeficitCap]
  /\ elapsed \in 1 .. CyclesPerTurn
  /\ cycle.at \in {"idle", "round", "take"} /\ cycle.turn \in User \cup {0}

\* select_torrents charges a shared torrent once: a cycle's decision can be split among owners so
\* that each torrent counts for one of its owners, nobody has more than max_active_per_user, and
\* no more than the global limit run.  Shared ownership never opens an extra slot.
LimitsKept ==
  cycle = Idle =>
    /\ Len(running) <= Slots
    /\ \E payer \in [Running -> User] :
         /\ \A t \in Running : payer[t] \in OwnersOf(t)
         /\ \A u \in User : Cardinality({t \in Running : payer[t] = u}) <= PerUser

\* The selection wastes no slot: when a cycle ends with a free one, every candidate it left out has
\* only owners who hold their full share.
NoSlotWasted ==
  (cycle.at = "round" /\ ~Rounds /\ Free > 0) =>
    \A t \in cycle.left : \A u \in OwnersOf(t) : Full(u)

Hungry(u) ==
  /\ \E t \in Torrent : Eligible(t) /\ u \in OwnersOf(t)
  /\ \A t \in Running : u \notin OwnersOf(t)
\* _load_fairness_user_order: "torrent windows cannot skip a user forever".  A user who always has
\* an eligible torrent does not go without a running one for ever, whatever the sizes, the
\* window, the completions and the stalls of the others.
NobodyStarves == \A u \in User : []<>~Hungry(u)

\* run_once: "running torrents only change hands once per quantum, except that a freed slot is
\* always refilled".  A cycle that rotates nothing stops no running torrent that is still eligible.
QuantumKept ==
  [][(cycle.at = "round" /\ cycle'.at = "idle" /\ elapsed > 1) =>
       \A t \in Running : Eligible(t) => t \in Range(running')]_vars

Shares(u) == \E t \in want : u \in OwnersOf(t) /\ Len(Owners[t]) > 1
\* The part of QuantumKept the code does guarantee: a cycle between two rotations never stops the
\* eligible torrent of an account that shares none of its torrents.
UnsharedKeptStep ==
  (cycle.at = "round" /\ cycle'.at = "idle" /\ elapsed > 1) =>
    \A t \in Running : (Eligible(t) /\ ~Shares(Owners[t][1])) => t \in Range(running')
UnsharedKept == [][UnsharedKeptStep]_vars

\* select_with_continuity: "Retained torrents paid for their slot when they were admitted".  No
\* cycle leaves a user more credit than its turns did: what he was admitted for stays paid.
AdmissionsPaid ==
  [][(cycle.at = "round" /\ cycle'.at = "idle") => \A u \in User : credit'[u] <= credit[u]]_vars

\* The instance of the run doc_window_skips: a torrent of the same size for each user.
OwnersApart == [t \in Torrent |-> <<t>>]
SizeApart == [t \in Torrent |-> 1]

=============================================================================
