--------------------------- MODULE DiscordNotices ---------------------------
(***************************************************************************)
(* The private alerts of the Discord bot: "ready" when a right starts,     *)
(* "warning" in the last third of its time.  The bot scans the rights of   *)
(* the site page by page after a cursor it keeps on disk, claims an alert  *)
(* on disk before it sends it, and may be killed between any two of these. *)
(***************************************************************************)
EXTENDS Naturals, Sequences, FiniteSets, FiniteSetsExt, SequencesExt

CONSTANTS
  Request,     \* identifiers of rights: positive integers, in the order of the feed
  PageSize,    \* rights in a page of the feed
  MaxClock,    \* instants of the instance
  MaxFaults    \* kills, lost answers and interrupted cycles: a bound on the instance

VARIABLES
  clock,
  ready,     \* [Request -> instant the right became READY, 0 while there is none]
  cut,       \* rights that were cancelled before their end
  muted,     \* rights whose member switched the alerts off
  cursor,    \* the cursor on disk, 0 for the beginning
  claims,    \* alerts claimed on disk: <<right, kind>>
  bot,       \* the notifier task: [at, page, next, kind]
  sent,      \* [Request -> sequence of the alerts handed to Discord]
  faults

vars == <<clock, ready, cut, muted, cursor, claims, bot, sent, faults>>

\* A right lasts three instants and warns at the third; a claim is kept one instant longer.
End(r) == ready[r] + 3
WarningAt(r) == ready[r] + 2
Day == 1

Kind == {"ready", "warning"}
Waiting == [at |-> "waiting", page |-> <<>>, next |-> 0, kind |-> "ready"]

Init ==
  /\ clock = 1 /\ ready = [r \in Request |-> 0] /\ cut = {} /\ muted = {}
  /\ cursor = 0 /\ claims = {} /\ bot = Waiting
  /\ sent = [r \in Request |-> <<>>] /\ faults = 0

-----------------------------------------------------------------------------
(* The site and its members *)

Tick ==
  /\ clock < MaxClock /\ clock' = clock + 1
  /\ UNCHANGED <<ready, cut, muted, cursor, claims, bot, sent, faults>>

\* A torrent is READY: its right starts.  Identifiers are random, so any of them may come next.
BecomeReady(r) ==
  /\ ready[r] = 0 /\ ready' = [ready EXCEPT ![r] = clock]
  /\ UNCHANGED <<clock, cut, muted, cursor, claims, bot, sent, faults>>

Cancel(r) ==
  /\ ready[r] # 0 /\ r \notin cut /\ cut' = cut \cup {r}
  /\ UNCHANGED <<clock, ready, muted, cursor, claims, bot, sent, faults>>

\* toggle: the button of the panel, in the same process as the notifier.
Toggle(r) ==
  /\ muted' = IF r \in muted THEN muted \ {r} ELSE muted \cup {r}
  /\ UNCHANGED <<clock, ready, cut, cursor, claims, bot, sent, faults>>

-----------------------------------------------------------------------------
(* One cycle of the notifier *)

\* list_download_notices: the rights that can be used now.
Usable == {r \in Request : ready[r] # 0 /\ r \notin cut /\ End(r) > clock}

Following == SetToSortSeq({r \in Usable : r > cursor}, <)

\* Mutated form: the last page also ends at its last right, and the scan never starts again.
NextAfterLast(rows) == IF rows = <<>> THEN cursor ELSE rows[Min({PageSize, Len(rows)})]

NextAfter(rows) == IF Len(rows) > PageSize THEN rows[PageSize] ELSE 0

Read ==
  /\ bot.at = "waiting"
  /\ bot' = [at |-> "page", page |-> SubSeq(Following, 1, Min({PageSize, Len(Following)})),
             next |-> NextAfter(Following), kind |-> "ready"]
  /\ UNCHANGED <<clock, ready, cut, muted, cursor, claims, sent, faults>>

Item == Head(bot.page)
Rest == [bot EXCEPT !.at = "page", !.page = Tail(@)]
AtItem == bot.at = "page" /\ bot.page # <<>>

Passed(r) == r \in muted \/ End(r) <= clock

Skip ==
  /\ AtItem /\ Passed(Item) /\ bot' = Rest
  /\ UNCHANGED <<clock, ready, cut, muted, cursor, claims, sent, faults>>

Due(r) == IF WarningAt(r) <= clock THEN "warning" ELSE "ready"

\* A warning that is due takes the place of the "ready" alert too.
Claimed(r) == {<<r, "ready">>, <<r, Due(r)>>}

Claim ==
  /\ AtItem /\ ~Passed(Item)
  /\ claims' = claims \cup Claimed(Item)
  /\ bot' = IF <<Item, Due(Item)>> \in claims THEN Rest
            ELSE [bot EXCEPT !.at = "send", !.kind = Due(Item)]
  /\ UNCHANGED <<clock, ready, cut, muted, cursor, sent, faults>>

\* Discord may have delivered a message whose answer is lost: it counts as sent either way.
Send ==
  /\ bot.at = "send"
  /\ sent' = [sent EXCEPT ![Item] = Append(@, bot.kind)]
  /\ bot' = Rest
  /\ UNCHANGED <<clock, ready, cut, muted, cursor, claims, faults>>

\* The user cannot be fetched: the claim stays and the alert is never sent.
SendRefused ==
  /\ bot.at = "send" /\ faults < MaxFaults /\ faults' = faults + 1
  /\ bot' = Rest
  /\ UNCHANGED <<clock, ready, cut, muted, cursor, claims, sent>>

\* Mutated form: a claim is forgotten as soon as the warning of its right is due.
KeptUntilWarning == {c \in claims : WarningAt(c[1]) > clock}

Kept == {c \in claims : End(c[1]) + Day >= clock}

Advance ==
  /\ bot.at = "page" /\ bot.page = <<>>
  /\ cursor' = bot.next /\ claims' = Kept /\ bot' = Waiting
  /\ UNCHANGED <<clock, ready, cut, muted, sent, faults>>

\* The bot is killed, the feed cannot be read, or an error ends the cycle: the next one
\* starts again from the cursor on disk.
Interrupt ==
  /\ bot # Waiting /\ faults < MaxFaults /\ faults' = faults + 1
  /\ bot' = Waiting
  /\ UNCHANGED <<clock, ready, cut, muted, cursor, claims, sent>>

Cycle == Read \/ Skip \/ Claim \/ Send \/ Advance

Next ==
  \/ Tick \/ Cycle \/ SendRefused \/ Interrupt
  \/ \E r \in Request : BecomeReady(r) \/ Cancel(r) \/ Toggle(r)

Spec == Init /\ [][Next]_vars /\ WF_vars(Cycle)

-----------------------------------------------------------------------------
(* Properties *)

TypeOK ==
  /\ clock \in 1..MaxClock /\ ready \in [Request -> 0..MaxClock]
  /\ cut \subseteq Request /\ muted \subseteq Request
  /\ cursor \in Request \cup {0} /\ claims \subseteq Request \X Kind
  /\ bot \in [at : {"waiting", "page", "send"}, page : Seq(Request),
              next : Request \cup {0}, kind : Kind]
  /\ sent \in [Request -> Seq(Kind)] /\ faults \in 0..MaxFaults

\* A member gets the "ready" alert at most once and before the only warning, whatever
\* page is read again after a kill, a toggle or an interrupted cycle (notification_cycle,
\* DeliveryState.claim and advance).
AlertedOnce == \A r \in Request : sent[r] \in {<<>>, <<"ready">>, <<"warning">>, <<"ready", "warning">>}

Expected(r) == r \in Usable \ muted
Announced(r) == \E k \in Kind : <<r, k>> \in claims

\* Every right that is usable and whose member wants alerts is claimed in the end, as long
\* as it stays so: the scan comes back to the rights behind its cursor.
ScanReaches == \A r \in Request : []<>(~Expected(r) \/ Announced(r))
=============================================================================
