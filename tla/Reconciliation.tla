--------------------------- MODULE Reconciliation ---------------------------
(***************************************************************************)
(* The reconciliation report of the administration.  A publisher beside    *)
(* the scheduler copies, account after account, what each qBittorrent      *)
(* holds into the database: a cycle writes one snapshot and one health row *)
(* per account, each account in a transaction of its own.  An              *)
(* administrator reads the report page by page: the database's torrents,   *)
(* the items of the snapshots and the directories on disk, with a cursor   *)
(* that names the snapshots to use.  Torrents come and go meanwhile.       *)
(* Torrents are numbered in the order in which every listing sorts them.   *)
(***************************************************************************)
EXTENDS Naturals, Sequences, FiniteSets, FiniteSetsExt, SequencesExt

CONSTANTS
  Torrent,      \* 1..n
  Home,         \* [torrent -> the account it is routed to]
  Accounts,     \* the accounts, in the order of the deployment
  Foreign,      \* torrents that do not claim to be the application's
  Limit,        \* rows of a page of the report
  PageSize, MaxPages,       \* pages of the qBittorrent inventory (200, 5)
  MaxCycles, MaxChanges     \* bounds

VARIABLES
  row,       \* [torrent -> "none", "early" (nothing physical expected) or "live"]
  qb,        \* torrents in qBittorrent
  disk,      \* torrents with a directory on disk
  cycle,     \* the observation set of the last cycle that began
  pub,       \* the publisher: [pc, left, pages, items, cut, up]
  health,    \* [account -> [set, valid]]
  snaps,     \* stored snapshots: [account, set, items, cut]
  report,    \* the report being read: [pc, phase, after, snaps, index, latest, listed, live, rows, kept]
  seen,      \* [phase -> [torrent -> times it was scanned]]
  found,     \* anomalies of this report: <<code, torrent>>
  since,     \* [torrent -> the last cycle that began before it was live]
  shrunk,    \* [account -> the last cycle that had begun when a torrent left it]
  changes

vars == <<row, qb, disk, cycle, pub, health, snaps, report, seen, found, since, shrunk, changes>>

world == <<row, qb, disk, since, shrunk, changes>>
reading == <<report, seen, found>>
published == <<cycle, pub, health, snaps>>

Account == Range(Accounts)
Resting == [pc |-> "idle", left |-> <<>>, pages |-> 0, items |-> <<>>, cut |-> FALSE, up |-> FALSE]
NoReport == [pc |-> "none", phase |-> "database", after |-> 0, snaps |-> <<>>, index |-> 1,
             latest |-> <<>>, listed |-> <<>>, live |-> {}, rows |-> {}, kept |-> {}]
Unseen == [p \in {"database", "qbittorrent", "storage"} |-> [t \in Torrent |-> 0]]

Init ==
  /\ qb \in SUBSET Torrent /\ disk = qb \ Foreign /\ cycle = 0 /\ pub = Resting
  /\ row = [t \in Torrent |-> IF t \in disk THEN "live" ELSE "none"]
  /\ since = [t \in Torrent |-> 0] /\ shrunk = [a \in Account |-> 0]
  /\ health = [a \in Account |-> [set |-> 0, valid |-> FALSE]] /\ snaps = {}
  /\ report = NoReport /\ seen = Unseen /\ found = {} /\ changes = 0

-----------------------------------------------------------------------------
(* The torrents: a row is written first and never deleted *)

Change == changes < MaxChanges /\ changes' = changes + 1
Changed == UNCHANGED <<published, seen, found>>

Insert(t) ==
  /\ Change /\ t \notin Foreign /\ row[t] = "none" /\ row' = [row EXCEPT ![t] = "early"]
  /\ UNCHANGED <<qb, disk, since, shrunk, report>> /\ Changed

Appear(t) ==
  /\ Change /\ t \notin qb /\ (row[t] # "none" \/ t \in Foreign)
  /\ qb' = qb \cup {t} /\ disk' = IF t \in Foreign THEN disk ELSE disk \cup {t}
  /\ row' = [row EXCEPT ![t] = IF t \in Foreign THEN "none" ELSE "live"]
  /\ since' = [since EXCEPT ![t] = cycle]
  /\ UNCHANGED <<shrunk, report>> /\ Changed

Vanish(t) ==
  /\ Change /\ t \in qb /\ qb' = qb \ {t} /\ disk' = disk \ {t}
  /\ row' = [row EXCEPT ![t] = IF t \in Foreign THEN "none" ELSE "early"]
  /\ shrunk' = [shrunk EXCEPT ![Home[t]] = cycle]
  /\ report' = [report EXCEPT !.kept = @ \ {t}] /\ UNCHANGED since /\ Changed

-----------------------------------------------------------------------------
(* The publisher *)

StartCycle ==
  /\ pub.pc = "idle" /\ cycle < MaxCycles /\ cycle' = cycle + 1
  /\ pub' = [Resting EXCEPT !.pc = "read", !.left = Accounts, !.up = TRUE]
  /\ UNCHANGED <<world, reading, health, snaps>>

Listed(s) == SetToSortSeq(s, <)
Slice(s, from, n) == SubSeq(s, from + 1, Min({from + n, Len(s)}))
Holds(a) == Listed({t \in qb : Home[t] = a})

\* Mutated form: the last page that is read counts as the end of the list.
TruncatedBefore(held, pages) == Len(held) > (pages + 1) * PageSize /\ pages + 1 < MaxPages

\* The list goes on behind a page.
Truncated(held, pages) == Len(held) > (pages + 1) * PageSize

\* One page of the account's list, by offset in what it holds now.
ReadPage ==
  /\ pub.pc = "read"
  /\ LET held == Holds(Head(pub.left))
         more == Truncated(held, pub.pages) IN
     pub' = [pub EXCEPT !.pages = @ + 1, !.items = @ \o Slice(held, pub.pages * PageSize, PageSize),
                        !.cut = more, !.pc = IF more /\ pub.pages + 1 < MaxPages THEN "read" ELSE "store"]
  /\ UNCHANGED <<world, reading, cycle, health, snaps>>

ReadFails ==
  /\ pub.pc = "read" /\ pub' = [pub EXCEPT !.pc = "store", !.up = FALSE]
  /\ UNCHANGED <<world, reading, cycle, health, snaps>>

\* A listing that shifted between two pages may hold a torrent twice, which the primary key refuses.
Twice == Cardinality(Range(pub.items)) # Len(pub.items)

\* The transaction of one account: its health, not yet valid, and its snapshot if there is one;
\* snapshots older than the retention are deleted.
Store ==
  /\ pub.pc = "store" /\ ~(pub.up /\ Twice)
  /\ LET a == Head(pub.left)
         old == {s \in snaps : s.account = a}
         new == [account |-> a, set |-> cycle, items |-> Range(pub.items), cut |-> pub.cut] IN
     /\ health' = [health EXCEPT ![a] = [set |-> cycle, valid |-> FALSE]]
     /\ IF pub.up THEN \E gone \in {{}, old} : snaps' = (snaps \ gone) \cup {new} ELSE UNCHANGED snaps
     /\ pub' = [Resting EXCEPT !.pc = IF Len(pub.left) = 1 THEN "end" ELSE "read",
                               !.left = Tail(pub.left), !.up = TRUE]
  /\ UNCHANGED <<world, reading, cycle>>

\* The transaction fails, or the process stops: the cycle ends where it is.
Abandon ==
  /\ pub.pc # "idle" /\ pub' = Resting /\ UNCHANGED <<world, reading, cycle, health, snaps>>

EndCycle ==
  /\ pub.pc = "end" /\ pub' = Resting
  /\ health' = [a \in Account |-> [health[a] EXCEPT !.valid = (@ \/ health[a].set = cycle)]]
  /\ UNCHANGED <<world, reading, cycle, snaps>>

\* Time passes without a cycle.
Stale ==
  /\ \E a \in Account : health[a].valid
  /\ health' = [a \in Account |-> [health[a] EXCEPT !.valid = FALSE]]
  /\ UNCHANGED <<world, reading, cycle, pub, snaps>>

-----------------------------------------------------------------------------
(* The report *)

Latest == {s \in snaps : \A o \in snaps : o.account = s.account => o.set <= s.set}

\* The first page looks for the snapshots to use, and then at the health of the accounts.
Begin ==
  /\ report.pc \in {"none", "done", "expired"}
  /\ report' = [NoReport EXCEPT !.pc = "health", !.latest = Latest,
                                !.rows = {t \in Torrent : row[t] # "none"}, !.kept = disk]
  /\ seen' = Unseen /\ found' = {} /\ UNCHANGED <<world, published>>

\* Mutated form: the snapshots' own sets are not compared with the health's.
CompleteByHealth(latest) ==
  /\ {s.account : s \in latest} = Account /\ \A s \in latest : ~s.cut
  /\ \A a, b \in Account : health[a].set = health[b].set
  /\ \A a \in Account : health[a].valid

\* Every account has a whole snapshot of the one observation set that the health rows name.
Complete(latest) ==
  /\ {s.account : s \in latest} = Account /\ \A s \in latest : ~s.cut
  /\ \A s \in latest : \A a \in Account : health[a].set = s.set
  /\ \A a \in Account : health[a].valid

Choose ==
  /\ report.pc = "health"
  /\ report' = [report EXCEPT !.pc = "page", !.latest = <<>>,
        !.snaps = IF Complete(report.latest) THEN SetToSortSeq(report.latest, LAMBDA s, o :
           \E i, j \in DOMAIN Accounts : Accounts[i] = s.account /\ Accounts[j] = o.account /\ i < j)
                  ELSE <<>>]
  /\ UNCHANGED <<world, published, seen, found>>

Retained == Range(report.snaps) \subseteq snaps

Expired ==
  /\ report.pc = "page" /\ ~Retained /\ report' = [NoReport EXCEPT !.pc = "expired"]
  /\ UNCHANGED <<world, published, seen, found>>

\* The keys after the cursor, one more than a page to know whether there is another one.
After(s) == LET all == Listed({t \in s : t > report.after}) IN Slice(all, 0, Limit + 1)
Page(rows) == Slice(rows, 0, Limit)
More(rows) == Len(rows) > Limit

\* Mutated form: the cursor is the row that was only read to see whether there are more.
CursorPeeked(rows) == rows[Len(rows)]

\* The cursor of the next page is the last row that this one returned.
Cursor(rows) == rows[Limit]

Scan(phase, rows) ==
  seen' = [seen EXCEPT ![phase] = [t \in Torrent |-> @[t] + IF t \in Range(Page(rows)) THEN 1 ELSE 0]]

\* The cursor of the page after the last one of a phase.
Enter(phase, index) == [report EXCEPT !.phase = phase, !.after = 0, !.index = index]
Next_(rows, then) == IF More(rows) THEN [report EXCEPT !.after = Cursor(rows)] ELSE then

InSnapshot(t) == \E s \in Range(report.snaps) : s.account = Home[t] /\ t \in s.items

\* Rows of the database; the transaction ends before the disk is asked about them.
ListRows ==
  /\ report.pc = "page" /\ Retained /\ report.phase = "database"
  /\ report' = [report EXCEPT !.pc = "rows", !.listed = After({t \in Torrent : row[t] # "none"}),
                              !.live = {t \in Torrent : row[t] = "live"}]
  /\ UNCHANGED <<world, published, seen, found>>

\* Those rows against the snapshots and the disk.
DatabasePage ==
  /\ report.pc = "rows"
  /\ LET rows == report.listed
         page == Range(Page(rows)) \cap report.live IN
     /\ Scan("database", rows)
     /\ found' = found \cup {<<"missing_qb_torrent", t>> : t \in {u \in page : report.snaps # <<>> /\ ~InSnapshot(u)}}
                      \cup {<<"missing_storage", t>> : t \in page \ disk}
     /\ report' = [Next_(rows, Enter(IF report.snaps = <<>> THEN "storage" ELSE "qbittorrent", 1)) EXCEPT
                     !.pc = "page", !.listed = <<>>, !.live = {}]
  /\ UNCHANGED <<world, published>>

\* Items of one snapshot after the other against the rows.
SnapshotPage ==
  /\ report.pc = "page" /\ Retained /\ report.phase = "qbittorrent"
  /\ LET s == report.snaps[report.index]
         rows == After(s.items) IN
     /\ Scan("qbittorrent", rows)
     /\ found' = found \cup {<<"orphan_wos_qb", t>> :
                    t \in {u \in Range(Page(rows)) \ Foreign : row[u] = "none"}}
     /\ report' = Next_(rows, IF report.index < Len(report.snaps) THEN Enter("qbittorrent", report.index + 1)
                              ELSE Enter("storage", 1))
  /\ UNCHANGED <<world, published>>

\* Directories: the disk is listed in a thread, and the rows are looked up afterwards.
ListStorage ==
  /\ report.pc = "page" /\ Retained /\ report.phase = "storage"
  /\ report' = [report EXCEPT !.pc = "listed", !.listed = After(disk)]
  /\ UNCHANGED <<world, published, seen, found>>

StoragePage ==
  /\ report.pc = "listed"
  /\ LET rows == report.listed IN
     /\ Scan("storage", rows)
     /\ found' = found \cup {<<"orphan_storage", t>> : t \in {u \in Range(Page(rows)) : row[u] = "none"}}
     /\ report' = [Next_(rows, [report EXCEPT !.pc = "done"]) EXCEPT
                     !.pc = IF More(rows) THEN "page" ELSE "done", !.listed = <<>>]
  /\ UNCHANGED <<world, published>>

Next ==
  \/ StartCycle \/ ReadPage \/ ReadFails \/ Store \/ Abandon \/ EndCycle \/ Stale
  \/ Begin \/ Choose \/ Expired \/ ListRows \/ DatabasePage \/ SnapshotPage \/ ListStorage \/ StoragePage
  \/ \E t \in Torrent : Insert(t) \/ Appear(t) \/ Vanish(t)

Spec == Init /\ [][Next]_vars

-----------------------------------------------------------------------------

TypeOK ==
  /\ row \in [Torrent -> {"none", "early", "live"}] /\ qb \subseteq Torrent /\ disk \subseteq Torrent
  /\ cycle \in 0..MaxCycles /\ changes \in 0..MaxChanges
  /\ health \in [Account -> [set : 0..MaxCycles, valid : BOOLEAN]]
  /\ \A s \in snaps : s.account \in Account /\ s.items \subseteq {t \in Torrent : Home[t] = s.account}
  /\ report.pc \in {"none", "health", "page", "rows", "listed", "done", "expired"}

\* A report read to its end has scanned every torrent that had a row when it began, every item of
\* its snapshots and every directory that stayed on disk, each exactly once, whatever was inserted
\* or removed between two pages.
ScannedOnce ==
  report.pc = "done" =>
    /\ \A t \in report.rows : seen["database"][t] = 1
    /\ \A s \in Range(report.snaps) : \A t \in s.items : seen["qbittorrent"][t] = 1
    /\ \A t \in report.kept : seen["storage"][t] = 1
    /\ \A p \in DOMAIN seen : \A t \in Torrent : seen[p][t] <= 1

\* The snapshots that a report uses are those of every account, of one and the same cycle, and
\* whole, although each account is published in a transaction of its own and the report reads
\* snapshots and health in two statements.
SnapshotsCoherent ==
  report.snaps # <<>> =>
    /\ {s.account : s \in Range(report.snaps)} = Account
    /\ \A s, o \in Range(report.snaps) : s.set = o.set
    /\ \A s \in Range(report.snaps) : ~s.cut

\* A torrent that was live before the cycle of the report's snapshots began is reported as missing
\* only if a torrent left its account since: a report never mistakes a mixture of cycles or a list
\* that was cut for a loss.  (A removal between two pages of the listing may hide a neighbour.)
NoFalseAlarm == \A t \in Torrent : \A s \in Range(report.snaps) :
  <<"missing_qb_torrent", t>> \in found /\ s.account = Home[t] => since[t] >= s.set \/ shrunk[Home[t]] >= s.set
=============================================================================
