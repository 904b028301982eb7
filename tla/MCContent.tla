----------------------------- MODULE MCContent ------------------------------
(*
  Components that decide over contents, checked together: the parser of metainfo and the
  paths of its files, the manifest that downloads are made from, the capacity of the disk,
  the ledger of storage and the ranges and rates of a download.

  A behaviour runs one of the components, chosen by scenario in the initial state.
  StorageAdmission is extended and keeps the names of its variables; the others are
  instances, and the state variables x1, x2, ... stand for their variables in the order
  their modules declare them. What a component does not need stays as it was at first.
*)
EXTENDS StorageAdmission, TLC

CONSTANTS u1, u2, t1, t2, a, b, s1, s2, c1, j1, p1, p2

VARIABLES scenario, x1, x2, x3, x4, x5, x6, x7, x8, x9, x10, x11, x12, x13, x14

MCvars == <<scenario, vars, x1, x2, x3, x4, x5, x6, x7, x8, x9, x10, x11, x12, x13, x14>>

\* Markers, strings and numbers, well formed and not; a dictionary with a comment; a comment
\* and a tracker.
Tokens == {<<"d">>, <<"l">>, <<"e">>, <<"0", ":">>, <<"1", ":", "0">>, <<"1", ":", "1">>,
           <<"0", "1", ":", "0">>, <<"i", "1", "e">>, <<"i", "-", "1", "e">>,
           <<"i", "0", "1", "e">>, <<"i", "-", "0", "e">>,
           <<"d", "0", ":", "0", ":", "e">>, <<"0", ":", "0", ":", "1", ":", "0", "0", ":">>}

\* Names that differ by case only, and one that does not.
Names == {"A", "a", "b"}
Folded == [n \in Names |-> IF n = "A" THEN "a" ELSE n]

Users == <<u1, u2>>
Torrents == <<t1, t2>>
Sizes == t1 :> 1 @@ t2 :> 2

Owner_ == s1 :> u1 @@ s2 :> u1
Headers_ == [s \in {s1, s2} |-> {<<"all">>, <<"span", 0, 0>>, <<"span", 0, 5>>, <<"from", 1>>, <<"suffix", 3>>}]

Parser == INSTANCE Metainfo WITH
  Token <- Tokens, MaxTokens <- 6, MaxDepth <- 2, content <- x1, tokens <- x2

OnlyParser == scenario = "metainfo" /\ UNCHANGED <<scenario, vars, x3, x4, x5, x6, x7, x8, x9, x10, x11, x12, x13, x14>>

Paths == INSTANCE TorrentPaths WITH
  Name <- Names, Fold <- Folded, MaxParts <- 2, MaxFiles <- 4, files <- x1, nodes <- x2,
  leaves <- x3, refused <- x4

OnlyPaths == scenario = "paths" /\ UNCHANGED <<scenario, vars, x5, x6, x7, x8, x9, x10, x11, x12, x13, x14>>

\* One browser, and a torrent file that two versions of the parser read differently.
Rows == INSTANCE Manifest WITH
  Client <- {c1}, Addition <- {j1}, Parse <- {p1, p2}, Files <- [p \in {p1, p2} |-> 1],
  NoParse <- NoTx, MaxRequests <- 2, MaxRewrites <- 3, state <- x1, version <- x2,
  checksum <- x3, rows <- x4, written <- x5, request <- x6, requests <- x7, parsed <- x8,
  pages <- x9, tree <- x10, chosen <- x11, lease <- x12

OnlyRows == scenario = "manifest" /\ UNCHANGED <<scenario, vars, x13, x14>>

Disk == INSTANCE StorageCapacity WITH
  Total <- {3, 7, 10, 20}, MinFree <- {0, 2}, MinPercent <- {0, 10, 15},
  Critical <- {50, 85, 90}, Quota <- {0, 5}, disk <- x1, managed <- x2, written <- x3

OnlyDisk == scenario = "capacity" /\ UNCHANGED <<scenario, vars, x4, x5, x6, x7, x8, x9, x10, x11, x12, x13, x14>>

\* Two users compete for two torrents of which only one fits on the disk.
OnlyAdmission == scenario = "admission" /\ UNCHANGED <<scenario, x1, x2, x3, x4, x5, x6, x7, x8, x9, x10, x11, x12, x13, x14>>

\* One user holds both torrents, which end in one batch.
Batches == INSTANCE StorageAdmission WITH
  UserOrder <- <<u1>>, TorrentOrder <- <<t1, t2>>, Tx <- {a, b}, NoTx <- NoTx, Size <- Sizes,
  Capacity <- 3, UserMax <- 3, MaxActive <- 2, AdminBatch <- 2, ReconcileBatch <- 1,
  managed <- x1, right <- x2, usage <- x3, ledger <- x4, holder <- x5, tx <- x6

OnlyBatches == scenario = "batches" /\ UNCHANGED <<scenario, vars, x7, x8, x9, x10, x11, x12, x13, x14>>

Rates == INSTANCE DownloadTraffic WITH
  Stream <- {s1, s2}, User <- {u1}, Owner <- Owner_, Size <- 2, Headers <- Headers_, Chunk <- 2,
  UserCost <- 1, GlobalCost <- 1, InitialFast <- 1, MaxFast <- 2, WaitingPerUser <- 1,
  Bonus <- 0, phase <- x1, header <- x2, sent <- x3, want <- x4, delay <- x5, fast <- x6,
  order <- x7, pause <- x8, age <- x9, since <- x10, fastLimit <- x11, userNext <- x12,
  globalNext <- x13, streamNext <- x14

OnlyRates == scenario = "rates" /\ UNCHANGED <<scenario, vars>>

ASSUME RowsManifestAssumption == Rows!ManifestAssumption

ASSUME AdmissionParameters == Parameters

ASSUME BatchesParameters == Batches!Parameters

MCInit ==
  /\ Init
  /\ \/ /\ scenario = "metainfo" /\ Parser!Init
        /\ x3 = 0 /\ x4 = 0 /\ x5 = 0 /\ x6 = 0 /\ x7 = 0 /\ x8 = 0 /\ x9 = 0 /\ x10 = 0 /\ x11 = 0
        /\ x12 = 0 /\ x13 = 0 /\ x14 = 0
     \/ /\ scenario = "paths" /\ Paths!Init
        /\ x5 = 0 /\ x6 = 0 /\ x7 = 0 /\ x8 = 0 /\ x9 = 0 /\ x10 = 0 /\ x11 = 0 /\ x12 = 0 /\ x13 = 0
        /\ x14 = 0
     \/ /\ scenario = "manifest" /\ Rows!Init
        /\ x13 = 0 /\ x14 = 0
     \/ /\ scenario = "capacity" /\ Disk!Init
        /\ x4 = 0 /\ x5 = 0 /\ x6 = 0 /\ x7 = 0 /\ x8 = 0 /\ x9 = 0 /\ x10 = 0 /\ x11 = 0 /\ x12 = 0
        /\ x13 = 0 /\ x14 = 0
     \/ /\ scenario = "admission"
        /\ x1 = 0 /\ x2 = 0 /\ x3 = 0 /\ x4 = 0 /\ x5 = 0 /\ x6 = 0 /\ x7 = 0 /\ x8 = 0 /\ x9 = 0
        /\ x10 = 0 /\ x11 = 0 /\ x12 = 0 /\ x13 = 0 /\ x14 = 0
     \/ /\ scenario = "batches" /\ Batches!Init
        /\ x7 = 0 /\ x8 = 0 /\ x9 = 0 /\ x10 = 0 /\ x11 = 0 /\ x12 = 0 /\ x13 = 0 /\ x14 = 0
     \/ /\ scenario = "rates" /\ Rates!Init

MCNext ==
  \/ OnlyParser /\ Parser!Next
  \/ OnlyPaths /\ Paths!Next
  \/ OnlyRows /\ Rows!Next
  \/ OnlyDisk /\ Disk!Next
  \/ OnlyAdmission /\ Next
  \/ OnlyBatches /\ Batches!Next
  \/ OnlyRates /\ Rates!Next

MCSpec == MCInit /\ [][MCNext]_MCvars

-----------------------------------------------------------------------------
\* What is decided over contents is exact: a torrent file is read as it is written, its files are
\* laid out without conflict, the percentages of a disk are rounded to the safe side, batches of
\* torrents of one user keep the counters and meet no other in a circle of locks, and streams
\* send the bytes of their ranges, no faster than the rates allow, while no fast lane idles.
\*   - Canonical (Metainfo): A file the parser accepts is the only encoding of what it read:
\*     encoding the value gives the same bytes, so equal values never hide behind different info
\*     hashes (_Parser, _encode).
\*   - SameInfo (Metainfo): The file that is staged, and the one that is submitted after a second
\*     rewriting, are valid and keep the bytes of info the upload came with (_rewrite_torrent).
\*   - PathsExact (TorrentPaths): The files of a torrent that is accepted can all exist on one
\*     disk, also one that folds names, and a torrent is refused only for a file that cannot
\*     (_torrent_files, add_file).
\*   - PromisesFit (StorageCapacity): Whatever was admitted can be written completely without
\*     making the disk critical: the capacity of managed_reservation_capacity lies strictly below
\*     every boundary of classify_storage_pressure, for every rounding.
\*   - StorageKept (StorageAdmission): The counters keep what they promise, for the disk and for
\*     every user.
\*   - CirclesBatched (StorageAdmission): Sessions deadlock only by way of a batch: admissions,
\*     cancellations, expirations of any users, retries, deletions, purges of one torrent and
\*     reconciliations of one user, however many run at once, never wait for each other in a
\*     circle. The circles that Postgres breaks all contain a purge that has come to its second
\*     torrent, or a reconciliation of several users.
\*   - LanesUsed (DownloadTraffic): No lane is left idle while somebody waits, whatever order
\*     streams end, are promoted and the limit moves in; and nobody waits with more than his
\*     share.
\*   - RateHolds (DownloadTraffic): Chunks of a user, and of all users, that wait for their
\*     reservation are spaced by what they cost: the rate holds over any window.
\*   - BytesExact (DownloadTraffic): A response sends bytes of the file that were asked for, and
\*     a complete one has sent them all, through short reads and changes of lane.
\*   - TypeOK: the state has the types each component gives it.
ContentsExact ==
  /\ scenario = "metainfo" => Parser!Canonical
  /\ scenario = "metainfo" => Parser!SameInfo
  /\ scenario = "paths" => Paths!PathsExact
  /\ scenario = "capacity" => Disk!PromisesFit
  /\ scenario = "batches" => Batches!StorageKept
  /\ scenario = "batches" => Batches!CirclesBatched
  /\ scenario = "rates" => Rates!LanesUsed
  /\ scenario = "rates" => Rates!RateHolds
  /\ scenario = "rates" => Rates!BytesExact
  /\ scenario = "metainfo" => Parser!TypeOK
  /\ scenario = "paths" => Paths!TypeOK
  /\ scenario = "manifest" => Rows!TypeOK
  /\ scenario = "capacity" => Disk!TypeOK
  /\ scenario = "admission" => TypeOK
  /\ scenario = "batches" => Batches!TypeOK
  /\ scenario = "rates" => Rates!TypeOK

\* A download is of the files its client was shown, and they are stored.
\*   - PagesAgree (Manifest): The pages a client reads under one snapshot id are of one
\*     generation of rows, the one whose checksum the id carries, however the manifest is
\*     rewritten in between.
\*   - ListedIsServed (Manifest): A download that was let in under a snapshot id serves the rows
\*     its client was shown under that id, also when a list of directories was labelled before
\*     its rows were read.
\*   - LeaseOnStoredRows (Manifest): A lease holds rows that are still stored: whoever deletes
\*     the manifest waits for the lease or deletes it, and a lease is not taken on rows replaced
\*     since they were chosen.
\*   - ManifestInv (Manifest): The inductive invariant: while a right is active, the version it
\*     sees only grows, and what a client holds under a label is of the rows that the label's
\*     version had.
ManifestServed ==
  /\ scenario = "manifest" => Rows!PagesAgree
  /\ scenario = "manifest" => Rows!ListedIsServed
  /\ scenario = "manifest" => Rows!LeaseOnStoredRows
  /\ scenario = "manifest" => Rows!ManifestInv

\* Which of several equal actors does what makes no difference.
Symmetry == Permutations({a, b}) \cup Permutations({s1, s2})
=============================================================================
