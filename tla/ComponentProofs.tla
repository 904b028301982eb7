--------------------------- MODULE ComponentProofs ---------------------------
(***************************************************************************)
(* Proofs about six components that share no state: Manifest, which is     *)
(* extended, and Gateway, V1Import, Recovery, OptionRegistry and           *)
(* AccountRouting, which are instances.  Requests, their bound, rows,      *)
(* administrators, holders and torrents are each component's own, even     *)
(* where two of them use one name.                                         *)
(*                                                                         *)
(* Each has an inductive invariant, stated at the end of its module, and   *)
(* its theorems hold for any number of clients, tasks, users, calls and    *)
(* jobs and any bounds.                                                    *)
(***************************************************************************)
EXTENDS Manifest, Sequences, TLAPS

CONSTANTS
    Task, Hash,                    \* of Gateway, the torrents of V1Import too
    User, Name, Inventory, Rows,   \* of V1Import
    Admin, MaxWork, MaxJobs, MaxFaults,  \* of Recovery, administrators of OptionRegistry too
    Service, Order, Bounds, Default, Strict, Ordered, Capped, Account, Rate, Floor, Fits, Reserve,
    Full, Changes, Present, MaxVersion, MaxManual,  \* of OptionRegistry
    Worker, Slot, Passkey                \* of AccountRouting

VARIABLES
    qb, late, sessions, cookie, holder, op,   \* of Gateway
    active, torrents, runs, undone, made,     \* of V1Import
    row, kind, disk, jobs, call, works, faults,  \* of Recovery
    audit, tx, page, manual,                     \* of OptionRegistry, and rows
    ref, key, legacy, job, activity              \* of AccountRouting, and holder and qb

QB == INSTANCE Gateway
V1 == INSTANCE V1Import
RC == INSTANCE Recovery
OP == INSTANCE OptionRegistry
AR == INSTANCE AccountRouting


-----------------------------------------------------------------------------
(* Labels                                                                  *)

\* The constant rows, labels and choices are of their types.
LEMMA Constants ==
  /\ NoRows \in RowSet /\ NoLabel \in Label /\ Nothing \in Choice
  /\ Unread \in [label : Label, read : SUBSET RowSet]
  /\ Undrawn \in [label : Label, rows : RowSet]
  BY DEF NoRows, NoLabel, Nothing, Unread, Undrawn, RowSet, Label, Choice, Content

\* There is a manifest, with its rows, exactly if there is a version.
LEMMA Manifested ==
  ASSUME TypeOK, CatalogueKept
  PROVE  /\ version >= 1 => checksum \in Parse /\ rows.parse = checksum /\ rows.gen \in 1..written
         /\ rows.gen >= 1 => version >= 1
  BY DEF TypeOK, CatalogueKept, NoRows, RowSet

\* What a client that is served is labelled with stands, and names a request.
LEMMA SnapshotStands ==
  ASSUME TypeOK, CatalogueKept, RightsKept, NEW c \in Client, Serves(c)
  PROVE  /\ Snapshot(c) \in Label /\ Snapshot(c) # NoLabel
         /\ Snapshot(c).request = request[c] /\ Snapshot(c).version = version
         /\ Snapshot(c).checksum = checksum
         /\ LabelKept(c, Snapshot(c)) /\ Stands(c, Snapshot(c))
         /\ rows.gen \in 1..written /\ rows.parse = checksum
  <1>1. /\ request[c] \in Nat /\ requests \in Nat /\ request[c] # 0 /\ request[c] <= requests
        /\ version \in Nat /\ checksum \in Content
    BY DEF TypeOK, RightsKept, Serves
  <1>2. /\ Snapshot(c) \in Label /\ Snapshot(c) # NoLabel
        /\ Snapshot(c).request = request[c] /\ Snapshot(c).version = version
        /\ Snapshot(c).checksum = checksum
    BY <1>1 DEF Snapshot, Label, NoLabel
  <1>3. LabelKept(c, Snapshot(c)) /\ Stands(c, Snapshot(c))
    BY <1>1, <1>2 DEF LabelKept, Stands
  <1> QED
    BY <1>2, <1>3, Manifested DEF Serves

\* What a lease holds is stored: whoever replaces or deletes the rows ends the lease.
LEMMA LeaseServes ==
  ASSUME TypeOK, LeaseOnStoredRows, NEW c \in Client, lease[c].label # NoLabel
  PROVE  lease[c] # Nothing /\ lease[c].gen = rows.gen
  BY DEF LeaseOnStoredRows, Nothing

-----------------------------------------------------------------------------
(* The parts of the invariant of one client                                *)

PagesServed(c) ==
    lease[c].label # NoLabel =>
        (lease[c].label = pages[c].label => \A r \in pages[c].read : r.gen = lease[c].gen)

TreeServed(c) ==
    lease[c].label # NoLabel =>
        (lease[c].label = tree[c].label => tree[c].rows.gen \in {NoRows.gen, lease[c].gen})

Agree(c) ==
    \A r \in pages[c].read :
        /\ r.parse = pages[c].label.checksum
        /\ \A s \in pages[c].read : r = s

Stored(c) == lease[c] # Nothing => lease[c].gen = rows.gen /\ version >= 1

ClientInv(c) ==
    /\ PagesKept(c) /\ TreeKept(c) /\ ChosenKept(c)
    /\ Agree(c) /\ PagesServed(c) /\ TreeServed(c) /\ Stored(c)

Shared == TypeOK /\ CatalogueKept /\ RightsKept

\* The invariant, client by client.
LEMMA ByClient == ManifestInv <=> Shared /\ \A c \in Client : ClientInv(c)
  BY DEF ManifestInv, Shared, ClientInv, PagesAgree, ListedIsServed, LeaseOnStoredRows,
         PagesServed, TreeServed, Agree, Stored

LEMMA ByClientNext == ManifestInv' <=> Shared' /\ \A c \in Client : ClientInv(c)'
  BY DEF ManifestInv, Shared, ClientInv, PagesAgree, ListedIsServed, LeaseOnStoredRows,
         PagesServed, TreeServed, Agree, Stored

\* A client whose state and right stay, with the manifest there is, keeps its part.
LEMMA Bystander ==
  ASSUME NEW c \in Client, ClientInv(c), UNCHANGED catalogue, requests' = requests,
         request'[c] = request[c], pages'[c] = pages[c], tree'[c] = tree[c],
         chosen'[c] = chosen[c], lease'[c] = lease[c]
  PROVE  ClientInv(c)'
  BY DEF ClientInv, PagesKept, TreeKept, ChosenKept, Agree, PagesServed, TreeServed, Stored,
         LabelKept, Stands, LabelStands, catalogue

-----------------------------------------------------------------------------
(* The torrent                                                             *)

\* Initially nothing is asked for, written or listed.
LEMMA InitKept == ASSUME Init PROVE ManifestInv
  <1>1. Shared
    BY Constants
    DEF Shared, TypeOK, CatalogueKept, RightsKept, Init, Content
  <1>2. ASSUME NEW c \in Client PROVE ClientInv(c)
    BY DEF ClientInv, PagesKept, TreeKept, ChosenKept, Agree, PagesServed, TreeServed, Stored,
           Init, Unread, Undrawn, Nothing
  <1> QED
    BY <1>1, <1>2, ByClient

\* A new right has a number no label names; a right that ends leaves 0, which none names.
LEMMA RightChanges ==
  ASSUME ManifestInv, NEW c \in Client, Ask(c) \/ EndRight(c)
  PROVE  ManifestInv'
  <1> USE DEF Shared
  <1>1. Shared /\ \A d \in Client : ClientInv(d)
    BY ByClient
  <1>2. /\ UNCHANGED <<catalogue, clients, lease>>
        /\ requests \in Nat /\ requests' \in Nat /\ requests <= requests'
        /\ request' \in [Client -> Nat]
        /\ request'[c] = 0 \/ request'[c] > requests
        /\ \A d \in Client : request'[d] = request[d] \/ d = c
        /\ \A d \in Client : request'[d] <= requests'
    <2>1. requests \in Nat /\ request \in [Client -> Nat] /\ \A d \in Client : request[d] <= requests
      BY <1>1 DEF TypeOK, RightsKept
    <2>2. CASE Ask(c)
      BY <2>1, <2>2 DEF Ask
    <2>3. CASE EndRight(c)
      BY <2>1, <2>3 DEF EndRight, clients
    <2> QED
      BY <2>2, <2>3
  <1>3. Shared'
    BY <1>1, <1>2 DEF TypeOK, CatalogueKept, RightsKept, catalogue, clients, Ask, EndRight
  <1>4. ASSUME NEW d \in Client PROVE ClientInv(d)'
    <2>1. ASSUME NEW l, LabelKept(d, l)
          PROVE  LabelKept(d, l)' /\ (Stands(d, l)' => Stands(d, l))
      BY <1>2, <2>1 DEF LabelKept, Stands, catalogue
    <2>2. PagesKept(d)' /\ TreeKept(d)'
      <3>1. PagesKept(d) /\ TreeKept(d)
        BY <1>1 DEF ClientInv
      <3> QED
        BY <1>2, <2>1, <3>1 DEF PagesKept, TreeKept, clients, catalogue
    <2> QED
      BY <1>1, <1>2, <2>2
      DEF ClientInv, ChosenKept, LabelStands, Agree, PagesServed, TreeServed, Stored, clients,
          catalogue
  <1> QED
    BY <1>3, <1>4, ByClientNext

\* Steps that leave the manifest and the clients alone.
LEMMA TorrentMoves ==
  ASSUME ManifestInv, UNCHANGED <<catalogue, rights, clients, lease>>, TypeOK'
  PROVE  ManifestInv'
  <1>1. Shared /\ \A d \in Client : ClientInv(d)
    BY ByClient
  <1>2. Shared'
    BY <1>1 DEF Shared, CatalogueKept, RightsKept, catalogue, rights
  <1>3. ASSUME NEW d \in Client PROVE ClientInv(d)'
    BY <1>1, Bystander DEF rights, clients
  <1> QED
    BY <1>2, <1>3, ByClientNext

\* Rows written anew have a generation nothing chosen has, and a version no standing label
\* has; the leases of the rows they replace are gone.
LEMMA RewriteKept ==
  ASSUME ManifestInv, NEW p \in Parse, Rewrite(p), UNCHANGED <<rights, clients>>, TypeOK'
  PROVE  ManifestInv'
  <1>1. Shared /\ \A d \in Client : ClientInv(d)
    BY ByClient
  <1>2. /\ version \in Nat /\ written \in Nat /\ version' = version + 1 /\ written' = written + 1
        /\ rows' = [gen |-> written + 1, parse |-> p] /\ checksum' = p
        /\ lease' = [d \in Client |-> Nothing]
    BY <1>1 DEF Shared, TypeOK, Rewrite, NewRows, DeleteRows
  <1>3. Shared'
    BY <1>1, <1>2 DEF Shared, CatalogueKept, RightsKept, rights
  <1>4. ASSUME NEW d \in Client PROVE ClientInv(d)'
    <2>1. ASSUME NEW l, l.version \in Nat, LabelKept(d, l)
          PROVE  LabelKept(d, l)' /\ ~Stands(d, l)'
      BY <1>2, <2>1 DEF LabelKept, Stands, rights
    <2>2. pages[d].label.version \in Nat /\ tree[d].label.version \in Nat
      BY <1>1 DEF Shared, TypeOK, Label
    <2>3. PagesKept(d)' /\ TreeKept(d)'
      <3>1. PagesKept(d) /\ TreeKept(d)
        BY <1>1 DEF ClientInv
      <3> QED
        BY <2>1, <2>2, <3>1 DEF PagesKept, TreeKept, clients
    <2>4. ChosenKept(d)'
      <3>1. ChosenKept(d)
        BY <1>1 DEF ClientInv
      <3>2. chosen[d] # Nothing => chosen[d].gen \in 1..(written + 1) /\ chosen[d].gen # rows'.gen
        BY <1>2, <3>1 DEF ChosenKept
      <3> QED
        BY <1>2, <3>1, <3>2 DEF ChosenKept, clients
    <2>5. Agree(d)'
      BY <1>1 DEF ClientInv, Agree, clients
    <2>6. (PagesServed(d) /\ TreeServed(d) /\ Stored(d))'
      BY <1>2 DEF PagesServed, TreeServed, Stored, Nothing
    <2> QED
      BY <2>3, <2>4, <2>5, <2>6 DEF ClientInv
  <1> QED
    BY <1>3, <1>4, ByClientNext

\* An addition writes what it parsed, or finds it written.
LEMMA WriteKept ==
  ASSUME ManifestInv, NEW a \in Addition, WriteManifest(a)
  PROVE  ManifestInv'
  <1>1. TypeOK
    BY DEF ManifestInv
  <1>2. parsed[a] \in Parse
    BY <1>1 DEF WriteManifest, TypeOK, Content
  <1>3. UNCHANGED <<rights, clients, state>> /\ parsed' \in [Addition -> Content]
    BY <1>1 DEF WriteManifest, Delivered, TypeOK, Content
  <1>4. CASE Rewrite(parsed[a])
    <2>1. /\ version' \in Nat /\ checksum' \in Content /\ rows' \in RowSet /\ written' \in Nat
          /\ lease' \in [Client -> Choice]
      BY <1>1, <1>2, <1>4, Constants DEF Rewrite, NewRows, DeleteRows, TypeOK, RowSet, Content
    <2>2. TypeOK'
      BY <1>1, <1>3, <2>1 DEF TypeOK, rights, clients
    <2> QED
      BY <1>2, <1>3, <1>4, <2>2, RewriteKept
  <1>5. CASE UNCHANGED <<catalogue, lease>>
    <2>1. TypeOK'
      BY <1>1, <1>3, <1>5 DEF TypeOK, rights, clients, catalogue
    <2> QED
      BY <1>3, <1>5, <2>1, TorrentMoves
  <1> QED
    BY <1>4, <1>5 DEF WriteManifest

\* The manifest is deleted when no right is active and no lease is left.
LEMMA DeletionKept ==
  ASSUME ManifestInv, NoManifest, UNCHANGED <<requests, clients>>, TypeOK',
         \A d \in Client : request'[d] = 0 /\ lease'[d] = Nothing
  PROVE  ManifestInv'
  <1>1. Shared /\ \A d \in Client : ClientInv(d)
    BY ByClient
  <1>2. version' = 0 /\ rows' = NoRows /\ written' = written /\ requests \in Nat
    BY <1>1 DEF NoManifest, Shared, TypeOK
  <1>3. Shared'
    BY <1>1, <1>2 DEF Shared, CatalogueKept, RightsKept, NoManifest
  <1>4. ASSUME NEW d \in Client PROVE ClientInv(d)'
    <2>1. ASSUME NEW l, LabelKept(d, l)
          PROVE  LabelKept(d, l)' /\ ~Stands(d, l)'
      BY <1>2, <2>1 DEF LabelKept, Stands
    <2>2. PagesKept(d)' /\ TreeKept(d)'
      <3>1. PagesKept(d) /\ TreeKept(d)
        BY <1>1 DEF ClientInv
      <3> QED
        BY <2>1, <3>1 DEF PagesKept, TreeKept, clients
    <2>3. ChosenKept(d)'
      <3>1. ChosenKept(d)
        BY <1>1 DEF ClientInv
      <3> QED
        BY <1>2, <3>1 DEF ChosenKept, clients, NoRows
    <2>4. Agree(d)'
      BY <1>1 DEF ClientInv, Agree, clients
    <2>5. (PagesServed(d) /\ TreeServed(d) /\ Stored(d))'
      BY DEF PagesServed, TreeServed, Stored, Nothing
    <2> QED
      BY <2>2, <2>3, <2>4, <2>5 DEF ClientInv
  <1> QED
    BY <1>3, <1>4, ByClientNext

\* Every step of the torrent keeps the invariant.
LEMMA TorrentKept == ASSUME ManifestInv, Torrent PROVE ManifestInv'
  <1>1. TypeOK
    BY DEF ManifestInv
  <1>2. ASSUME NEW c \in Client, Ask(c) \/ EndRight(c) PROVE ManifestInv'
    BY <1>2, RightChanges
  <1>3. ASSUME NEW next \in {"WAITING", "HELD", "READY"}, Move(next) PROVE ManifestInv'
    BY <1>1, <1>3, TorrentMoves DEF Move, TypeOK, catalogue, rights, clients
  <1>4. ASSUME NEW a \in Addition, NEW p \in Parse, StartAdd(a, p) PROVE ManifestInv'
    <2>1. parsed' \in [Addition -> Content]
      BY <1>1, <1>4 DEF StartAdd, TypeOK, Content
    <2> QED
      BY <1>1, <1>4, <2>1, TorrentMoves DEF StartAdd, TypeOK, catalogue, rights, clients
  <1>5. ASSUME NEW a \in Addition, WriteManifest(a) PROVE ManifestInv'
    BY <1>5, WriteKept
  <1>6. ASSUME NEW a \in Addition, AbandonAdd(a) PROVE ManifestInv'
    <2>1. parsed' \in [Addition -> Content]
      BY <1>1, <1>6 DEF AbandonAdd, Delivered, TypeOK, Content
    <2> QED
      BY <1>1, <1>6, <2>1, TorrentMoves DEF AbandonAdd, TypeOK, catalogue, rights, clients
  <1>7. ASSUME BeginPurge PROVE ManifestInv'
    BY <1>1, <1>7, TorrentMoves DEF BeginPurge, TypeOK, catalogue, rights, clients
  <1>8. ASSUME Purge PROVE ManifestInv'
    <2>1. TypeOK'
      BY <1>1, <1>8, Constants
      DEF Purge, NoManifest, TypeOK, rights, clients, Content
    <2> QED
      BY <1>8, <2>1, DeletionKept DEF Purge, Held, Leased, rights
  <1>9. ASSUME RecoverMetadata PROVE ManifestInv'
    <2>1. TypeOK'
      BY <1>1, <1>9, Constants
      DEF RecoverMetadata, NoManifest, DeleteRows, TypeOK, clients, Content
    <2> QED
      BY <1>9, <2>1, DeletionKept DEF RecoverMetadata, DeleteRows
  <1> QED
    BY <1>2, <1>3, <1>4, <1>5, <1>6, <1>7, <1>8, <1>9 DEF Torrent


-----------------------------------------------------------------------------
(* The clients                                                             *)

\* A step of one client keeps the invariant if it keeps that client's part of it.
LEMMA OneClient ==
  ASSUME ManifestInv, NEW c \in Client, TypeOK', UNCHANGED <<state, catalogue, rights, parsed>>,
         ClientInv(c)',
         \A d \in Client \ {c} : /\ pages'[d] = pages[d] /\ tree'[d] = tree[d]
                                 /\ chosen'[d] = chosen[d] /\ lease'[d] = lease[d]
  PROVE  ManifestInv'
  <1>1. Shared /\ \A d \in Client : ClientInv(d)
    BY ByClient
  <1>2. Shared'
    BY <1>1 DEF Shared, CatalogueKept, RightsKept, catalogue, rights
  <1>3. ASSUME NEW d \in Client PROVE ClientInv(d)'
    <2>1. CASE d = c
      BY <2>1
    <2>2. CASE d # c
      BY <1>1, <2>2, Bystander DEF rights
    <2> QED
      BY <2>1, <2>2
  <1> QED
    BY <1>2, <1>3, ByClientNext

\* A page is of the rows there are, and its label stands.
LEMMA ReadPageKept ==
  ASSUME ManifestInv, NEW c \in Client, ReadPage(c)
  PROVE  ManifestInv'
  <1>1. Shared /\ ClientInv(c) /\ LeaseOnStoredRows
    BY ByClient DEF ManifestInv
  <1>2. TypeOK /\ rows \in RowSet /\ pages[c].label \in Label /\ pages[c].read \in SUBSET RowSet
    BY <1>1 DEF Shared, TypeOK
  <1>3. /\ Snapshot(c) \in Label /\ Snapshot(c) # NoLabel /\ Snapshot(c).checksum = checksum
        /\ LabelKept(c, Snapshot(c)) /\ Stands(c, Snapshot(c)) /\ rows.parse = checksum
    BY <1>1, SnapshotStands DEF Shared, ReadPage
  <1> DEFINE new == IF pages[c] = Unread THEN [label |-> Snapshot(c), read |-> {rows}]
                    ELSE IF pages[c].label = Snapshot(c)
                         THEN [label |-> Snapshot(c), read |-> pages[c].read \cup {rows}]
                         ELSE Unread
  <1>4. pages' = [pages EXCEPT ![c] = new]
    <2>1. pages[c] = [label |-> pages[c].label, read |-> pages[c].read]
      BY <1>2 DEF TypeOK
    <2>2. [pages[c] EXCEPT !.read = @ \cup {rows}]
            = [label |-> pages[c].label, read |-> pages[c].read \cup {rows}]
      BY <2>1
    <2> QED
      BY <1>2, <2>2 DEF ReadPage, NextPage
  <1>5. new \in [label : Label, read : SUBSET RowSet]
    BY <1>2, <1>3, Constants
  <1>6. pages'[c] = new /\ pages' \in [Client -> [label : Label, read : SUBSET RowSet]]
    BY <1>2, <1>4, <1>5 DEF TypeOK
  <1>7. new # Unread => /\ new.label = Snapshot(c) /\ new.read = {rows}
    <2>1. CASE pages[c] # Unread /\ pages[c].label = Snapshot(c)
      BY <1>1, <1>3, <2>1 DEF ClientInv, PagesKept
    <2> QED
      BY <2>1
  <1> HIDE DEF new
  <1>8. UNCHANGED <<state, catalogue, rights, parsed, tree, chosen, lease>>
    BY DEF ReadPage
  <1>9. PagesKept(c)'
    BY <1>3, <1>6, <1>7, <1>8 DEF PagesKept, LabelKept, Stands, catalogue, rights
  <1>10. Agree(c)'
    BY <1>3, <1>6, <1>7, <1>8 DEF Agree, Unread, catalogue
  <1>11. PagesServed(c)'
    BY <1>1, <1>3, <1>6, <1>7, <1>8, LeaseServes DEF Shared, PagesServed, Unread
  <1>12. (TreeKept(c) /\ ChosenKept(c) /\ TreeServed(c) /\ Stored(c))'
    BY <1>1, <1>8
    DEF ClientInv, TreeKept, ChosenKept, TreeServed, Stored, LabelKept, Stands, LabelStands,
        catalogue, rights
  <1>13. ClientInv(c)'
    BY <1>9, <1>10, <1>11, <1>12 DEF ClientInv
  <1>14. TypeOK'
    BY <1>2, <1>6, <1>8 DEF TypeOK, catalogue, rights
  <1> QED
    BY <1>2, <1>4, <1>8, <1>13, <1>14, OneClient DEF TypeOK

\* A client that lists the files again has read nothing.
LEMMA RelistKept ==
  ASSUME ManifestInv, NEW c \in Client, Relist(c)
  PROVE  ManifestInv'
  <1>1. Shared /\ ClientInv(c)
    BY ByClient
  <1>2. /\ TypeOK' /\ pages'[c] = Unread /\ UNCHANGED <<state, catalogue, rights, parsed, tree, chosen, lease>>
        /\ \A d \in Client \ {c} : pages'[d] = pages[d]
    BY <1>1, Constants DEF Relist, Shared, TypeOK, catalogue, rights
  <1>3. ClientInv(c)'
    BY <1>1, <1>2
    DEF ClientInv, PagesKept, TreeKept, ChosenKept, Agree, PagesServed, TreeServed, Stored,
        LabelKept, Stands, LabelStands, catalogue, rights, Unread
  <1> QED
    BY <1>2, <1>3, OneClient

\* The directories are labelled with what stands; their rows are read afterwards.
LEMMA ReadLabelKept ==
  ASSUME ManifestInv, NEW c \in Client, ReadLabel(c)
  PROVE  ManifestInv'
  <1>1. Shared /\ ClientInv(c)
    BY ByClient
  <1>2. /\ Snapshot(c) \in Label /\ LabelKept(c, Snapshot(c))
    BY <1>1, SnapshotStands DEF Shared, ReadLabel
  <1>3. /\ TypeOK' /\ tree'[c] = [label |-> Snapshot(c), rows |-> NoRows]
        /\ UNCHANGED <<state, catalogue, rights, parsed, pages, chosen, lease>>
        /\ \A d \in Client \ {c} : tree'[d] = tree[d]
    BY <1>1, <1>2, Constants DEF ReadLabel, Shared, TypeOK, catalogue, rights
  <1>4. TreeKept(c)' /\ TreeServed(c)'
    BY <1>2, <1>3 DEF TreeKept, TreeServed, LabelKept, Stands, catalogue, rights
  <1>5. ClientInv(c)'
    BY <1>1, <1>3, <1>4
    DEF ClientInv, PagesKept, ChosenKept, Agree, PagesServed, Stored,
        LabelKept, Stands, LabelStands, catalogue, rights
  <1> QED
    BY <1>3, <1>5, OneClient

\* The rows that are read then may be newer than their label: the label stands no more.
LEMMA ReadTreeKept ==
  ASSUME ManifestInv, NEW c \in Client, ReadTree(c)
  PROVE  ManifestInv'
  <1>1. Shared /\ ClientInv(c) /\ LeaseOnStoredRows
    BY ByClient DEF ManifestInv
  <1>2. TypeOK /\ rows \in RowSet /\ tree[c] \in [label : Label, rows : RowSet]
    BY <1>1 DEF Shared, TypeOK
  <1>3. PICK new \in {[label |-> tree[c].label, rows |-> rows], Undrawn} :
             tree' = [tree EXCEPT ![c] = new]
    <2>1. [tree[c] EXCEPT !.rows = rows] = [label |-> tree[c].label, rows |-> rows]
      BY <1>2
    <2> DEFINE read == rows # NoRows /\ Files[rows.parse] = Files[tree[c].label.checksum]
    <2>2. tree' = [tree EXCEPT ![c] = IF read THEN [tree[c] EXCEPT !.rows = rows] ELSE Undrawn]
      BY DEF ReadTree
    <2> HIDE DEF read
    <2> QED
      BY <2>1, <2>2
  <1>4. /\ TypeOK' /\ tree'[c] = new
        /\ UNCHANGED <<state, catalogue, rights, parsed, pages, chosen, lease>>
        /\ \A d \in Client \ {c} : tree'[d] = tree[d]
    BY <1>2, <1>3, Constants DEF ReadTree, TypeOK, catalogue, rights
  <1>5. TreeKept(c)'
    <2>1. tree[c] # Undrawn /\ TreeKept(c)
      BY <1>1 DEF ReadTree, Undrawn, ClientInv
    <2> QED
      BY <1>3, <1>4, <2>1 DEF TreeKept, LabelKept, Stands, catalogue, rights
  <1>6. TreeServed(c)'
    BY <1>1, <1>3, <1>4, LeaseServes DEF Shared, TreeServed, Undrawn
  <1>7. ClientInv(c)'
    BY <1>1, <1>4, <1>5, <1>6
    DEF ClientInv, PagesKept, ChosenKept, Agree, PagesServed, Stored,
        LabelKept, Stands, LabelStands, catalogue, rights
  <1> QED
    BY <1>4, <1>7, OneClient


\* What is chosen is chosen from the rows there are, under no label or the one that stands.
LEMMA ChooseKept ==
  ASSUME ManifestInv, NEW c \in Client, Serves(c), NEW l \in {NoLabel, Snapshot(c)},
         chosen' = [chosen EXCEPT ![c] = [label |-> l, request |-> request[c], gen |-> rows.gen]],
         UNCHANGED <<state, catalogue, rights, parsed, pages, tree, lease>>
  PROVE  ManifestInv'
  <1>1. Shared /\ ClientInv(c)
    BY ByClient
  <1>2. /\ Snapshot(c) \in Label /\ Snapshot(c).request = request[c] /\ rows.gen \in 1..written
        /\ Snapshot(c).version = version /\ Snapshot(c).checksum = checksum
    BY <1>1, SnapshotStands DEF Shared
  <1> DEFINE new == [label |-> l, request |-> request[c], gen |-> rows.gen]
  <1>3. new \in Choice /\ request[c] # 0
    BY <1>1, <1>2, Constants DEF Choice, Shared, TypeOK, RowSet, Serves
  <1>4. chosen' \in [Client -> Choice] /\ chosen'[c] = new
    BY <1>1, <1>3 DEF Shared, TypeOK
  <1>5. TypeOK'
    BY <1>1, <1>4 DEF Shared, TypeOK, catalogue, rights
  <1>6. ChosenKept(c)'
    BY <1>2, <1>3, <1>4 DEF ChosenKept, LabelStands, catalogue
  <1>7. ClientInv(c)'
    BY <1>1, <1>6
    DEF ClientInv, PagesKept, TreeKept, Agree, PagesServed, TreeServed, Stored,
        LabelKept, Stands, catalogue, rights
  <1> QED
    BY <1>1, <1>5, <1>7, OneClient DEF Shared, TypeOK

\* A lease is taken on rows that are still there, under a right that still stands: a label
\* of that right with the version there is names the rows its client was shown.
LEMMA AcquireKept ==
  ASSUME ManifestInv, NEW c \in Client, Acquire(c)
  PROVE  ManifestInv'
  <1>1. Shared /\ ClientInv(c)
    BY ByClient
  <1>2. TypeOK /\ CatalogueKept /\ chosen[c] \in Choice
    BY <1>1 DEF Shared, TypeOK
  <1>3. UNCHANGED <<state, catalogue, rights, parsed, pages, tree>> /\ chosen'[c] = Nothing
    BY <1>2 DEF Acquire, TypeOK
  <1>4. TypeOK'
    BY <1>2, <1>3, Constants DEF Acquire, TypeOK, catalogue, rights
  <1>5. \A d \in Client \ {c} : chosen'[d] = chosen[d] /\ lease'[d] = lease[d]
    BY <1>2 DEF Acquire, TypeOK
  <1>6. (PagesKept(c) /\ TreeKept(c) /\ ChosenKept(c) /\ Agree(c))'
    BY <1>1, <1>3
    DEF ClientInv, PagesKept, TreeKept, ChosenKept, Agree, LabelKept, Stands, catalogue, rights
  <1>7. (PagesServed(c) /\ TreeServed(c) /\ Stored(c))'
    <2>1. CASE ~StillThere(c)
      BY <1>1, <1>3, <2>1
      DEF Acquire, ClientInv, PagesServed, TreeServed, Stored, catalogue
    <2>2. CASE StillThere(c)
      <3>1. lease'[c] = chosen[c] /\ chosen[c] # Nothing
        BY <1>2, <2>2 DEF Acquire, TypeOK
      <3>2. chosen[c].gen = rows.gen /\ rows.gen >= 1 /\ version >= 1
        BY <1>1, <1>2, <2>2, <3>1, Manifested DEF StillThere, ClientInv, ChosenKept, TypeOK
      <3>3. ASSUME chosen[c].label # NoLabel PROVE Stands(c, chosen[c].label)
        BY <1>1, <2>2, <3>1, <3>2, <3>3
        DEF StillThere, ClientInv, ChosenKept, LabelStands, Stands
      <3>4. PagesServed(c)'
        BY <1>1, <1>3, <3>1, <3>2, <3>3 DEF ClientInv, PagesKept, PagesServed, Unread
      <3>5. TreeServed(c)'
        BY <1>1, <1>3, <3>1, <3>2, <3>3 DEF ClientInv, TreeKept, TreeServed, Undrawn
      <3>6. Stored(c)'
        BY <1>3, <3>1, <3>2 DEF Stored, catalogue
      <3> QED
        BY <3>4, <3>5, <3>6
    <2> QED
      BY <2>1, <2>2
  <1>8. ClientInv(c)'
    BY <1>6, <1>7 DEF ClientInv
  <1> QED
    BY <1>3, <1>4, <1>5, <1>8, OneClient

\* A download ends.
LEMMA ReleaseKept ==
  ASSUME ManifestInv, NEW c \in Client, Release(c)
  PROVE  ManifestInv'
  <1>1. Shared /\ ClientInv(c)
    BY ByClient
  <1>2. /\ TypeOK' /\ lease'[c] = Nothing /\ UNCHANGED <<state, catalogue, rights, parsed, clients>>
        /\ \A d \in Client \ {c} : lease'[d] = lease[d]
    BY <1>1, Constants DEF Release, Shared, TypeOK, catalogue, rights, clients
  <1>3. ClientInv(c)'
    BY <1>1, <1>2
    DEF ClientInv, PagesKept, TreeKept, ChosenKept, Agree, PagesServed, TreeServed, Stored,
        LabelKept, Stands, LabelStands, catalogue, rights, clients, Nothing
  <1> QED
    BY <1>2, <1>3, OneClient DEF clients

\* Every step of a client keeps the invariant.
LEMMA BrowserKept == ASSUME ManifestInv, NEW c \in Client, Browser(c) PROVE ManifestInv'
  <1>1. ASSUME NEW r \in SeenRows(c), NEW l \in Labels(c) \cup {NoLabel}, CheckFile(c, r, l)
        PROVE  ManifestInv'
    BY <1>1, ChooseKept DEF CheckFile
  <1>2. ASSUME NEW l \in Labels(c), CheckArchive(c, l) PROVE ManifestInv'
    BY <1>2, ChooseKept DEF CheckArchive
  <1> QED
    BY <1>1, <1>2, ReadPageKept, RelistKept, ReadLabelKept, ReadTreeKept, AcquireKept, ReleaseKept
    DEF Browser

-----------------------------------------------------------------------------
(* The theorem                                                             *)

\* Nothing happens: nothing changes.
LEMMA StutterKept == ASSUME ManifestInv, UNCHANGED vars PROVE ManifestInv'
  BY DEF vars, catalogue, rights, clients, ManifestInv, TypeOK, CatalogueKept, RightsKept,
         PagesKept, TreeKept, ChosenKept, LabelKept, Stands, LabelStands, PagesAgree,
         ListedIsServed, LeaseOnStoredRows

\* The invariant holds in every state, whatever executions write, purges delete and rights
\* end between two requests of a client.
THEOREM ManifestStands == Spec => []ManifestInv
  <1>1. Init => ManifestInv
    BY InitKept
  <1>2. ManifestInv /\ [Next]_vars => ManifestInv'
    BY TorrentKept, BrowserKept, StutterKept DEF Next
  <1> QED
    BY <1>1, <1>2, PTL DEF Spec

\* The pages read under one snapshot id are of one manifest (get_torrent_download_manifest
\* compares the id of every page after the first), a download serves the rows its client was
\* shown under the id it gave (the download routes compare the id, acquire looks the file up
\* again), and the rows a lease names are stored (replace_torrent_manifest deletes the leases
\* of the rows it replaces, purge_torrent waits for them).
THEOREM DownloadsAsListed == Spec => []ManifestServed
  <1>1. ManifestInv => ManifestServed
    BY DEF ManifestInv, ManifestServed
  <1> QED
    BY <1>1, ManifestStands, PTL

-----------------------------------------------------------------------------
(* Gateway: one operation at a time, and what it answers                   *)

\* The part of the invariant of one task.
TaskInv(t) ==
  /\ QB!LockHeld(t) /\ QB!SessionKept(t) /\ QB!Pending(t) /\ QB!OwnRemoved(t)
  /\ op[t].at = "leaving" /\ op[t].result = "auth" => op[t].shaken
  /\ (op[t].at = "leaving" /\ op[t].result = "ok" /\ op[t].kind \in {"add", "inspect"}
        => qb[op[t].hash] = "wos")

GatewayTypes == QB!TypeOK /\ op \in [Task -> QB!Operation]

\* The invariant, task by task.
LEMMA GatewayByTask == QB!GatewayInv <=> GatewayTypes /\ \A t \in Task : TaskInv(t)
  BY DEF QB!GatewayInv, QB!SessionOwn, QB!AddTruthful, TaskInv, GatewayTypes

\* After a step, too.
LEMMA GatewayByTaskNext == QB!GatewayInv' <=> GatewayTypes' /\ \A t \in Task : TaskInv(t)'
  BY DEF QB!GatewayInv, QB!SessionOwn, QB!AddTruthful, TaskInv, GatewayTypes

\* Nobody else works while one operation has the lock.
LEMMA GatewayAlone ==
  ASSUME QB!GatewayInv, NEW t \in Task, op[t].at \in QB!Working \cup {"leaving"},
         NEW u \in Task, u # t
  PROVE  op[u].at \notin QB!Working \cup {"leaving"}
  BY GatewayByTask DEF TaskInv, QB!LockHeld

\* A step of the operation that has the lock.
LEMMA GatewayHolds ==
  ASSUME QB!GatewayInv, NEW t \in Task, op[t].at \in QB!Working,
         NEW new \in QB!Operation, op' = [op EXCEPT ![t] = new],
         UNCHANGED <<sessions, cookie, holder>>, late' \subseteq Hash,
         qb' \in [Hash -> {"none", "wos", "other"}],
         new.kind = op[t].kind, new.hash = op[t].hash, new.shaken = op[t].shaken,
         new.at \in QB!Working \cup {"leaving"},
         new.at # "leaving" => new.result # "ok",
         new.at \in {"post", "reconcile"} => new.kind \in {"add", "remove"},
         new.at = "post" /\ new.kind = "remove" => qb'[new.hash] = "wos",
         new.at = "leaving" /\ new.result = "auth" => new.shaken,
         new.at = "leaving" /\ new.result = "ok" /\ new.kind \in {"add", "inspect"}
           => qb'[new.hash] = "wos"
  PROVE  QB!GatewayInv'
  <1>1. GatewayTypes /\ \A u \in Task : TaskInv(u)
    BY GatewayByTask
  <1>2. op' \in [Task -> QB!Operation]
    BY <1>1 DEF GatewayTypes
  <1>3. GatewayTypes'
    BY <1>1, <1>2 DEF GatewayTypes, QB!TypeOK, QB!Operation
  <1>4. ASSUME NEW u \in Task PROVE TaskInv(u)'
    <2>1. CASE u = t
      <3>1. op'[u] = new
        BY <1>1, <2>1 DEF GatewayTypes
      <3> QED
        BY <1>1, <2>1, <3>1
        DEF TaskInv, QB!LockHeld, QB!SessionKept, QB!Pending, QB!OwnRemoved, QB!Working
    <2>2. CASE u # t
      <3>1. op'[u] = op[u] /\ op[u].at \notin QB!Working \cup {"leaving"}
        BY <1>1, <2>2, GatewayAlone DEF GatewayTypes
      <3> QED
        BY <1>1, <3>1 DEF TaskInv, QB!LockHeld, QB!SessionKept, QB!Pending, QB!OwnRemoved, QB!Working
    <2> QED
      BY <2>1, <2>2
  <1> QED
    BY <1>3, <1>4, GatewayByTaskNext

\* What is known of a working operation.
LEMMA GatewayWorking ==
  ASSUME QB!GatewayInv, NEW t \in Task, op[t].at \in QB!Working
  PROVE  /\ op[t] \in QB!Operation /\ holder = t /\ cookie = t
         /\ op[t].kind \in QB!Kinds /\ op[t].hash \in Hash /\ op[t].result # "ok"
         /\ ~QB!Authentic => op[t].shaken
         /\ op[t].at # "lookup" => op[t].kind \in {"add", "remove"}
         /\ qb \in [Hash -> {"none", "wos", "other"}] /\ late \subseteq Hash
  BY GatewayByTask
  DEF TaskInv, GatewayTypes, QB!TypeOK, QB!LockHeld, QB!SessionKept, QB!Pending, QB!Working, QB!Authentic

\* An operation ends with a result that is true.
LEMMA GatewayEnds ==
  ASSUME QB!GatewayInv, NEW t \in Task, op[t].at \in QB!Working,
         NEW r \in {"ok", "auth", "transient", "rejected", "ownership", "missing"}, QB!Ends(t, r),
         UNCHANGED <<sessions, cookie, holder>>, late' \subseteq Hash,
         qb' \in [Hash -> {"none", "wos", "other"}],
         r = "auth" => op[t].shaken,
         r = "ok" /\ op[t].kind \in {"add", "inspect"} => qb'[op[t].hash] = "wos"
  PROVE  QB!GatewayInv'
  <1> DEFINE new == [op[t] EXCEPT !.at = "leaving", !.result = r]
  <1>1. op[t] \in QB!Operation
    BY GatewayWorking
  <1>2. /\ new \in QB!Operation /\ new.kind = op[t].kind /\ new.hash = op[t].hash
        /\ new.shaken = op[t].shaken /\ new.at = "leaving" /\ new.result = r
    BY <1>1 DEF QB!Operation
  <1>3. op' = [op EXCEPT ![t] = new]
    BY DEF QB!Ends
  <1> HIDE DEF new
  <1> QED
    BY <1>2, <1>3, GatewayHolds

\* An operation goes on.
LEMMA GatewayGoes ==
  ASSUME QB!GatewayInv, NEW t \in Task, op[t].at \in QB!Working,
         NEW at \in QB!Working, QB!To(t, at),
         UNCHANGED <<sessions, cookie, holder>>, late' \subseteq Hash,
         qb' \in [Hash -> {"none", "wos", "other"}],
         at # "lookup" => op[t].kind \in {"add", "remove"},
         at = "post" /\ op[t].kind = "remove" => qb'[op[t].hash] = "wos"
  PROVE  QB!GatewayInv'
  <1> DEFINE new == [op[t] EXCEPT !.at = at]
  <1>1. op[t] \in QB!Operation /\ op[t].result # "ok"
    BY GatewayWorking
  <1>2. /\ new \in QB!Operation /\ new.kind = op[t].kind /\ new.hash = op[t].hash
        /\ new.shaken = op[t].shaken /\ new.at = at /\ new.result = op[t].result /\ at # "leaving"
    BY <1>1 DEF QB!Operation, QB!Working
  <1>3. op' = [op EXCEPT ![t] = new]
    BY DEF QB!To
  <1> HIDE DEF new
  <1> QED
    BY <1>1, <1>2, <1>3, GatewayHolds

\* A lookup writes nothing.
LEMMA GatewayLooksUp ==
  ASSUME QB!GatewayInv, NEW t \in Task,
         QB!LookupAdd(t) \/ QB!LookupInspect(t) \/ QB!LookupRemove(t) \/ QB!LookupInventory(t)
  PROVE  QB!GatewayInv'
  <1>1. op[t].at = "lookup" /\ UNCHANGED <<qb, late, sessions, cookie, holder>>
    BY DEF QB!LookupAdd, QB!LookupInspect, QB!LookupRemove, QB!LookupInventory, QB!LookingUp
  <1>2. op[t].at \in QB!Working /\ op[t].hash \in Hash
        /\ qb' \in [Hash -> {"none", "wos", "other"}] /\ late' \subseteq Hash
    BY <1>1, GatewayWorking DEF QB!Working
  <1>3. CASE QB!LookupAdd(t)
    BY <1>1, <1>2, <1>3, GatewayEnds, GatewayGoes
    DEF QB!LookupAdd, QB!LookingUp, QB!Judge, QB!Owned, QB!Working
  <1>4. CASE QB!LookupInspect(t)
    BY <1>1, <1>2, <1>4, GatewayEnds DEF QB!LookupInspect, QB!LookingUp, QB!Judge, QB!Owned
  <1>5. CASE QB!LookupRemove(t)
    BY <1>1, <1>2, <1>5, GatewayEnds, GatewayGoes
    DEF QB!LookupRemove, QB!LookingUp, QB!Judge, QB!Owned, QB!Working
  <1>6. CASE QB!LookupInventory(t)
    BY <1>1, <1>2, <1>6, GatewayEnds DEF QB!LookupInventory, QB!LookingUp
  <1> QED
    BY <1>3, <1>4, <1>5, <1>6

\* No answer: authentication fails only when qBittorrent forgot the session.
LEMMA GatewayFails ==
  ASSUME QB!GatewayInv, NEW t \in Task, QB!LookupFails(t)
  PROVE  QB!GatewayInv'
  <1>1. op[t].at \in QB!Working
    BY DEF QB!LookupFails, QB!Working
  <1> QED
    BY <1>1, GatewayWorking, GatewayEnds DEF QB!LookupFails, QB!Unanswered

\* A write, answered or not.
LEMMA GatewayPosts ==
  ASSUME QB!GatewayInv, NEW t \in Task, QB!PostAdd(t) \/ QB!PostRemove(t) \/ QB!PostRefused(t)
  PROVE  QB!GatewayInv'
  <1>1. op[t].at = "post" /\ UNCHANGED <<sessions, cookie, holder>>
    BY DEF QB!PostAdd, QB!PostRemove, QB!PostRefused
  <1>2. /\ op[t].at \in QB!Working /\ op[t].hash \in Hash /\ "reconcile" \in QB!Working
        /\ op[t].kind \in {"add", "remove"}
        /\ qb \in [Hash -> {"none", "wos", "other"}] /\ late \subseteq Hash
    BY <1>1, GatewayWorking DEF QB!Working
  <1> DEFINE h == op[t].hash
  <1>3. CASE QB!PostAdd(t)
    <2>1. CASE qb[h] = "none" /\ qb' = [qb EXCEPT ![h] = "wos"] /\ UNCHANGED late /\ QB!Ends(t, "ok")
      BY <1>1, <1>2, <2>1, GatewayEnds
    <2>2. CASE UNCHANGED <<qb, late>> /\ QB!Ends(t, "rejected")
      BY <1>1, <1>2, <2>2, GatewayEnds
    <2>3. CASE qb[h] = "none" /\ qb' = [qb EXCEPT ![h] = "wos"] /\ UNCHANGED late /\ QB!To(t, "reconcile")
      BY <1>1, <1>2, <2>3, GatewayGoes
    <2>4. CASE UNCHANGED <<qb, late>> /\ QB!To(t, "reconcile")
      BY <1>1, <1>2, <2>4, GatewayGoes
    <2>5. CASE qb[h] = "none" /\ late' = late \cup {h} /\ UNCHANGED qb /\ QB!To(t, "reconcile")
      BY <1>1, <1>2, <2>5, GatewayGoes
    <2> QED
      BY <1>3, <2>1, <2>2, <2>3, <2>4, <2>5 DEF QB!PostAdd
  <1>4. CASE QB!PostRemove(t)
    <2>1. /\ late' = late /\ op[t].kind = "remove"
          /\ qb' = [qb EXCEPT ![h] = "none"] \/ UNCHANGED qb
          /\ \/ QB!Ends(t, "ok") \/ QB!Ends(t, "rejected") \/ QB!To(t, "reconcile")
      BY <1>4 DEF QB!PostRemove
    <2>2. qb' \in [Hash -> {"none", "wos", "other"}]
      BY <1>2, <2>1
    <2> QED
      BY <1>1, <1>2, <2>1, <2>2, GatewayEnds, GatewayGoes
  <1>5. CASE QB!PostRefused(t)
    BY <1>1, <1>2, <1>5, GatewayWorking, GatewayEnds, GatewayGoes DEF QB!PostRefused
  <1> QED
    BY <1>3, <1>4, <1>5

\* An ambiguous write is settled by what qBittorrent shows.
LEMMA GatewayReconciles ==
  ASSUME QB!GatewayInv, NEW t \in Task, QB!Reconcile(t)
  PROVE  QB!GatewayInv'
  <1>1. op[t].at \in QB!Working
    BY DEF QB!Reconcile, QB!Working
  <1> QED
    BY <1>1, GatewayWorking, GatewayEnds
    DEF QB!Reconcile, QB!Settled, QB!Judge, QB!Owned, QB!Kinds


\* Steps outside the lock: a task that does not work takes the place of another value of op.
LEMMA GatewayApart ==
  ASSUME QB!GatewayInv, NEW t \in Task, op[t].at \notin QB!Working,
         NEW new \in QB!Operation, op' = [op EXCEPT ![t] = new],
         UNCHANGED <<qb, late>>, sessions' \subseteq Task,
         \A u \in Task : op[u].at \in QB!Working => u \in sessions' \/ op[u].shaken,
         new.at \in {"idle", "waiting", "failed"}, new.result # "ok",
         new.at = "waiting" => new.kind \in QB!Kinds /\ new.hash \in Hash,
         cookie' = cookie, \/ holder' = holder
                           \/ op[t].at = "leaving" /\ holder' = QB!None
  PROVE  QB!GatewayInv'
  <1>1. GatewayTypes /\ \A u \in Task : TaskInv(u)
    BY GatewayByTask
  <1>2. op' \in [Task -> QB!Operation]
    BY <1>1 DEF GatewayTypes
  <1>3. GatewayTypes'
    BY <1>1, <1>2 DEF GatewayTypes, QB!TypeOK, QB!Operation
  <1>4. ASSUME NEW u \in Task PROVE TaskInv(u)'
    <2>1. CASE u = t
      <3>1. op'[u] = new
        BY <1>1, <2>1 DEF GatewayTypes
      <3> QED
        BY <3>1 DEF TaskInv, QB!LockHeld, QB!SessionKept, QB!Pending, QB!OwnRemoved, QB!Working
    <2>2. CASE u # t
      <3>1. op'[u] = op[u]
        BY <1>1, <2>2 DEF GatewayTypes
      <3>2. holder' # holder => op[u].at \notin QB!Working \cup {"leaving"}
        BY <2>2, GatewayAlone
      <3> QED
        BY <1>1, <3>1, <3>2
        DEF TaskInv, QB!LockHeld, QB!SessionKept, QB!Pending, QB!OwnRemoved, QB!Working
    <2> QED
      BY <2>1, <2>2
  <1> QED
    BY <1>3, <1>4, GatewayByTaskNext

\* The constant operation, and those made from it.
LEMMA GatewayOperations ==
  /\ QB!NoOp \in QB!Operation /\ QB!NoOp.at = "idle" /\ QB!NoOp.result = "none"
  /\ \A k \in QB!Kinds, h \in Hash :
       [kind |-> k, hash |-> h, at |-> "waiting", result |-> "none", shaken |-> FALSE]
         \in QB!Operation
  /\ \A r \in {"auth", "transient"} : [QB!NoOp EXCEPT !.at = "failed", !.result = r] \in QB!Operation
  BY DEF QB!NoOp, QB!Operation, QB!Kinds, QB!None

\* A task calls, takes the error of a failed login, or logs out.
LEMMA GatewayComes ==
  ASSUME QB!GatewayInv, NEW t \in Task, QB!Call(t) \/ QB!Fail(t) \/ QB!Logout(t)
  PROVE  QB!GatewayInv'
  <1>1. GatewayTypes /\ \A u \in Task : TaskInv(u)
    BY GatewayByTask
  <1>2. /\ UNCHANGED <<qb, late, cookie>> /\ op[t].at \notin QB!Working
        /\ holder' = holder \/ (op[t].at = "leaving" /\ holder' = QB!None)
    BY DEF QB!Call, QB!Fail, QB!Logout, QB!Working
  <1>3. /\ sessions' \subseteq Task
        /\ \A u \in Task : op[u].at \in QB!Working => u \in sessions' \/ op[u].shaken
    <2>1. sessions \subseteq Task
          /\ \A u \in Task : op[u].at \in QB!Working => u \in sessions \/ op[u].shaken
      BY <1>1 DEF GatewayTypes, QB!TypeOK, TaskInv, QB!SessionKept
    <2>2. CASE sessions' = sessions
      BY <2>1, <2>2
    <2>3. CASE op[t].at = "leaving" /\ sessions' = sessions \ {cookie}
      BY <2>1, <2>3, GatewayAlone DEF QB!Working
    <2> QED
      BY <2>2, <2>3 DEF QB!Call, QB!Fail, QB!Logout
  <1>4. CASE QB!Call(t)
    <2>1. PICK k \in QB!Kinds, h \in Hash :
               op' = [op EXCEPT ![t] = [kind |-> k, hash |-> h, at |-> "waiting", result |-> "none",
                                        shaken |-> FALSE]]
      BY <1>4 DEF QB!Call
    <2> DEFINE new == [kind |-> k, hash |-> h, at |-> "waiting", result |-> "none", shaken |-> FALSE]
    <2>2. /\ new \in QB!Operation /\ new.at = "waiting" /\ new.result = "none"
          /\ new.kind = k /\ new.hash = h /\ op' = [op EXCEPT ![t] = new]
      BY <2>1, GatewayOperations
    <2> HIDE DEF new
    <2> QED
      BY <1>2, <1>3, <2>2, GatewayApart
  <1>5. CASE QB!Fail(t) \/ QB!Logout(t)
    BY <1>2, <1>3, <1>5, GatewayOperations, GatewayApart DEF QB!Fail, QB!Logout
  <1> QED
    BY <1>4, <1>5

\* A login: the lock is free, so nobody works.
LEMMA GatewayLogsIn ==
  ASSUME QB!Parameters, QB!GatewayInv, NEW t \in Task, QB!Login(t)
  PROVE  QB!GatewayInv'
  <1>1. GatewayTypes /\ \A u \in Task : TaskInv(u)
    BY GatewayByTask
  <1>2. \A u \in Task : op[u].at \notin QB!Working \cup {"leaving"}
    BY <1>1 DEF QB!Parameters, TaskInv, QB!LockHeld, QB!Login, QB!Free, QB!None
  <1>3. CASE holder' = t /\ cookie' = t /\ sessions' = sessions \cup {t} /\ QB!To(t, "lookup")
    <2> DEFINE new == [op[t] EXCEPT !.at = "lookup"]
    <2>1. op[t] \in QB!Operation /\ op[t].at = "waiting"
      BY <1>1 DEF GatewayTypes, QB!Login
    <2>2. /\ new \in QB!Operation /\ new.kind = op[t].kind /\ new.hash = op[t].hash
          /\ new.at = "lookup" /\ new.result = op[t].result
      BY <2>1 DEF QB!Operation, QB!Working
    <2>3. op' = [op EXCEPT ![t] = new]
      BY <1>3 DEF QB!To
    <2> HIDE DEF new
    <2>4. op' \in [Task -> QB!Operation] /\ op'[t] = new
      BY <1>1, <2>2, <2>3 DEF GatewayTypes
    <2>5. GatewayTypes'
      BY <1>1, <1>3, <2>4 DEF GatewayTypes, QB!TypeOK, QB!Operation, QB!Login
    <2>6. ASSUME NEW u \in Task PROVE TaskInv(u)'
      <3>1. CASE u = t
        BY <1>1, <1>3, <2>1, <2>2, <2>4, <3>1
        DEF TaskInv, QB!LockHeld, QB!SessionKept, QB!Pending, QB!OwnRemoved, QB!Working
      <3>2. CASE u # t
        <4>1. op'[u] = op[u] /\ qb' = qb
          BY <1>1, <2>3, <3>2 DEF GatewayTypes, QB!Login
        <4> QED
          BY <1>1, <1>2, <4>1
          DEF TaskInv, QB!LockHeld, QB!SessionKept, QB!Pending, QB!OwnRemoved, QB!Working
      <3> QED
        BY <3>1, <3>2
    <2> QED
      BY <2>5, <2>6, GatewayByTaskNext
  <1>4. ASSUME NEW r \in {"auth", "transient"},
               op' = [op EXCEPT ![t] = [QB!NoOp EXCEPT !.at = "failed", !.result = r]],
               UNCHANGED <<sessions, cookie, holder>>
        PROVE  QB!GatewayInv'
    <2> DEFINE new == [QB!NoOp EXCEPT !.at = "failed", !.result = r]
    <2>1. new \in QB!Operation /\ new.at = "failed" /\ new.result = r
      BY GatewayOperations DEF QB!NoOp
    <2>2. /\ sessions \subseteq Task /\ UNCHANGED <<qb, late>>
          /\ \A u \in Task : op[u].at \in QB!Working => u \in sessions \/ op[u].shaken
      BY <1>1 DEF GatewayTypes, QB!TypeOK, TaskInv, QB!SessionKept, QB!Login
    <2>3. op' = [op EXCEPT ![t] = new] /\ op[t].at \notin QB!Working
      BY <1>2, <1>4
    <2> HIDE DEF new
    <2> QED
      BY <1>4, <2>1, <2>2, <2>3, GatewayApart
  <1> QED
    BY <1>3, <1>4 DEF QB!Login


\* qBittorrent applies or loses a late add, somebody adds or removes a torrent by hand: what is
\* the application's stays.
LEMMA GatewayOutside ==
  ASSUME QB!GatewayInv, NEW h \in Hash,
         QB!LateAdd(h) \/ QB!LateLost(h) \/ QB!AddByHand(h) \/ QB!RemoveByHand(h)
  PROVE  QB!GatewayInv'
  <1>1. GatewayTypes /\ \A u \in Task : TaskInv(u)
    BY GatewayByTask
  <1>2. UNCHANGED <<sessions, cookie, holder, op>> /\ late' \subseteq Hash
    BY <1>1 DEF QB!LateAdd, QB!LateLost, QB!AddByHand, QB!RemoveByHand, GatewayTypes, QB!TypeOK
  <1>3. /\ qb' \in [Hash -> {"none", "wos", "other"}]
        /\ \A g \in Hash : qb[g] = "wos" => qb'[g] = "wos"
    BY <1>1 DEF QB!LateAdd, QB!LateLost, QB!AddByHand, QB!RemoveByHand, GatewayTypes, QB!TypeOK
  <1>4. GatewayTypes'
    BY <1>1, <1>2, <1>3 DEF GatewayTypes, QB!TypeOK
  <1>5. ASSUME NEW u \in Task PROVE TaskInv(u)'
    BY <1>1, <1>2, <1>3
    DEF TaskInv, QB!LockHeld, QB!SessionKept, QB!Pending, QB!OwnRemoved, QB!Working
  <1> QED
    BY <1>4, <1>5, GatewayByTaskNext

\* A restart of qBittorrent shakes whoever works.
LEMMA GatewayForgets ==
  ASSUME QB!GatewayInv, QB!ForgetSessions
  PROVE  QB!GatewayInv'
  <1>1. GatewayTypes /\ \A u \in Task : TaskInv(u)
    BY GatewayByTask
  <1>2. UNCHANGED <<qb, late, cookie, holder>> /\ sessions' = {}
    BY DEF QB!ForgetSessions
  <1> DEFINE Shaken(u) == [op[u] EXCEPT !.shaken = TRUE]
  <1>3. ASSUME NEW u \in Task
        PROVE  /\ Shaken(u) \in QB!Operation /\ Shaken(u).at = op[u].at /\ Shaken(u).shaken
               /\ Shaken(u).kind = op[u].kind /\ Shaken(u).hash = op[u].hash
               /\ Shaken(u).result = op[u].result /\ op[u] \in QB!Operation
    BY <1>1 DEF GatewayTypes, QB!Operation
  <1>4. op' = [u \in Task |-> IF op[u].at \in QB!Working THEN Shaken(u) ELSE op[u]]
    BY DEF QB!ForgetSessions, QB!Working
  <1> HIDE DEF Shaken
  <1>5. op' \in [Task -> QB!Operation]
    BY <1>3, <1>4
  <1>6. GatewayTypes'
    BY <1>1, <1>2, <1>5 DEF GatewayTypes, QB!TypeOK, QB!Operation
  <1>7. ASSUME NEW u \in Task PROVE TaskInv(u)'
    <2>1. /\ op'[u].at = op[u].at /\ op'[u].kind = op[u].kind /\ op'[u].hash = op[u].hash
          /\ op'[u].result = op[u].result /\ (op[u].at \in QB!Working => op'[u].shaken)
          /\ (op[u].at \notin QB!Working => op'[u] = op[u])
      BY <1>3, <1>4
    <2> QED
      BY <1>1, <1>2, <2>1
      DEF TaskInv, QB!LockHeld, QB!SessionKept, QB!Pending, QB!OwnRemoved, QB!Working
  <1> QED
    BY <1>6, <1>7, GatewayByTaskNext

\* Initially nobody has called and qBittorrent is empty.
LEMMA GatewayInit == ASSUME QB!Init PROVE QB!GatewayInv
  <1>1. GatewayTypes
    BY GatewayOperations DEF GatewayTypes, QB!TypeOK, QB!Init, QB!NoOp, QB!None
  <1>2. ASSUME NEW u \in Task PROVE TaskInv(u)
    BY DEF TaskInv, QB!LockHeld, QB!SessionKept, QB!Pending, QB!OwnRemoved, QB!Working, QB!Init, QB!NoOp
  <1> QED
    BY <1>1, <1>2, GatewayByTask

\* Every step keeps the invariant.
LEMMA GatewayKept == ASSUME QB!Parameters, QB!GatewayInv, [QB!Next]_QB!vars PROVE QB!GatewayInv'
  <1>1. CASE UNCHANGED QB!vars
    BY <1>1
    DEF QB!vars, QB!GatewayInv, QB!TypeOK, QB!LockHeld, QB!SessionKept, QB!Pending, QB!OwnRemoved,
        QB!SessionOwn, QB!AddTruthful
  <1> QED
    BY <1>1, GatewayComes, GatewayLogsIn, GatewayLooksUp, GatewayFails, GatewayPosts,
       GatewayReconciles, GatewayOutside, GatewayForgets DEF QB!Next

\* The invariant holds in every state, whatever qBittorrent answers, applies late or forgets and
\* whatever others do to it by hand.
THEOREM GatewayStands == ASSUME QB!Parameters PROVE QB!Spec => []QB!GatewayInv
  <1>1. QB!Init => QB!GatewayInv
    BY GatewayInit
  <1>2. QB!GatewayInv /\ [QB!Next]_QB!vars => QB!GatewayInv'
    BY GatewayKept
  <1> QED
    BY <1>1, <1>2, PTL DEF QB!Spec

\* An add or an inspection that reports success speaks of the application's own torrent, and an
\* operation fails on authentication only if qBittorrent forgot its session (the lock of the
\* gateway is held from the login to the logout).
THEOREM AnswersTruthful == ASSUME QB!Parameters PROVE QB!Spec => [](QB!AddTruthful /\ QB!SessionOwn)
  <1>1. QB!GatewayInv => QB!AddTruthful /\ QB!SessionOwn
    BY DEF QB!GatewayInv
  <1> QED
    BY <1>1, GatewayStands, PTL

\* Only the operation's own last step gives it the result of a success.
LEMMA GatewayResult ==
  ASSUME QB!GatewayInv, [QB!Next]_QB!vars, NEW t \in Task,
         op[t].kind = "remove", op[t].at # "leaving", op'[t].result = "ok"
  PROVE  QB!LookupRemove(t) \/ QB!PostRemove(t) \/ QB!Reconcile(t)
  <1>1. op \in [Task -> QB!Operation] /\ op[t].result # "ok"
    BY GatewayByTask DEF GatewayTypes, TaskInv, QB!Pending
  <1>2. ASSUME NEW u \in Task,
               \/ QB!Call(u) \/ QB!Login(u) \/ QB!Fail(u) \/ QB!LookupAdd(u) \/ QB!LookupInspect(u)
               \/ QB!LookupRemove(u) \/ QB!LookupInventory(u) \/ QB!LookupFails(u) \/ QB!PostAdd(u)
               \/ QB!PostRemove(u) \/ QB!PostRefused(u) \/ QB!Reconcile(u) \/ QB!Logout(u)
        PROVE  u = t /\ ~QB!Call(u) /\ ~QB!Login(u) /\ ~QB!Fail(u) /\ ~QB!Logout(u)
    <2>1. \E new : op' = [op EXCEPT ![u] = new]
      BY <1>2
      DEF QB!Call, QB!Login, QB!Fail, QB!LookupAdd, QB!LookupInspect, QB!LookupRemove,
          QB!LookupInventory, QB!LookupFails, QB!PostAdd, QB!PostRemove, QB!PostRefused,
          QB!Reconcile, QB!Logout, QB!Unanswered, QB!Judge, QB!Settled, QB!To, QB!Ends
    <2>2. u = t
      BY <1>1, <2>1
    <2>3. ~QB!Call(u) /\ ~QB!Fail(u) /\ ~QB!Logout(u)
      BY <1>1, <2>2 DEF QB!Call, QB!Fail, QB!Logout, QB!NoOp
    <2>4. ~QB!Login(u)
      <3>1. op[t] \in QB!Operation
        BY <1>1
      <3>2. [op[t] EXCEPT !.at = "lookup"].result = op[t].result
        BY <3>1 DEF QB!Operation
      <3>3. \A r \in {"auth", "transient"} :
              [QB!NoOp EXCEPT !.at = "failed", !.result = r].result # "ok"
        BY DEF QB!NoOp
      <3>4. ~QB!To(t, "lookup")
        BY <1>1, <3>2 DEF QB!To
      <3>5. \A r \in {"auth", "transient"} :
              op' # [op EXCEPT ![t] = [QB!NoOp EXCEPT !.at = "failed", !.result = r]]
        BY <1>1, <3>3
      <3> QED
        BY <2>2, <3>4, <3>5 DEF QB!Login
    <2> QED
      BY <2>2, <2>3, <2>4
  <1>3. ~QB!LookupAdd(t) /\ ~QB!LookupInspect(t) /\ ~QB!LookupInventory(t) /\ ~QB!PostAdd(t)
    BY DEF QB!LookupAdd, QB!LookupInspect, QB!LookupInventory, QB!PostAdd, QB!LookingUp
  <1>4. \A r \in {"transient", "auth", "rejected"} : ~QB!Ends(t, r)
    BY <1>1 DEF QB!Ends, QB!Operation
  <1>5. ~QB!To(t, "reconcile")
    BY <1>1 DEF QB!To, QB!Operation
  <1>6. ~QB!LookupFails(t) /\ ~QB!PostRefused(t)
    BY <1>4, <1>5 DEF QB!LookupFails, QB!Unanswered, QB!PostRefused
  <1>7. ~UNCHANGED QB!vars
    BY <1>1 DEF QB!vars
  <1>8. ~QB!ForgetSessions
    <2>1. op[t] \in QB!Operation
      BY <1>1
    <2>2. [op[t] EXCEPT !.shaken = TRUE].result = op[t].result
      BY <2>1 DEF QB!Operation
    <2> QED
      BY <1>1, <2>2 DEF QB!ForgetSessions
  <1>9. \A h \in Hash : ~(QB!LateAdd(h) \/ QB!LateLost(h) \/ QB!AddByHand(h) \/ QB!RemoveByHand(h))
    BY <1>1 DEF QB!LateAdd, QB!LateLost, QB!AddByHand, QB!RemoveByHand
  <1> QED
    BY <1>2, <1>3, <1>6, <1>7, <1>8, <1>9 DEF QB!Next

\* An operation changes only torrents that are not there or are the application's.
LEMMA GatewayForeign ==
  ASSUME QB!GatewayInv, [QB!Next]_QB!vars, NEW h \in Hash, qb[h] = "other", qb'[h] # "other"
  PROVE  op' = op
  <1>1. GatewayTypes /\ \A u \in Task : TaskInv(u)
    BY GatewayByTask
  <1>2. ASSUME NEW t \in Task, QB!PostAdd(t) \/ QB!PostRemove(t) PROVE qb'[h] = "other"
    <2>1. \A g \in Hash : qb' = [qb EXCEPT ![g] = "wos"] /\ qb[g] = "none" => qb'[h] = "other"
      BY <1>1 DEF GatewayTypes, QB!TypeOK
    <2>2. CASE QB!PostAdd(t)
      <3>1. op[t].hash \in Hash
        BY <2>2, GatewayWorking DEF QB!PostAdd, QB!Working
      <3> QED
        BY <2>1, <2>2, <3>1 DEF QB!PostAdd
    <2>3. CASE QB!PostRemove(t)
      <3>1. qb[op[t].hash] = "wos"
        BY <1>1, <2>3 DEF TaskInv, QB!OwnRemoved, QB!PostRemove
      <3>2. qb' = [qb EXCEPT ![op[t].hash] = "none"] \/ qb' = qb
        BY <2>3 DEF QB!PostRemove
      <3> QED
        BY <1>1, <3>1, <3>2 DEF GatewayTypes, QB!TypeOK
    <2> QED
      BY <1>2, <2>2, <2>3
  <1>3. ASSUME NEW g \in Hash, QB!LateAdd(g) \/ QB!LateLost(g) \/ QB!AddByHand(g) \/ QB!RemoveByHand(g)
        PROVE  op' = op
    BY <1>3 DEF QB!LateAdd, QB!LateLost, QB!AddByHand, QB!RemoveByHand
  <1>4. ASSUME NEW t \in Task,
               \/ QB!Call(t) \/ QB!Login(t) \/ QB!Fail(t) \/ QB!LookupAdd(t) \/ QB!LookupInspect(t)
               \/ QB!LookupRemove(t) \/ QB!LookupInventory(t) \/ QB!LookupFails(t)
               \/ QB!PostRefused(t) \/ QB!Reconcile(t) \/ QB!Logout(t)
        PROVE  qb' = qb
    BY <1>4
    DEF QB!Call, QB!Login, QB!Fail, QB!LookupAdd, QB!LookupInspect, QB!LookupRemove, QB!LookingUp,
        QB!LookupInventory, QB!LookupFails, QB!Unanswered, QB!PostRefused, QB!Reconcile, QB!Logout
  <1> QED
    BY <1>2, <1>3, <1>4 DEF QB!Next, QB!ForgetSessions, QB!vars

\* A step of the gateway removes truthfully.
LEMMA RemovalStep ==
  ASSUME QB!GatewayInv, [QB!Next]_QB!vars
  PROVE  QB!RemoveTruthfulStep
  <1>1. op \in [Task -> QB!Operation] /\ qb \in [Hash -> {"none", "wos", "other"}]
    BY GatewayByTask DEF GatewayTypes, QB!TypeOK
  <1>2. ASSUME NEW t \in Task, op[t].kind = "remove", op[t].at # "leaving", op'[t].result = "ok"
        PROVE  qb'[op[t].hash] # "wos"
    <2>1. /\ \A r \in {"transient", "ownership", "rejected"} : ~QB!Ends(t, r)
          /\ \A at \in QB!Working : ~QB!To(t, at)
      <3>1. op[t] \in QB!Operation /\ op[t].result # "ok"
        BY <1>2, GatewayByTask DEF GatewayTypes, TaskInv, QB!Pending
      <3> QED
        BY <1>1, <1>2, <3>1 DEF QB!Ends, QB!To, QB!Operation
    <2>2. CASE QB!LookupRemove(t)
      BY <2>1, <2>2 DEF QB!LookupRemove, QB!LookingUp, QB!Judge, QB!Working
    <2>3. CASE QB!PostRemove(t)
      <3>1. op[t].hash \in Hash
        BY <2>3, GatewayWorking DEF QB!PostRemove, QB!Working
      <3>2. qb' = [qb EXCEPT ![op[t].hash] = "none"]
        BY <2>1, <2>3 DEF QB!PostRemove, QB!Working
      <3> QED
        BY <1>1, <3>1, <3>2
    <2>4. CASE QB!Reconcile(t)
      <3>1. op[t].kind # "add" /\ qb' = qb
        BY <1>2, <2>4 DEF QB!Reconcile
      <3>2. QB!Judge(t, QB!Ends(t, "ok"), QB!Ends(t, "transient"))
        BY <2>4, <3>1 DEF QB!Reconcile, QB!Settled
      <3>3. qb[op[t].hash] = "none"
        BY <2>1, <3>2 DEF QB!Judge
      <3> QED
        BY <3>1, <3>3
    <2> QED
      BY <1>2, <2>2, <2>3, <2>4, GatewayResult
  <1>3. ASSUME NEW h \in Hash, qb[h] = "other", qb'[h] # "other"
        PROVE  op' = op
    BY <1>3, GatewayForeign
  <1> QED
    BY <1>2, <1>3 DEF QB!RemoveTruthfulStep

\* A removal that reports success left nothing of the application's, and no operation takes away
\* what somebody else added.
THEOREM RemovalsTruthful == ASSUME QB!Parameters PROVE QB!Spec => QB!RemoveTruthful
  <1>1. QB!GatewayInv /\ [QB!Next]_QB!vars => QB!RemoveTruthfulStep
    BY RemovalStep
  <1>2. QB!RemoveTruthfulStep => [QB!RemoveTruthfulStep]_QB!vars
    OBVIOUS
  <1> QED
    BY <1>1, <1>2, GatewayStands, PTL DEF QB!Spec, QB!RemoveTruthful

-----------------------------------------------------------------------------
(* V1Import: the rights of the first version                               *)

\* A placeholder is no missing row.
LEMMA ImportKnown ==
  ASSUME NEW h \in Hash, torrents \in [Hash -> V1!Placeholder \cup {V1!None}]
  PROVE  /\ V1!Known(h) <=> torrents[h] # V1!None
         /\ V1!Known(h) <=> torrents[h] \in V1!Placeholder
  BY DEF V1!Known, V1!Placeholder, V1!None

\* After a step, too.
LEMMA ImportKnownNext ==
  ASSUME NEW h \in Hash
  PROVE  V1!Known(h)' <=> torrents'[h] # V1!None
  BY DEF V1!Known, V1!None

\* The new rows are no missing ones.
LEMMA ImportRow ==
  ASSUME NEW p \in V1!Placeholder
  PROVE  p # V1!None
  BY DEF V1!Placeholder, V1!None

\* An inventory is applied: its rows have a torrent and a right, and those it found come from before.
LEMMA ImportApplies ==
  ASSUME V1!Parameters, V1!ImportInv, NEW i \in Inventory, V1!Apply(i)
  PROVE  V1!ImportInv'
  <1>1. /\ runs \in Seq(Inventory) /\ runs' = Append(runs, i) /\ ~V1!Ran(i) /\ i # "app"
        /\ UNCHANGED <<active, undone>> /\ i \in V1!Makers
    BY DEF V1!Apply, V1!ImportInv, V1!AppliedOnce, V1!Parameters, V1!Makers
  <1>2. /\ Len(runs') = Len(runs) + 1 /\ runs' \in Seq(Inventory) /\ runs'[Len(runs) + 1] = i
        /\ DOMAIN runs = 1 .. Len(runs) /\ DOMAIN runs' = 1 .. (Len(runs) + 1)
        /\ Len(runs) \in Nat /\ \A n \in DOMAIN runs : runs'[n] = runs[n] /\ runs[n] # i
    BY <1>1 DEF V1!Ran
  <1> DEFINE new == {V1!Request(w.user, w.hash, "REQUESTED", i) : w \in V1!Missing(i)}
  <1>3. requests' = requests \cup new
    BY DEF V1!Apply
  <1>4. ASSUME NEW w \in Rows[i] PROVE w.user \in User /\ w.hash \in Hash /\ w.name \in Name
    BY <1>4 DEF V1!Parameters
  <1>5. ASSUME NEW r \in new
        PROVE  r \in V1!Right /\ r.by = i /\ \E w \in Rows[i] : r.hash = w.hash
    <2>1. PICK w \in V1!Missing(i) : r = V1!Request(w.user, w.hash, "REQUESTED", i)
      BY <1>5
    <2>2. w \in Rows[i]
      BY DEF V1!Missing
    <2> QED
      BY <1>1, <1>4, <2>1, <2>2 DEF V1!Request, V1!Right, V1!Live
  <1>6. ASSUME NEW h \in Hash
        PROVE  /\ torrents'[h] \in V1!Placeholder \cup {V1!None}
               /\ V1!Known(h) => V1!Known(h)'
               /\ \A w \in Rows[i] : w.hash = h => V1!Known(h)'
    <2>1. CASE V1!Known(h) \/ ~\E w \in Rows[i] : w.hash = h
      BY <2>1, ImportKnownNext, ImportKnown DEF V1!Apply, V1!ImportInv
    <2>2. CASE ~V1!Known(h) /\ \E w \in Rows[i] : w.hash = h
      <3> DEFINE v == CHOOSE w \in Rows[i] : w.hash = h
      <3>1. v \in Rows[i]
        BY <2>2
      <3>2. torrents'[h] = V1!TorrentRow("ERROR", v.name, i)
        BY <2>2 DEF V1!Apply
      <3>3. torrents'[h] \in V1!Placeholder
        BY <1>1, <1>4, <3>1, <3>2 DEF V1!TorrentRow, V1!Placeholder
      <3> QED
        BY <3>3, ImportRow, ImportKnownNext
    <2> QED
      BY <2>1, <2>2
  <1> HIDE DEF new
  <1>7. torrents' \in [Hash -> V1!Placeholder \cup {V1!None}]
    <2>1. torrents' = [h \in Hash |-> torrents'[h]]
      BY DEF V1!Apply
    <2> QED
      BY <1>6, <2>1
  <1>8. requests' \subseteq V1!Right
    BY <1>3, <1>5 DEF V1!ImportInv
  <1>9. V1!NoDangling'
    <2>1. ASSUME NEW r \in requests PROVE V1!Known(r.hash)'
      <3>1. r.hash \in Hash /\ V1!Known(r.hash)
        BY DEF V1!ImportInv, V1!NoDangling, V1!Right
      <3> QED
        BY <1>6, <3>1
    <2>2. ASSUME NEW r \in new PROVE V1!Known(r.hash)'
      BY <1>4, <1>5, <1>6
    <2> QED
      BY <1>3, <2>1, <2>2 DEF V1!NoDangling
  <1>10. V1!AppliedOnce'
    <2>1. \A m, n \in DOMAIN runs' : runs'[m] = runs'[n] => m = n
      BY <1>2 DEF V1!AppliedOnce, V1!ImportInv
    <2>2. \A j \in undone : j \in Inventory /\ \E n \in DOMAIN runs' : runs'[n] = j
      BY <1>2 DEF V1!AppliedOnce, V1!ImportInv, V1!Ran
    <2> QED
      BY <1>1, <1>2, <2>1, <2>2 DEF V1!AppliedOnce, V1!Ran
  <1>11. i \notin undone
    BY <1>1 DEF V1!ImportInv, V1!AppliedOnce, V1!Ran
  <1>12. V1!MadeByApplied'
    BY <1>1, <1>2, <1>3, <1>5, <1>11 DEF V1!MadeByApplied, V1!ImportInv, V1!Ran
  <1>13. V1!FromEarlier'
    <2> SUFFICES ASSUME NEW n \in DOMAIN runs', runs'[n] \notin undone, NEW w \in Rows[runs'[n]]
                 PROVE  \E r \in requests' :
                          /\ r.user = w.user /\ r.hash = w.hash
                          /\ r.by = V1!App \/ \E m \in DOMAIN runs' : m <= n /\ r.by = runs'[m]
      BY <1>1 DEF V1!FromEarlier, V1!Of
    <2>1. CASE n \in DOMAIN runs
      <3>1. PICK r \in V1!Of(w.user, w.hash) :
              r.by = V1!App \/ \E m \in DOMAIN runs : m <= n /\ r.by = runs[m]
        BY <1>2, <2>1 DEF V1!ImportInv, V1!FromEarlier
      <3> QED
        BY <1>2, <1>3, <3>1 DEF V1!Of
    <2>2. CASE n = Len(runs) + 1
      <3>1. w \in Rows[i] /\ n \in DOMAIN runs' /\ runs'[n] = i /\ n <= n
        BY <1>2, <2>2
      <3>2. CASE V1!Of(w.user, w.hash) = {}
        <4>1. V1!Request(w.user, w.hash, "REQUESTED", i) \in requests'
          BY <1>3, <3>1, <3>2 DEF new, V1!Missing
        <4> QED
          BY <3>1, <4>1 DEF V1!Request
      <3>3. CASE V1!Of(w.user, w.hash) # {}
        <4>1. PICK r \in requests : r.user = w.user /\ r.hash = w.hash
          BY <3>3 DEF V1!Of
        <4>2. r.by = V1!App \/ \E m \in DOMAIN runs : r.by = runs[m]
          BY DEF V1!ImportInv, V1!MadeByApplied, V1!Ran
        <4> QED
          BY <1>2, <1>3, <2>2, <4>1, <4>2
      <3> QED
        BY <3>2, <3>3
    <2> QED
      BY <1>2, <2>1, <2>2
  <1> QED
    BY <1>1, <1>7, <1>8, <1>9, <1>10, <1>12, <1>13 DEF V1!ImportInv

\* The newest applied inventory is rolled back: what it made goes, and what hangs on it.
LEMMA ImportRollsBack ==
  ASSUME V1!Parameters, V1!ImportInv, NEW i \in Inventory, V1!Rollback(i)
  PROVE  V1!ImportInv'
  <1>1. /\ UNCHANGED <<active, runs>> /\ undone' = undone \cup {i} /\ V1!Ran(i) /\ i # V1!App
        /\ requests' = requests \ V1!Mine(i) /\ V1!Newest(i)
    BY DEF V1!Rollback, V1!Parameters, V1!App
  <1>2. \A r : r \in requests' <=> r \in requests /\ r.by # i
    BY <1>1 DEF V1!Mine
  <1>3. torrents' = [h \in Hash |-> IF h \in V1!Placeholders(i) THEN V1!None ELSE torrents[h]]
    BY DEF V1!Rollback
  <1>4. torrents' \in [Hash -> V1!Placeholder \cup {V1!None}]
    BY <1>3 DEF V1!ImportInv
  <1>5. V1!NoDangling'
    <2> SUFFICES ASSUME NEW r \in requests' PROVE V1!Known(r.hash)'
      BY DEF V1!NoDangling
    <2>1. r \in requests /\ r.by # i /\ r.hash \in Hash /\ V1!Known(r.hash)
      BY <1>2 DEF V1!ImportInv, V1!NoDangling, V1!Right
    <2>2. r.hash \notin V1!Placeholders(i)
      BY <2>1 DEF V1!Rollback, V1!Unshared
    <2> QED
      BY <1>3, <2>1, <2>2, ImportKnownNext, ImportKnown DEF V1!ImportInv
  <1>6. V1!AppliedOnce'
    BY <1>1 DEF V1!ImportInv, V1!AppliedOnce, V1!Ran
  <1>7. V1!MadeByApplied'
    BY <1>1, <1>2 DEF V1!ImportInv, V1!MadeByApplied, V1!Ran
  <1>8. V1!FromEarlier'
    <2> SUFFICES ASSUME NEW n \in DOMAIN runs, runs[n] \notin undone', NEW w \in Rows[runs[n]]
                 PROVE  \E r \in requests' :
                          /\ r.user = w.user /\ r.hash = w.hash
                          /\ r.by = V1!App \/ \E m \in DOMAIN runs : m <= n /\ r.by = runs[m]
      BY <1>1 DEF V1!FromEarlier, V1!Of
    <2>1. PICK r \in V1!Of(w.user, w.hash) :
              r.by = V1!App \/ \E m \in DOMAIN runs : m <= n /\ r.by = runs[m]
      BY <1>1 DEF V1!ImportInv, V1!FromEarlier
    <2>2. r.by # i
      <3>1. CASE r.by = V1!App
        BY <1>1, <3>1
      <3>2. ASSUME NEW m \in DOMAIN runs, m <= n, r.by = runs[m] PROVE r.by # i
        <4>1. PICK k \in DOMAIN runs : runs[k] = i /\ \A l \in DOMAIN runs : l > k => runs[l] \in undone
          BY <1>1 DEF V1!Newest
        <4>2. n # k /\ ~(n > k) /\ m \in Nat /\ n \in Nat /\ k \in Nat
          BY <1>1, <4>1 DEF V1!ImportInv, V1!AppliedOnce
        <4> QED
          BY <3>2, <4>1, <4>2 DEF V1!ImportInv, V1!AppliedOnce
      <3> QED
        BY <2>1, <3>1, <3>2
    <2> QED
      BY <1>2, <2>1, <2>2 DEF V1!Of
  <1> QED
    BY <1>1, <1>2, <1>4, <1>5, <1>6, <1>7, <1>8 DEF V1!ImportInv

\* A step of the services: rights stay or are made by the application, and no torrent is forgotten.
LEMMA ImportServes ==
  ASSUME V1!ImportInv, UNCHANGED <<runs, undone>>, active' \subseteq User,
         torrents' \in [Hash -> V1!Placeholder \cup {V1!None}], requests' \subseteq V1!Right,
         \A h \in Hash : V1!Known(h) => torrents'[h] # V1!None,
         \A r \in requests : \E s \in requests' : s.user = r.user /\ s.hash = r.hash /\ s.by = r.by,
         \A s \in requests' : /\ torrents'[s.hash] # V1!None
                              /\ s.by = V1!App \/ \E r \in requests : s.by = r.by
  PROVE  V1!ImportInv'
  <1>1. V1!AppliedOnce' /\ V1!MadeByApplied'
    BY DEF V1!ImportInv, V1!AppliedOnce, V1!MadeByApplied, V1!Ran
  <1>2. V1!NoDangling'
    BY ImportKnownNext DEF V1!NoDangling, V1!Right
  <1>3. V1!FromEarlier'
    <2> SUFFICES ASSUME NEW n \in DOMAIN runs, runs[n] \notin undone, NEW w \in Rows[runs[n]]
                 PROVE  \E s \in requests' :
                          /\ s.user = w.user /\ s.hash = w.hash
                          /\ s.by = V1!App \/ \E m \in DOMAIN runs : m <= n /\ s.by = runs[m]
      BY DEF V1!FromEarlier, V1!Of
    <2>1. PICK r \in V1!Of(w.user, w.hash) :
              r.by = V1!App \/ \E m \in DOMAIN runs : m <= n /\ r.by = runs[m]
      BY DEF V1!ImportInv, V1!FromEarlier
    <2>2. PICK s \in requests' : s.user = r.user /\ s.hash = r.hash /\ s.by = r.by
      BY <2>1 DEF V1!Of
    <2> QED
      BY <2>1, <2>2 DEF V1!Of
  <1> QED
    BY <1>1, <1>2, <1>3 DEF V1!ImportInv

\* A user asks for a torrent.
LEMMA ImportAsked ==
  ASSUME V1!ImportInv, NEW u \in User, NEW h \in Hash, NEW name \in Name, V1!Ask(u, h, name)
  PROVE  V1!ImportInv'
  <1> DEFINE new == V1!Request(u, h, "ACTIVE", V1!App)
  <1>1. UNCHANGED <<active, runs, undone>> /\ requests' = requests \cup {new}
    BY DEF V1!Ask
  <1>2. /\ new \in V1!Right /\ new.hash = h /\ new.by = V1!App
    BY DEF V1!Request, V1!Right, V1!Live, V1!Makers
  <1> HIDE DEF new
  <1>3. /\ torrents' \in [Hash -> V1!Placeholder \cup {V1!None}]
        /\ \A g \in Hash : (V1!Known(g) \/ g = h) => torrents'[g] # V1!None
    <2>1. CASE ~V1!Known(h) /\ torrents' = [torrents EXCEPT ![h] = V1!TorrentRow("PENDING", name, V1!App)]
      <3>1. V1!TorrentRow("PENDING", name, V1!App) \in V1!Placeholder
        BY DEF V1!TorrentRow, V1!Placeholder, V1!Makers
      <3> QED
        BY <2>1, <3>1, ImportRow, ImportKnown DEF V1!ImportInv
    <2>2. CASE V1!Known(h) /\ torrents' = [torrents EXCEPT ![h].state = "PENDING"]
      <3>1. torrents[h] \in V1!Placeholder
        BY <2>2, ImportKnown DEF V1!ImportInv
      <3>2. [torrents[h] EXCEPT !.state = "PENDING"] \in V1!Placeholder
        BY <3>1 DEF V1!Placeholder
      <3> QED
        BY <2>2, <3>2, ImportRow, ImportKnown DEF V1!ImportInv
    <2>3. CASE V1!Known(h) /\ torrents' = torrents
      BY <2>3, ImportKnown DEF V1!ImportInv
    <2> QED
      BY <2>1, <2>2, <2>3 DEF V1!Ask
  <1>4. requests \subseteq V1!Right /\ active \subseteq User
        /\ \A r \in requests : r.hash \in Hash /\ V1!Known(r.hash)
    BY DEF V1!ImportInv, V1!NoDangling, V1!Right
  <1> QED
    BY <1>1, <1>2, <1>3, <1>4, ImportServes

\* A right of somebody is cancelled, or goes on.
LEMMA ImportMoves ==
  ASSUME V1!ImportInv, NEW r \in requests, V1!Move(r)
  PROVE  V1!ImportInv'
  <1>1. /\ UNCHANGED <<active, torrents, runs, undone>>
        /\ torrents \in [Hash -> V1!Placeholder \cup {V1!None}] /\ active \subseteq User
        /\ requests \subseteq V1!Right
        /\ \A q \in requests : q.hash \in Hash /\ torrents[q.hash] # V1!None
    BY ImportKnown DEF V1!Move, V1!ImportInv, V1!NoDangling, V1!Right
  <1>2. PICK s \in {"ACTIVE", "CANCELLED"} :
          requests' = (requests \ {r}) \cup {[r EXCEPT !.state = s, !.touched = TRUE]}
    BY DEF V1!Move
  <1> DEFINE new == [r EXCEPT !.state = s, !.touched = TRUE]
  <1>3. new \in V1!Right /\ new.user = r.user /\ new.hash = r.hash /\ new.by = r.by
    BY <1>1 DEF V1!Right, V1!Live
  <1> HIDE DEF new
  <1>4. requests' = (requests \ {r}) \cup {new}
    BY <1>2 DEF new
  <1> QED
    BY <1>1, <1>3, <1>4, ImportServes, ImportKnown

\* A torrent is reconciled or purged.
LEMMA ImportTouches ==
  ASSUME V1!ImportInv, NEW h \in Hash, V1!Reconcile(h) \/ V1!Purge(h)
  PROVE  V1!ImportInv'
  <1>1. /\ UNCHANGED <<active, requests, runs, undone>> /\ V1!Known(h)
        /\ torrents \in [Hash -> V1!Placeholder \cup {V1!None}]
        /\ active \subseteq User /\ requests \subseteq V1!Right
        /\ \A r \in requests : r.hash \in Hash /\ V1!Known(r.hash)
    BY DEF V1!Reconcile, V1!Purge, V1!ImportInv, V1!NoDangling, V1!Right
  <1>2. torrents[h] \in V1!Placeholder
    BY <1>1, ImportKnown
  <1>3. PICK s \in {"READY", "PURGED", "PURGING"} :
          torrents' = [torrents EXCEPT ![h] = [torrents[h] EXCEPT !.state = s, !.touched = TRUE]]
    BY <1>1, <1>2 DEF V1!Reconcile, V1!Purge
  <1>4. [torrents[h] EXCEPT !.state = s, !.touched = TRUE] \in V1!Placeholder
    BY <1>2 DEF V1!Placeholder
  <1>5. /\ torrents' \in [Hash -> V1!Placeholder \cup {V1!None}]
        /\ \A g \in Hash : V1!Known(g) => torrents'[g] # V1!None
    BY <1>1, <1>3, <1>4, ImportRow, ImportKnown
  <1> QED
    BY <1>1, <1>5, ImportServes

\* Initially there is nothing.
LEMMA ImportInit == ASSUME V1!Init PROVE V1!ImportInv
  BY DEF V1!Init, V1!ImportInv, V1!AppliedOnce, V1!MadeByApplied, V1!FromEarlier, V1!NoDangling

\* Every step keeps the invariant.
LEMMA ImportKept ==
  ASSUME V1!Parameters, V1!ImportInv, [V1!Next]_V1!vars
  PROVE  V1!ImportInv'
  <1>1. CASE UNCHANGED V1!vars
    BY <1>1
    DEF V1!vars, V1!ImportInv, V1!AppliedOnce, V1!MadeByApplied, V1!FromEarlier, V1!NoDangling,
        V1!Of, V1!Ran, V1!Known
  <1>2. ASSUME NEW u \in User, V1!Suspend(u) PROVE V1!ImportInv'
    <2>1. /\ UNCHANGED <<torrents, requests, runs, undone>> /\ active' \subseteq User
          /\ torrents \in [Hash -> V1!Placeholder \cup {V1!None}] /\ requests \subseteq V1!Right
          /\ \A r \in requests : r.hash \in Hash /\ V1!Known(r.hash)
      BY <1>2 DEF V1!Suspend, V1!ImportInv, V1!NoDangling, V1!Right
    <2> QED
      BY <2>1, ImportServes, ImportKnown
  <1> QED
    BY <1>1, <1>2, ImportApplies, ImportRollsBack, ImportAsked, ImportMoves, ImportTouches DEF V1!Next

\* The invariant of the import holds in every state, however many inventories there are.
THEOREM ImportStands == ASSUME V1!Parameters PROVE V1!Spec => []V1!ImportInv
  <1>1. V1!Init => V1!ImportInv
    BY ImportInit
  <1>2. V1!ImportInv /\ [V1!Next]_V1!vars => V1!ImportInv'
    BY ImportKept
  <1> QED
    BY <1>1, <1>2, PTL DEF V1!Spec

\* No request refers to a torrent that a rollback deleted, and every row of an inventory that is
\* applied has its right.
THEOREM ImportMapped == ASSUME V1!Parameters PROVE V1!Spec => [](V1!NoDangling /\ V1!MappingKept)
  <1>1. V1!ImportInv => V1!NoDangling /\ V1!MappingKept
    <2> SUFFICES ASSUME V1!ImportInv, NEW n \in DOMAIN runs, runs[n] \notin undone, NEW w \in Rows[runs[n]]
                 PROVE  V1!Of(w.user, w.hash) # {}
      BY DEF V1!ImportInv, V1!MappingKept
    <2> QED
      BY DEF V1!ImportInv, V1!FromEarlier
  <1> QED
    BY <1>1, ImportStands, PTL

\* A right that was used, or that the application made, outlives every step.
LEMMA ImportRightStep ==
  ASSUME V1!Parameters, V1!ImportInv, [V1!Next]_V1!vars
  PROVE  V1!RightsKeptStep
  <1> SUFFICES ASSUME NEW r \in requests, r.touched \/ r.by = V1!App
               PROVE  \E s \in requests' : s.user = r.user /\ s.hash = r.hash /\ s.by = r.by
    BY DEF V1!RightsKeptStep
  <1>1. CASE r \in requests'
    BY <1>1
  <1>2. ASSUME NEW i \in Inventory, V1!Rollback(i) PROVE r \in requests'
    BY <1>2 DEF V1!Rollback, V1!Mine, V1!Untouched, V1!Parameters, V1!App
  <1>3. ASSUME NEW q \in requests, V1!Move(q)
        PROVE  \E s \in requests' : s.user = r.user /\ s.hash = r.hash /\ s.by = r.by
    <2>1. PICK x : requests' = (requests \ {q}) \cup {[q EXCEPT !.state = x, !.touched = TRUE]}
      BY <1>3 DEF V1!Move
    <2>2. q \in V1!Right
      BY DEF V1!ImportInv
    <2>3. LET s == [q EXCEPT !.state = x, !.touched = TRUE]
          IN  s \in requests' /\ s.user = q.user /\ s.hash = q.hash /\ s.by = q.by
      BY <2>1, <2>2 DEF V1!Right
    <2> QED
      BY <2>1, <2>3
  <1>4. ASSUME \/ \E i \in Inventory : V1!Apply(i)
               \/ \E u \in User, h \in Hash, n \in Name : V1!Ask(u, h, n)
               \/ \E h \in Hash : V1!Reconcile(h) \/ V1!Purge(h)
               \/ \E u \in User : V1!Suspend(u)
               \/ UNCHANGED V1!vars
        PROVE  r \in requests'
    BY <1>4 DEF V1!Apply, V1!Ask, V1!Reconcile, V1!Purge, V1!Suspend, V1!vars
  <1> QED
    BY <1>1, <1>2, <1>3, <1>4 DEF V1!Next

\* A right that a person has used since the import is never deleted.
THEOREM ImportedRightsKept == ASSUME V1!Parameters PROVE V1!Spec => V1!RightsKept
  <1>1. V1!ImportInv /\ [V1!Next]_V1!vars => [V1!RightsKeptStep]_V1!vars
    BY ImportRightStep
  <1> QED
    BY <1>1, ImportStands, PTL DEF V1!Spec, V1!RightsKept

-----------------------------------------------------------------------------
(* Recovery: a torrent is recovered once                                   *)

\* What calls and jobs saw has the shape of the row.
LEMMA RecoverySights ==
  ASSUME RC!RecoveryInv, NEW s \in RC!Sights
  PROVE  s \in RC!Record
  <1>1. ASSUME NEW j \in DOMAIN jobs PROVE jobs[j].seen \in RC!Record
    <2>1. jobs[j] \in RC!Job
      BY DEF RC!RecoveryInv, RC!Shapes
    <2> QED
      BY <2>1 DEF RC!Job
  <1>2. ASSUME NEW a \in Admin, call[a] # RC!NoCall PROVE call[a].seen \in RC!Record
    BY <1>2 DEF RC!RecoveryInv, RC!Shapes, RC!Call
  <1> QED
    BY <1>1, <1>2 DEF RC!Sights

\* The row moves: what was seen stays old, and what is gone stays gone.
LEMMA RecoveryRow ==
  ASSUME RC!RecoveryInv, RC!Sights' = RC!Sights,
         row' \in [state : {"live", "pending", "error", "purged"}, gen : Nat,
                   requests : SUBSET (1..MaxRequests), work : SUBSET (1..MaxWork)],
         requests' \in Nat, works' \in Nat, requests' >= requests, works' >= works,
         row'.gen >= row.gen,
         \A q \in row'.requests : q <= requests' /\ (q \in row.requests \/ q > requests),
         \A w \in row'.work :
            /\ w <= works'
            /\ w > works \/ (w \in row.work /\ (row'.gen = row.gen => kind'[w] = kind[w])),
         row'.gen = row.gen /\ row.requests # {} => row'.requests # {},
         \A w \in row'.work \ row.work : RC!Adds(w)' =>
            row'.requests # {} /\ \A q \in row'.requests : q > requests
  PROVE  RC!Fresh' /\ RC!Additions' /\ \A s \in RC!Sights : RC!Gone(s) => RC!Gone(s)'
  <1>1. /\ row.gen \in Nat /\ requests \in Nat /\ works \in Nat /\ row.work \subseteq Nat
        /\ row.requests \subseteq Nat /\ row'.gen \in Nat
        /\ row'.requests \subseteq Nat /\ row'.work \subseteq Nat
    BY DEF RC!RecoveryInv, RC!Shapes
  <1>2. ASSUME NEW s \in RC!Sights
        PROVE  /\ s.gen \in Nat /\ s.requests \subseteq Nat /\ s.work \subseteq Nat
               /\ s.gen <= row.gen /\ \A q \in s.requests : q <= requests
               /\ \A w \in s.work : w <= works
    BY RecoverySights DEF RC!Record, RC!RecoveryInv, RC!Fresh
  <1>3. RC!Fresh'
    BY <1>1, <1>2 DEF RC!Fresh
  <1>4. ASSUME NEW s \in RC!Sights, RC!Replaced(s), row'.gen = row.gen PROVE RC!Replaced(s)'
    BY <1>1, <1>2, <1>4 DEF RC!Replaced
  <1>5. ASSUME NEW s \in RC!Sights, RC!Gone(s) PROVE RC!Gone(s)'
    <2>1. CASE s.gen < row'.gen
      BY <2>1 DEF RC!Gone
    <2>2. CASE ~(s.gen < row'.gen)
      BY <1>1, <1>2, <1>4, <1>5, <2>2 DEF RC!Gone
    <2> QED
      BY <2>1, <2>2
  <1>6. RC!Additions'
    <2> SUFFICES ASSUME NEW s \in RC!Sights, s.gen = row'.gen,
                        NEW w \in row'.work, RC!Adds(w)', w \notin s.work
                 PROVE  RC!Replaced(s)'
      BY DEF RC!Additions
    <2>1. s.gen = row.gen /\ row'.gen = row.gen
      BY <1>1, <1>2
    <2>2. CASE w \in row.work
      <3>1. RC!Adds(w)
        BY <1>1, <2>1, <2>2 DEF RC!RecoveryInv, RC!Fresh, RC!Adds
      <3> QED
        BY <1>4, <2>1, <2>2, <3>1 DEF RC!RecoveryInv, RC!Additions
    <2>3. CASE w \notin row.work
      BY <1>1, <1>2, <2>3 DEF RC!Replaced
    <2> QED
      BY <2>2, <2>3
  <1> QED
    BY <1>3, <1>5, <1>6

\* Calls and jobs do not move: neither do the chain and the sights.
LEMMA RecoveryCalm ==
  ASSUME RC!RecoveryInv, UNCHANGED <<jobs, call>>
  PROVE  RC!Chain' /\ RC!Repeats' /\ RC!Sights' = RC!Sights
  <1>1. RC!Chain' <=> RC!Chain
    BY DEF RC!Chain, RC!Alike
  <1>2. RC!Repeats' <=> RC!Repeats
    BY DEF RC!Repeats
  <1>3. RC!Sights' = RC!Sights
    BY DEF RC!Sights
  <1> QED
    BY <1>1, <1>2, <1>3 DEF RC!RecoveryInv

\* The shape of the row.
LEMMA RecoveryShape ==
  ASSUME RC!RecoveryInv
  PROVE  row \in [state : {"live", "pending", "error", "purged"}, gen : Nat,
                  requests : SUBSET (1..MaxRequests), work : SUBSET (1..MaxWork)]
  BY DEF RC!RecoveryInv, RC!Shapes

\* A user joins.
LEMMA RecoveryJoins == ASSUME RC!Parameters, RC!RecoveryInv, RC!Join PROVE RC!RecoveryInv'
  <1>1. /\ UNCHANGED <<qb, disk, jobs, call>> /\ requests' = requests + 1 /\ requests + 1 \in 1..MaxRequests
        /\ requests \in Nat /\ works \in 0..MaxWork /\ row.gen \in Nat
        /\ row.requests \subseteq 1..requests /\ row.work \subseteq 1..works
        /\ row.requests \subseteq 1..MaxRequests /\ row.work \subseteq 1..MaxWork
        /\ RC!Chain' /\ RC!Repeats' /\ RC!Sights' = RC!Sights
    BY RecoveryCalm DEF RC!Join, RC!RecoveryInv, RC!Shapes, RC!Fresh, RC!Parameters
  <1>2. CASE row.state = "purged"
    <2>1. /\ works' = works + 1 /\ works + 1 \in 1..MaxWork /\ kind' = [kind EXCEPT ![works + 1] = "add"]
          /\ row'.state = "pending" /\ row'.gen = row.gen /\ row'.requests = row.requests \cup {requests + 1}
          /\ row'.work = row.work \cup {works + 1} /\ row.requests = {} /\ RC!Purges = {}
          /\ row' \in [state : {"live", "pending", "error", "purged"}, gen : Nat,
                       requests : SUBSET (1..MaxRequests), work : SUBSET (1..MaxWork)]
      <3>1. /\ works' = works + 1 /\ works < MaxWork /\ kind' = [kind EXCEPT ![works + 1] = "add"]
            /\ row' = [row EXCEPT !.state = "pending", !.requests = @ \cup {requests + 1},
                                  !.work = @ \cup {works + 1}]
            /\ row.requests = {} /\ RC!Purges = {}
        BY <1>2 DEF RC!Join, RC!NewWork, RC!RecoveryInv, RC!OnePurge
      <3>2. works + 1 \in 1..MaxWork
        BY <1>1, <3>1 DEF RC!Parameters
      <3>3. /\ row.requests \cup {requests + 1} \in SUBSET (1..MaxRequests)
            /\ row.work \cup {works + 1} \in SUBSET (1..MaxWork)
        BY <1>1, <3>2
      <3> QED
        BY <3>1, <3>2, <3>3 DEF RC!RecoveryInv, RC!Shapes
    <2>2. /\ kind' \in [1..MaxWork -> {"none", "add", "purge", "late_add", "late_purge"}] /\ kind'[works + 1] = "add"
          /\ \A w \in row.work : kind'[w] = kind[w]
      BY <1>1, <2>1 DEF RC!RecoveryInv, RC!Shapes
    <2>3. RC!Fresh' /\ RC!Additions' /\ \A s \in RC!Sights : RC!Gone(s) => RC!Gone(s)'
      BY <1>1, <2>1, <2>2, RecoveryRow
    <2>4. RC!Shapes'
      BY <1>1, <2>1, <2>2 DEF RC!RecoveryInv, RC!Shapes
    <2>5. RC!Purges' = {}
      BY <2>1, <2>2 DEF RC!Purges
    <2>6. RC!OnePurge'
      BY <2>1, <2>5 DEF RC!OnePurge
    <2>7. RC!Missing'
      BY <1>1, <2>3 DEF RC!RecoveryInv, RC!Missing, RC!Sights
    <2> QED
      BY <1>1, <2>3, <2>4, <2>6, <2>7 DEF RC!RecoveryInv
  <1>3. CASE row.state # "purged"
    <2>1. /\ UNCHANGED <<works, kind>>
          /\ row'.state = row.state /\ row'.gen \in {row.gen, row.gen + 1}
          /\ row'.requests = row.requests \cup {requests + 1} /\ row'.work = row.work \ RC!Purges
          /\ row' \in [state : {"live", "pending", "error", "purged"}, gen : Nat,
                       requests : SUBSET (1..MaxRequests), work : SUBSET (1..MaxWork)]
      <3>1. /\ UNCHANGED <<works, kind>>
            /\ row' = [row EXCEPT !.requests = @ \cup {requests + 1}, !.work = @ \ RC!Purges,
                                  !.gen = IF RC!Purges = {} THEN @ ELSE @ + 1]
        BY <1>3 DEF RC!Join
      <3>2. /\ row.requests \cup {requests + 1} \in SUBSET (1..MaxRequests)
            /\ row.work \ RC!Purges \in SUBSET (1..MaxWork) /\ row.gen + 1 \in Nat
        BY <1>1
      <3> QED
        BY <1>1, <3>1, <3>2, RecoveryShape
    <2>3. RC!Fresh' /\ RC!Additions' /\ \A s \in RC!Sights : RC!Gone(s) => RC!Gone(s)'
      BY <1>1, <2>1, RecoveryRow
    <2>4. RC!Shapes'
      BY <1>1, <2>1 DEF RC!RecoveryInv, RC!Shapes
    <2>5. RC!Purges' = {}
      BY <2>1 DEF RC!Purges
    <2>6. RC!OnePurge'
      BY <1>3, <2>1, <2>5 DEF RC!OnePurge
    <2>7. RC!Missing'
      BY <1>1, <2>3 DEF RC!RecoveryInv, RC!Missing, RC!Sights
    <2> QED
      BY <1>1, <2>3, <2>4, <2>6, <2>7 DEF RC!RecoveryInv
  <1> QED
    BY <1>2, <1>3

\* A user leaves.
LEMMA RecoveryLeaves ==
  ASSUME RC!Parameters, RC!RecoveryInv, NEW q \in 1..MaxRequests, RC!Leave(q)
  PROVE  RC!RecoveryInv'
  <1>1. /\ UNCHANGED <<qb, disk, jobs, call, requests>> /\ q \in row.requests
        /\ requests \in Nat /\ works \in 0..MaxWork /\ row.gen \in Nat
        /\ row.requests \subseteq 1..requests /\ row.work \subseteq 1..works
        /\ row.requests \subseteq 1..MaxRequests /\ row.work \subseteq 1..MaxWork
        /\ row.state # "purged" /\ RC!Purges = {}
        /\ RC!Chain' /\ RC!Repeats' /\ RC!Sights' = RC!Sights
    BY RecoveryCalm DEF RC!Leave, RC!RecoveryInv, RC!Shapes, RC!Fresh, RC!OnePurge
  <1>2. CASE row.requests = {q}
    <2>1. /\ works' = works + 1 /\ works + 1 \in 1..MaxWork /\ kind' = [kind EXCEPT ![works + 1] = "purge"]
          /\ row'.state = row.state /\ row'.gen = row.gen + 1 /\ row'.requests = {}
          /\ row'.work = row.work \cup {works + 1}
          /\ row' \in [state : {"live", "pending", "error", "purged"}, gen : Nat,
                       requests : SUBSET (1..MaxRequests), work : SUBSET (1..MaxWork)]
      <3>1. /\ works' = works + 1 /\ works < MaxWork /\ kind' = [kind EXCEPT ![works + 1] = "purge"]
            /\ row' = [row EXCEPT !.requests = {}, !.gen = @ + 1, !.work = @ \cup {works + 1}]
        BY <1>2 DEF RC!Leave, RC!NewWork
      <3>2. works + 1 \in 1..MaxWork
        BY <1>1, <3>1 DEF RC!Parameters
      <3>3. row.work \cup {works + 1} \in SUBSET (1..MaxWork) /\ row.gen + 1 \in Nat
        BY <1>1, <3>2
      <3> QED
        BY <1>1, <3>1, <3>2, <3>3, RecoveryShape
    <2>2. /\ kind' \in [1..MaxWork -> {"none", "add", "purge", "late_add", "late_purge"}] /\ kind'[works + 1] = "purge"
          /\ \A w \in row.work : kind'[w] = kind[w]
      BY <1>1, <2>1 DEF RC!RecoveryInv, RC!Shapes
    <2>3. RC!Fresh' /\ RC!Additions' /\ \A s \in RC!Sights : RC!Gone(s) => RC!Gone(s)'
      <3>1. \A v \in row'.work \ row.work : ~RC!Adds(v)'
        BY <2>1, <2>2 DEF RC!Adds
      <3>2. \A v \in row'.work : /\ v <= works'
                               /\ (v > works \/ (v \in row.work /\ kind'[v] = kind[v]))
        BY <1>1, <2>1, <2>2
      <3> QED
        BY <1>1, <2>1, <3>1, <3>2, RecoveryRow
    <2>4. RC!Shapes'
      BY <1>1, <2>1, <2>2 DEF RC!RecoveryInv, RC!Shapes
    <2>5. RC!Purges' = {works + 1}
      BY <1>1, <2>1, <2>2 DEF RC!Purges
    <2>6. RC!OnePurge'
      BY <1>1, <2>1, <2>5 DEF RC!OnePurge
    <2>7. RC!Missing'
      BY <1>1, <2>3 DEF RC!RecoveryInv, RC!Missing, RC!Sights
    <2> QED
      BY <1>1, <2>3, <2>4, <2>6, <2>7 DEF RC!RecoveryInv
  <1>3. CASE row.requests # {q}
    <2>1. /\ UNCHANGED <<works, kind>>
          /\ row'.state = row.state /\ row'.gen = row.gen /\ row'.requests = row.requests \ {q}
          /\ row'.work = row.work /\ row'.requests # {}
          /\ row' \in [state : {"live", "pending", "error", "purged"}, gen : Nat,
                       requests : SUBSET (1..MaxRequests), work : SUBSET (1..MaxWork)]
      BY <1>1, <1>3 DEF RC!Leave, RC!RecoveryInv, RC!Shapes
    <2>3. RC!Fresh' /\ RC!Additions' /\ \A s \in RC!Sights : RC!Gone(s) => RC!Gone(s)'
      BY <1>1, <2>1, RecoveryRow
    <2>4. RC!Shapes'
      BY <1>1, <2>1 DEF RC!RecoveryInv, RC!Shapes
    <2>5. RC!Purges' = {}
      BY <1>1, <2>1 DEF RC!Purges
    <2>6. RC!OnePurge'
      BY <1>1, <2>1, <2>5 DEF RC!OnePurge
    <2>7. RC!Missing'
      BY <1>1, <2>3 DEF RC!RecoveryInv, RC!Missing, RC!Sights
    <2> QED
      BY <1>1, <2>3, <2>4, <2>6, <2>7 DEF RC!RecoveryInv
  <1> QED
    BY <1>2, <1>3

\* A job that waits adds or purges.
LEMMA RecoveryKinds ==
  ASSUME RC!RecoveryInv, NEW w \in row.work
  PROVE  kind[w] \in {"add", "purge", "late_add", "late_purge"}
  BY DEF RC!RecoveryInv, RC!Shapes

\* Whatever was seen before a job ends that adds does not fit the row any more.
LEMMA RecoveryOutdates ==
  ASSUME RC!RecoveryInv, NEW w \in row.work, RC!Adds(w), row'.work = row.work \ {w},
         \A s \in RC!Sights : RC!Gone(s) => RC!Gone(s)'
  PROVE  \A s \in RC!Sights : RC!Gone(s)'
  <1> SUFFICES ASSUME NEW s \in RC!Sights PROVE RC!Gone(s)'
    OBVIOUS
  <1>1. s.gen <= row.gen /\ s.gen \in Nat /\ row.gen \in Nat
    BY RecoverySights, RecoveryShape DEF RC!RecoveryInv, RC!Fresh, RC!Record
  <1>2. CASE s.gen < row.gen
    BY <1>2 DEF RC!Gone
  <1>3. CASE s.gen = row.gen /\ w \in s.work
    BY <1>3 DEF RC!Gone
  <1>4. CASE s.gen = row.gen /\ w \notin s.work
    BY <1>4 DEF RC!Gone, RC!RecoveryInv, RC!Additions
  <1> QED
    BY <1>1, <1>2, <1>3, <1>4

\* A job of the torrent itself: what it adds was seen before, or came with somebody new.
LEMMA RecoveryWorks ==
  ASSUME RC!Parameters, RC!RecoveryInv, NEW w \in 1..MaxWork, RC!Work(w)
  PROVE  RC!RecoveryInv'
  <1>1. /\ UNCHANGED <<kind, jobs, call, requests, works>> /\ w \in row.work
        /\ requests \in Nat /\ works \in 0..MaxWork /\ row.gen \in Nat
        /\ row.requests \subseteq 1..requests /\ row.work \subseteq 1..works
        /\ row.requests \subseteq 1..MaxRequests /\ row.work \subseteq 1..MaxWork
        /\ kind[w] \in {"add", "purge"} /\ RC!Adds(w) = (kind[w] = "add")
        /\ qb' = RC!Adds(w) /\ disk' = RC!Adds(w)
        /\ RC!Chain' /\ RC!Repeats' /\ RC!Sights' = RC!Sights
    <2>1. w \in row.work /\ ~RC!Late(w)
      BY DEF RC!Work
    <2>2. kind[w] \in {"add", "purge"}
      BY <2>1, RecoveryKinds DEF RC!Late
    <2> QED
      BY <2>1, <2>2, RecoveryCalm DEF RC!Work, RC!RecoveryInv, RC!Shapes, RC!Fresh, RC!Adds
  <1>2. /\ row'.state = (IF kind[w] = "add" THEN "live" ELSE "purged") /\ row'.gen = row.gen
        /\ row'.requests = row.requests /\ row'.work = row.work \ {w}
        /\ row' \in [state : {"live", "pending", "error", "purged"}, gen : Nat,
                     requests : SUBSET (1..MaxRequests), work : SUBSET (1..MaxWork)]
    BY <1>1 DEF RC!Work, RC!RecoveryInv, RC!Shapes
  <1>3. RC!Fresh' /\ RC!Additions' /\ \A s \in RC!Sights : RC!Gone(s) => RC!Gone(s)'
    BY <1>1, <1>2, RecoveryRow
  <1>4. RC!Shapes'
    BY <1>1, <1>2 DEF RC!RecoveryInv, RC!Shapes
  <1>5. RC!Purges' = RC!Purges \ {w}
    BY <1>1, <1>2 DEF RC!Purges
  <1>6. RC!OnePurge'
    <2>1. CASE kind[w] = "add"
      BY <1>2, <1>5, <2>1 DEF RC!OnePurge, RC!RecoveryInv
    <2>2. CASE kind[w] = "purge"
      <3>1. w \in RC!Purges
        BY <1>1, <2>2 DEF RC!Purges
      <3> QED
        BY <1>2, <1>5, <2>2, <3>1 DEF RC!OnePurge, RC!RecoveryInv
    <2> QED
      BY <1>1, <2>1, <2>2
  <1>7. RC!Missing'
    <2>1. ASSUME RC!Adds(w) PROVE \A s \in RC!Sights : RC!Gone(s)'
      BY <1>1, <1>2, <1>3, <2>1, RecoveryOutdates
    <2>2. \A j \in DOMAIN jobs : jobs[j].seen \in RC!Sights
      BY DEF RC!Sights
    <2> QED
      BY <1>1, <2>1, <2>2 DEF RC!RecoveryInv, RC!Missing
  <1> QED
    BY <1>1, <1>3, <1>4, <1>6, <1>7 DEF RC!RecoveryInv

\* A cancelled job ends, and its call may have taken effect.
LEMMA RecoveryEndsLate ==
  ASSUME RC!Parameters, RC!RecoveryInv, NEW w \in 1..MaxWork, RC!EndLate(w)
  PROVE  RC!RecoveryInv'
  <1>1. /\ UNCHANGED <<kind, jobs, call, requests, works>> /\ w \in row.work /\ RC!Late(w)
        /\ requests \in Nat /\ works \in 0..MaxWork /\ row.gen \in Nat
        /\ row.requests \subseteq 1..requests /\ row.work \subseteq 1..works
        /\ row.requests \subseteq 1..MaxRequests /\ row.work \subseteq 1..MaxWork
        /\ qb \in BOOLEAN /\ disk \in BOOLEAN /\ RC!Adds(w) \in BOOLEAN
        /\ UNCHANGED <<qb, disk>> \/ (qb' = RC!Adds(w) /\ disk' = RC!Adds(w))
        /\ RC!Chain' /\ RC!Repeats' /\ RC!Sights' = RC!Sights
    BY RecoveryCalm DEF RC!EndLate, RC!RecoveryInv, RC!Shapes, RC!Fresh, RC!Adds
  <1>2. /\ row'.state \in {row.state, "live"} /\ (row.state = "purged" <=> row'.state = "purged")
        /\ row'.gen = row.gen /\ row'.requests = row.requests /\ row'.work = row.work \ {w}
        /\ row' \in [state : {"live", "pending", "error", "purged"}, gen : Nat,
                     requests : SUBSET (1..MaxRequests), work : SUBSET (1..MaxWork)]
    <2>1. row.work \ {w} \in SUBSET (1..MaxWork)
      BY <1>1
    <2>2. CASE row' = [row EXCEPT !.work = @ \ {w}]
      BY <2>1, <2>2, RecoveryShape
    <2>3. CASE row' = [row EXCEPT !.work = @ \ {w},
                                  !.state = IF RC!Adds(w) /\ @ # "purged" THEN "live" ELSE @]
      BY <2>1, <2>3, RecoveryShape
    <2> QED
      BY <2>2, <2>3 DEF RC!EndLate
  <1>3. RC!Fresh' /\ RC!Additions' /\ \A s \in RC!Sights : RC!Gone(s) => RC!Gone(s)'
    BY <1>1, <1>2, RecoveryRow
  <1>4. RC!Shapes'
    BY <1>1, <1>2 DEF RC!RecoveryInv, RC!Shapes
  <1>5. RC!Purges' = RC!Purges
    BY <1>1, <1>2 DEF RC!Purges, RC!Late
  <1>6. RC!OnePurge'
    BY <1>2, <1>5 DEF RC!OnePurge, RC!RecoveryInv
  <1>7. RC!Missing'
    <2>1. ASSUME RC!Adds(w) PROVE \A s \in RC!Sights : RC!Gone(s)'
      BY <1>1, <1>2, <1>3, <2>1, RecoveryOutdates
    <2>2. \A j \in DOMAIN jobs : jobs[j].seen \in RC!Sights
      BY DEF RC!Sights
    <2> QED
      BY <1>1, <1>3, <2>1, <2>2 DEF RC!RecoveryInv, RC!Missing
  <1> QED
    BY <1>1, <1>3, <1>4, <1>6, <1>7 DEF RC!RecoveryInv

\* Something is lost: nothing appears that a job found missing.
LEMMA RecoveryLoses ==
  ASSUME RC!RecoveryInv, NEW q \in BOOLEAN, NEW d \in BOOLEAN, RC!Lose(q, d)
  PROVE  RC!RecoveryInv'
  <1>1. /\ UNCHANGED <<row, kind, jobs, call, requests, works>> /\ qb' \in BOOLEAN /\ disk' \in BOOLEAN
        /\ (qb' => qb) /\ (disk' => disk) /\ RC!Chain' /\ RC!Repeats' /\ RC!Sights' = RC!Sights
    BY RecoveryCalm DEF RC!Lose
  <1>2. RC!Shapes'
    BY <1>1 DEF RC!RecoveryInv, RC!Shapes
  <1>3. RC!Fresh' /\ RC!OnePurge' /\ RC!Additions'
    BY <1>1 DEF RC!RecoveryInv, RC!Fresh, RC!OnePurge, RC!Purges, RC!Additions, RC!Adds, RC!Replaced
  <1>4. RC!Missing'
    BY <1>1 DEF RC!RecoveryInv, RC!Missing, RC!Gone, RC!Replaced
  <1> QED
    BY <1>1, <1>2, <1>3, <1>4 DEF RC!RecoveryInv

\* A job goes on: it stays what it was about, and a failed one stays failed.
LEMMA RecoveryTurns ==
  ASSUME RC!RecoveryInv, NEW j \in DOMAIN jobs, NEW new \in RC!Job,
         jobs' = [jobs EXCEPT ![j] = new], UNCHANGED call, jobs[j].state # "FAILED",
         new.action = jobs[j].action, new.seen = jobs[j].seen, new.key = jobs[j].key
  PROVE  /\ jobs' \in Seq(RC!Job) /\ Len(jobs') = Len(jobs) /\ DOMAIN jobs' = DOMAIN jobs
         /\ jobs'[j] = new /\ \A k \in DOMAIN jobs : k # j => jobs'[k] = jobs[k]
         /\ RC!Chain' /\ RC!Repeats' /\ RC!Sights' = RC!Sights
  <1>1. jobs \in Seq(RC!Job)
    BY DEF RC!RecoveryInv, RC!Shapes
  <1>2. /\ jobs' \in Seq(RC!Job) /\ Len(jobs') = Len(jobs) /\ DOMAIN jobs' = DOMAIN jobs
        /\ jobs'[j] = new /\ \A k \in DOMAIN jobs : k # j => jobs'[k] = jobs[k]
    BY <1>1
  <1>3. \A k \in DOMAIN jobs : /\ jobs'[k].action = jobs[k].action /\ jobs'[k].seen = jobs[k].seen
                               /\ jobs'[k].key = jobs[k].key
                               /\ jobs[k].state = "FAILED" => jobs'[k].state = "FAILED"
    BY <1>2
  <1>4. \A k, m \in DOMAIN jobs : RC!Alike(k, m)' <=> RC!Alike(k, m)
    BY <1>3 DEF RC!Alike
  <1>5. RC!Chain'
    <2> SUFFICES ASSUME NEW i \in DOMAIN jobs'
                 PROVE  /\ \E k \in DOMAIN jobs' : RC!Alike(i, k)' /\ jobs'[k].key = <<"initial", 0>>
                        /\ \A k \in DOMAIN jobs' : RC!Alike(i, k)' /\ k < i =>
                             /\ jobs'[k].state = "FAILED"
                             /\ \E m \in DOMAIN jobs' : RC!Alike(i, m)' /\ jobs'[m].key = <<"retry", k>>
                        /\ \E k \in DOMAIN jobs' : RC!Alike(i, k)' /\ \A m \in DOMAIN jobs' : RC!Alike(i, m)' => m <= k
      BY DEF RC!Chain
    <2>1. i \in DOMAIN jobs
      BY <1>2
    <2>2. \E k \in DOMAIN jobs' : RC!Alike(i, k)' /\ jobs'[k].key = <<"initial", 0>>
      <3>1. PICK k \in DOMAIN jobs : RC!Alike(i, k) /\ jobs[k].key = <<"initial", 0>>
        BY <2>1 DEF RC!RecoveryInv, RC!Chain
      <3>2. k \in DOMAIN jobs' /\ RC!Alike(i, k)' /\ jobs'[k].key = <<"initial", 0>>
        BY <1>2, <1>3, <1>4, <2>1, <3>1
      <3> QED
        BY <3>2
    <2>3. ASSUME NEW k \in DOMAIN jobs', RC!Alike(i, k)', k < i
          PROVE  /\ jobs'[k].state = "FAILED"
                 /\ \E m \in DOMAIN jobs' : RC!Alike(i, m)' /\ jobs'[m].key = <<"retry", k>>
      <3>1. k \in DOMAIN jobs /\ RC!Alike(i, k)
        BY <1>2, <1>4, <2>1, <2>3
      <3>2. jobs[k].state = "FAILED" /\ \E m \in DOMAIN jobs : RC!Alike(i, m) /\ jobs[m].key = <<"retry", k>>
        BY <2>1, <2>3, <3>1 DEF RC!RecoveryInv, RC!Chain
      <3> QED
        BY <1>2, <1>3, <1>4, <2>1, <3>1, <3>2
    <2>4. \E k \in DOMAIN jobs' : RC!Alike(i, k)' /\ \A m \in DOMAIN jobs' : RC!Alike(i, m)' => m <= k
      BY <1>2, <1>4, <2>1 DEF RC!RecoveryInv, RC!Chain
    <2> QED
      BY <2>2, <2>3, <2>4
  <1>6. RC!Repeats'
    BY <1>2, <1>3 DEF RC!RecoveryInv, RC!Repeats
  <1>7. RC!Sights' = RC!Sights
    BY <1>2, <1>3 DEF RC!Sights
  <1> QED
    BY <1>2, <1>5, <1>6, <1>7

\* A job goes on while the row stays.
LEMMA RecoveryStays ==
  ASSUME RC!RecoveryInv, NEW j \in DOMAIN jobs, NEW new \in RC!Job,
         jobs' = [jobs EXCEPT ![j] = new], UNCHANGED <<row, kind, qb, disk, call, requests, works>>,
         jobs[j].state # "FAILED",
         new.action = jobs[j].action, new.seen = jobs[j].seen, new.key = jobs[j].key,
         new.state \in {"RUNNING", "PROBED"} /\ ((~new.qb /\ qb) \/ (~new.disk /\ disk)) => RC!Gone(jobs[j].seen),
         new.state \in {"QUEUED", "RUNNING"} => new.disk
  PROVE  RC!RecoveryInv'
  <1>1. /\ jobs' \in Seq(RC!Job) /\ Len(jobs') = Len(jobs) /\ DOMAIN jobs' = DOMAIN jobs
        /\ jobs'[j] = new /\ \A k \in DOMAIN jobs : k # j => jobs'[k] = jobs[k]
        /\ RC!Chain' /\ RC!Repeats' /\ RC!Sights' = RC!Sights
    BY RecoveryTurns
  <1>2. RC!Shapes'
    BY <1>1 DEF RC!RecoveryInv, RC!Shapes
  <1>3. RC!Fresh' /\ RC!OnePurge' /\ RC!Additions'
    BY <1>1 DEF RC!RecoveryInv, RC!Fresh, RC!OnePurge, RC!Purges, RC!Additions, RC!Adds, RC!Replaced
  <1>4. \A s : RC!Gone(s)' <=> RC!Gone(s)
    BY DEF RC!Gone, RC!Replaced
  <1>5. RC!Missing'
    <2> SUFFICES ASSUME NEW k \in DOMAIN jobs
                 PROVE  /\ jobs'[k].state \in {"RUNNING", "PROBED"} /\ ((~jobs'[k].qb /\ qb) \/ (~jobs'[k].disk /\ disk)) =>
                             RC!Gone(jobs'[k].seen)
                        /\ jobs'[k].state \in {"QUEUED", "RUNNING"} => jobs'[k].disk
      BY <1>1, <1>4 DEF RC!Missing
    <2>1. CASE k = j
      BY <1>1, <2>1
    <2>2. CASE k # j
      BY <1>1, <2>2 DEF RC!RecoveryInv, RC!Missing
    <2> QED
      BY <2>1, <2>2
  <1> QED
    BY <1>1, <1>2, <1>3, <1>5 DEF RC!RecoveryInv

\* What becomes of a job.
LEMMA RecoveryBecomes ==
  ASSUME RC!RecoveryInv, NEW j \in DOMAIN jobs,
         NEW st \in {"QUEUED", "APPLIED", "FAILED", "SUCCEEDED"}, RC!Becomes(j, st)
  PROVE  \E new \in RC!Job :
           /\ jobs' = [jobs EXCEPT ![j] = new]
           /\ new.action = jobs[j].action /\ new.seen = jobs[j].seen /\ new.key = jobs[j].key
           /\ new.state = st /\ new.qb /\ new.disk
  <1> DEFINE new == [jobs[j] EXCEPT !.state = st, !.qb = TRUE, !.disk = TRUE]
  <1>1. jobs[j] \in RC!Job /\ jobs \in Seq(RC!Job)
    BY DEF RC!RecoveryInv, RC!Shapes
  <1>2. jobs' = [jobs EXCEPT ![j] = new]
    BY <1>1 DEF RC!Becomes
  <1>3. /\ new \in RC!Job
        /\ new.action = jobs[j].action /\ new.seen = jobs[j].seen /\ new.key = jobs[j].key
        /\ new.state = st /\ new.qb /\ new.disk
    BY <1>1 DEF RC!Job, RC!Unfinished
  <1> QED
    BY <1>2, <1>3

\* The worker asks qBittorrent and the disk, is interrupted, refuses or ends.
LEMMA RecoveryProceeds ==
  ASSUME RC!RecoveryInv, NEW j \in DOMAIN jobs,
         RC!ProbeQb(j) \/ RC!ProbeDisk(j) \/ RC!Interrupted(j) \/ RC!Refuse(j) \/ RC!Succeed(j)
  PROVE  RC!RecoveryInv'
  <1>1. jobs[j] \in RC!Job /\ jobs \in Seq(RC!Job) /\ qb \in BOOLEAN /\ disk \in BOOLEAN
    BY DEF RC!RecoveryInv, RC!Shapes
  <1>2. UNCHANGED <<row, kind, qb, disk, call, requests, works>> /\ jobs[j].state # "FAILED"
    BY DEF RC!ProbeQb, RC!ProbeDisk, RC!Interrupted, RC!Refuse, RC!Succeed
  <1>3. CASE RC!ProbeQb(j)
    <2> DEFINE new == [jobs[j] EXCEPT !.state = "RUNNING", !.qb = qb]
    <2>1. jobs' = [jobs EXCEPT ![j] = new] /\ jobs[j].disk
      BY <1>1, <1>3 DEF RC!ProbeQb, RC!RecoveryInv, RC!Missing
    <2>2. /\ new \in RC!Job
          /\ new.action = jobs[j].action /\ new.seen = jobs[j].seen /\ new.key = jobs[j].key
          /\ new.state = "RUNNING" /\ new.qb = qb /\ new.disk = jobs[j].disk
      BY <1>1 DEF RC!Job, RC!Unfinished
    <2> HIDE DEF new
    <2> QED
      BY <1>2, <2>1, <2>2, RecoveryStays
  <1>4. CASE RC!ProbeDisk(j)
    <2> DEFINE new == [jobs[j] EXCEPT !.state = "PROBED", !.disk = disk]
    <2>1. jobs' = [jobs EXCEPT ![j] = new] /\ jobs[j].state = "RUNNING"
      BY <1>1, <1>4 DEF RC!ProbeDisk
    <2>2. /\ new \in RC!Job
          /\ new.action = jobs[j].action /\ new.seen = jobs[j].seen /\ new.key = jobs[j].key
          /\ new.state = "PROBED" /\ new.disk = disk /\ new.qb = jobs[j].qb
      BY <1>1 DEF RC!Job, RC!Unfinished
    <2> HIDE DEF new
    <2>3. ~jobs[j].qb /\ qb => RC!Gone(jobs[j].seen)
      BY <2>1 DEF RC!RecoveryInv, RC!Missing
    <2> QED
      BY <1>2, <2>1, <2>2, <2>3, RecoveryStays
  <1>5. CASE RC!Interrupted(j) \/ RC!Refuse(j) \/ RC!Succeed(j)
    <2>1. PICK st \in {"QUEUED", "FAILED", "SUCCEEDED"} : RC!Becomes(j, st)
      BY <1>5 DEF RC!Interrupted, RC!Refuse, RC!Succeed
    <2>2. PICK new \in RC!Job :
           /\ jobs' = [jobs EXCEPT ![j] = new]
           /\ new.action = jobs[j].action /\ new.seen = jobs[j].seen /\ new.key = jobs[j].key
           /\ new.state = st /\ new.qb /\ new.disk
      BY <2>1, RecoveryBecomes
    <2> QED
      BY <1>2, <2>2, RecoveryStays
  <1> QED
    BY <1>3, <1>4, <1>5

\* The transaction: whatever was seen of the row is gone.
LEMMA RecoveryApplies ==
  ASSUME RC!Parameters, RC!RecoveryInv, NEW j \in DOMAIN jobs, RC!Apply(j)
  PROVE  RC!RecoveryInv'
  <1>1. PICK new \in RC!Job :
           /\ jobs' = [jobs EXCEPT ![j] = new]
           /\ new.action = jobs[j].action /\ new.seen = jobs[j].seen /\ new.key = jobs[j].key
           /\ new.state = "APPLIED" /\ new.qb /\ new.disk
    BY RecoveryBecomes DEF RC!Apply
  <1>2. UNCHANGED <<qb, disk, call, requests, works>> /\ jobs[j].state # "FAILED"
    BY DEF RC!Apply
  <1>3. CASE row.state = "purged"
    BY <1>1, <1>2, <1>3, RecoveryStays DEF RC!Apply
  <1>4. CASE row.state # "purged"
    <2>1. /\ jobs' \in Seq(RC!Job) /\ Len(jobs') = Len(jobs) /\ DOMAIN jobs' = DOMAIN jobs
          /\ jobs'[j] = new /\ \A k \in DOMAIN jobs : k # j => jobs'[k] = jobs[k]
          /\ RC!Chain' /\ RC!Repeats' /\ RC!Sights' = RC!Sights
      BY <1>1, <1>2, RecoveryTurns
    <2>2. PICK running \in SUBSET row.work :
            /\ row' = [state |-> IF jobs[j].action = "purge_metadata" THEN "purged" ELSE "error",
                       gen |-> row.gen + 1, requests |-> {}, work |-> running]
            /\ kind' = [w \in 1..MaxWork |-> IF w \in running THEN RC!Cancelled(kind[w]) ELSE kind[w]]
      BY <1>4 DEF RC!Apply
    <2>a. /\ row.gen \in Nat /\ requests \in Nat /\ works \in 0..MaxWork /\ row.work \subseteq 1..works
          /\ row'.gen = row.gen + 1 /\ row'.requests = {} /\ row'.work = running
          /\ running \subseteq row.work /\ running \subseteq 1..MaxWork
          /\ row' \in [state : {"live", "pending", "error", "purged"}, gen : Nat,
                       requests : SUBSET (1..MaxRequests), work : SUBSET (1..MaxWork)]
      <3>1. /\ row.gen \in Nat /\ requests \in Nat /\ works \in 0..MaxWork /\ row.gen + 1 \in Nat
            /\ row.work \subseteq 1..works /\ running \subseteq row.work /\ running \subseteq 1..MaxWork
        BY RecoveryShape DEF RC!RecoveryInv, RC!Shapes, RC!Fresh
      <3> QED
        BY <2>2, <3>1
    <2>b. /\ kind' \in [1..MaxWork -> {"none", "add", "purge", "late_add", "late_purge"}]
          /\ \A w \in running : kind'[w] \in {"late_add", "late_purge"}
      <3>1. \A w \in running : kind[w] \in {"add", "purge", "late_add", "late_purge"}
        BY RecoveryKinds
      <3>2. \A w \in running : RC!Cancelled(kind[w]) \in {"late_add", "late_purge"}
        BY <3>1 DEF RC!Cancelled
      <3> QED
        BY <2>2, <2>a, <3>2 DEF RC!RecoveryInv, RC!Shapes
    <2>3. RC!Fresh' /\ RC!Additions' /\ \A s \in RC!Sights : RC!Gone(s) => RC!Gone(s)'
      BY <1>2, <2>1, <2>a, RecoveryRow
    <2>4. RC!Shapes'
      BY <1>2, <2>1, <2>a, <2>b DEF RC!RecoveryInv, RC!Shapes
    <2>5. RC!OnePurge'
      <3>1. RC!Purges' = {}
        BY <2>a, <2>b DEF RC!Purges
      <3> QED
        BY <2>a, <3>1 DEF RC!OnePurge
    <2>6. RC!Missing'
      <3> SUFFICES ASSUME NEW k \in DOMAIN jobs
                   PROVE  /\ jobs'[k].state \in {"RUNNING", "PROBED"} => jobs'[k].seen.gen < row'.gen
                          /\ jobs'[k].state \in {"QUEUED", "RUNNING"} => jobs'[k].disk
        BY <2>1 DEF RC!Missing, RC!Gone
      <3>1. CASE k = j
        BY <1>1, <2>1, <3>1
      <3>2. CASE k # j
        <4>1. jobs[k].seen \in RC!Sights
          BY DEF RC!Sights
        <4>2. jobs[k].seen.gen <= row.gen /\ jobs[k].seen.gen \in Nat
          BY <4>1, RecoverySights DEF RC!RecoveryInv, RC!Fresh, RC!Record
        <4> QED
          BY <2>1, <2>a, <3>2, <4>2 DEF RC!RecoveryInv, RC!Missing
      <3> QED
        BY <3>1, <3>2
    <2> QED
      BY <2>1, <2>3, <2>4, <2>5, <2>6 DEF RC!RecoveryInv
  <1> QED
    BY <1>3, <1>4


\* An administrator asks: the call is a first one, or repeats the newest job, which failed.
LEMMA RecoveryAsks ==
  ASSUME RC!RecoveryInv, NEW a \in Admin, NEW action \in RC!Action, RC!Ask(a, action)
  PROVE  RC!RecoveryInv'
  <1>1. /\ UNCHANGED <<row, kind, qb, disk, jobs, requests, works>> /\ call[a] = RC!NoCall
        /\ call \in [Admin -> RC!Call \cup {RC!NoCall}] /\ jobs \in Seq(RC!Job)
        /\ requests \in Nat /\ works \in Nat
    BY DEF RC!Ask, RC!RecoveryInv, RC!Shapes
  <1> DEFINE new == [pc |-> "insert", action |-> action, seen |-> RC!Seen, key |-> RC!Key(a, action)]
  <1>2. call' = [call EXCEPT ![a] = new]
    BY DEF RC!Ask
  <1>3. \/ RC!Key(a, action) = <<"initial", 0>>
        \/ \E j \in DOMAIN jobs :
             /\ RC!Key(a, action) = <<"retry", j>> /\ jobs[j].state = "FAILED"
             /\ jobs[j].action = action /\ jobs[j].seen.gen = row.gen
    <2>1. CASE RC!Same(action) = {}
      BY <2>1 DEF RC!Key
    <2>2. CASE RC!Same(action) # {}
      <3>1. PICK i \in DOMAIN jobs : jobs[i].action = action /\ jobs[i].seen.gen = row.gen
        BY <2>2 DEF RC!Same
      <3>2. PICK k \in DOMAIN jobs : RC!Alike(i, k) /\ \A m \in DOMAIN jobs : RC!Alike(i, m) => m <= k
        BY DEF RC!RecoveryInv, RC!Chain
      <3>3. k \in RC!Same(action) /\ \A m \in RC!Same(action) : m <= k
        BY <3>1, <3>2 DEF RC!Same, RC!Alike
      <3>4. RC!Newest(RC!Same(action)) \in RC!Same(action)
        BY <3>3 DEF RC!Newest
      <3> QED
        BY <2>2, <3>4 DEF RC!Key, RC!Ask, RC!Same
    <2> QED
      BY <2>1, <2>2
  <1>4. RC!Seen \in RC!Record /\ RC!Seen.gen = row.gen /\ RC!Seen.requests = row.requests /\ RC!Seen.work = row.work
    BY RecoveryShape DEF RC!Seen, RC!Record
  <1>5. new \in RC!Call /\ new.action = action /\ new.seen = RC!Seen /\ new.key = RC!Key(a, action)
    <2>1. RC!Key(a, action) \in RC!Keys
      BY <1>1, <1>3 DEF RC!Keys
    <2> QED
      BY <1>4, <2>1 DEF RC!Call
  <1>6. new # RC!NoCall
    BY DEF RC!NoCall
  <1> HIDE DEF new
  <1>7. RC!Shapes'
    BY <1>1, <1>2, <1>5 DEF RC!RecoveryInv, RC!Shapes
  <1>8. RC!Chain' /\ RC!OnePurge' /\ RC!Missing'
    <2>1. RC!Chain' <=> RC!Chain
      BY <1>1 DEF RC!Chain, RC!Alike
    <2>2. RC!OnePurge' <=> RC!OnePurge
      BY <1>1 DEF RC!OnePurge, RC!Purges
    <2>3. RC!Missing' <=> RC!Missing
      BY <1>1 DEF RC!Missing, RC!Gone, RC!Replaced
    <2> QED
      BY <2>1, <2>2, <2>3 DEF RC!RecoveryInv
  <1>9. RC!Repeats'
    <2> SUFFICES ASSUME NEW b \in Admin, call'[b] # RC!NoCall, call'[b].key # <<"initial", 0>>
                 PROVE  \E j \in DOMAIN jobs :
                          /\ call'[b].key = <<"retry", j>> /\ jobs[j].state = "FAILED"
                          /\ jobs[j].action = call'[b].action /\ jobs[j].seen.gen = call'[b].seen.gen
      BY <1>1 DEF RC!Repeats
    <2>1. CASE b = a
      BY <1>1, <1>2, <1>3, <1>4, <1>5, <2>1
    <2>2. CASE b # a
      <3>1. call'[b] = call[b]
        BY <1>1, <1>2, <2>2
      <3> QED
        BY <3>1 DEF RC!RecoveryInv, RC!Repeats
    <2> QED
      BY <2>1, <2>2
  <1>10. \A s \in RC!Sights' : s \in RC!Sights \/ s = RC!Seen
    <2>1. ASSUME NEW b \in Admin, call'[b] # RC!NoCall
          PROVE  call'[b].seen \in RC!Sights \/ call'[b].seen = RC!Seen
      <3>1. CASE b = a
        BY <1>1, <1>2, <1>5, <3>1
      <3>2. CASE b # a
        BY <1>1, <1>2, <2>1, <3>2 DEF RC!Sights
      <3> QED
        BY <3>1, <3>2
    <2>2. \A j \in DOMAIN jobs' : jobs'[j].seen \in RC!Sights
      BY <1>1 DEF RC!Sights
    <2> QED
      BY <2>1, <2>2 DEF RC!Sights
  <1>11. RC!Fresh'
    BY <1>1, <1>4, <1>10, RecoveryShape DEF RC!RecoveryInv, RC!Fresh
  <1>12. RC!Additions'
    BY <1>1, <1>4, <1>10 DEF RC!RecoveryInv, RC!Additions, RC!Adds, RC!Replaced
  <1> QED
    BY <1>7, <1>8, <1>9, <1>11, <1>12 DEF RC!RecoveryInv

\* The call of an administrator ends.
LEMMA RecoveryHangsUp ==
  ASSUME RC!RecoveryInv, NEW a \in Admin, call' = [call EXCEPT ![a] = RC!NoCall]
  PROVE  /\ call' \in [Admin -> RC!Call \cup {RC!NoCall}]
         /\ \A b \in Admin : call'[b] # RC!NoCall => call'[b] = call[b]
  BY DEF RC!RecoveryInv, RC!Shapes

\* The unique key admits a new job.
LEMMA RecoveryAdds ==
  ASSUME RC!Parameters, RC!RecoveryInv, NEW a \in Admin, RC!InsertJob(a), ~RC!Taken(a)
  PROVE  RC!Sights' \subseteq RC!Sights /\ RC!Shapes' /\ RC!Chain' /\ RC!Repeats' /\ RC!Missing'
  <1>1. /\ UNCHANGED <<row, kind, qb, disk, requests, works>> /\ call[a] # RC!NoCall
        /\ call \in [Admin -> RC!Call \cup {RC!NoCall}] /\ jobs \in Seq(RC!Job)
        /\ Len(jobs) <= MaxJobs /\ call' \in [Admin -> RC!Call \cup {RC!NoCall}]
        /\ \A b \in Admin : call'[b] # RC!NoCall => call'[b] = call[b]
    BY RecoveryHangsUp DEF RC!InsertJob, RC!RecoveryInv, RC!Shapes
  <1> DEFINE new == [action |-> call[a].action, seen |-> call[a].seen, key |-> call[a].key,
                     state |-> "QUEUED", qb |-> TRUE, disk |-> TRUE]
  <1>2. call[a] \in RC!Call
    BY <1>1
  <1>3. /\ new \in RC!Job /\ new.action = call[a].action /\ new.seen = call[a].seen
        /\ new.key = call[a].key /\ new.state = "QUEUED" /\ new.disk
    BY <1>2 DEF RC!Call, RC!Job, RC!Unfinished
  <1>4. jobs' = Append(jobs, new) /\ Len(jobs) < MaxJobs
    BY DEF RC!InsertJob
  <1> HIDE DEF new
  <1> PICK n \in Nat : n = Len(jobs) + 1
    BY <1>1
  <1>5. /\ jobs' \in Seq(RC!Job) /\ Len(jobs') = n /\ jobs'[n] = new
        /\ DOMAIN jobs = 1..Len(jobs) /\ DOMAIN jobs' = 1..n /\ Len(jobs) \in Nat
        /\ \A j \in DOMAIN jobs : jobs'[j] = jobs[j]
    BY <1>1, <1>3, <1>4
  <1>6. RC!Shapes'
    BY <1>1, <1>4, <1>5 DEF RC!RecoveryInv, RC!Shapes, RC!Parameters
  <1>7. RC!Repeats'
    BY <1>1, <1>5 DEF RC!RecoveryInv, RC!Repeats
  <1>8. RC!Sights' \subseteq RC!Sights
    <2>1. \A j \in DOMAIN jobs' : jobs'[j].seen \in RC!Sights
      BY <1>1, <1>3, <1>5 DEF RC!Sights
    <2>2. \A b \in Admin : call'[b] # RC!NoCall => call'[b].seen \in RC!Sights
      BY <1>1 DEF RC!Sights
    <2> QED
      BY <2>1, <2>2 DEF RC!Sights
  <1>9. RC!Missing'
    <2>1. \A s : RC!Gone(s)' <=> RC!Gone(s)
      BY <1>1 DEF RC!Gone, RC!Replaced
    <2>2. ASSUME NEW j \in DOMAIN jobs'
          PROVE  /\ jobs'[j].state \in {"RUNNING", "PROBED"} /\ ((~jobs'[j].qb /\ qb) \/ (~jobs'[j].disk /\ disk)) =>
                             RC!Gone(jobs'[j].seen)
                 /\ jobs'[j].state \in {"QUEUED", "RUNNING"} => jobs'[j].disk
      <3>1. CASE j \in DOMAIN jobs
        BY <1>5, <3>1 DEF RC!RecoveryInv, RC!Missing
      <3>2. CASE j = n
        BY <1>3, <1>5, <3>2
      <3> QED
        BY <1>5, <3>1, <3>2
    <2> QED
      BY <1>1, <2>1, <2>2 DEF RC!Missing
  \* The jobs that the new one is like.
  <1> DEFINE Like(j) == jobs[j].action = new.action /\ jobs[j].seen.gen = new.seen.gen
  <1>10. /\ \A i, j \in DOMAIN jobs : RC!Alike(i, j)' <=> RC!Alike(i, j)
         /\ \A j \in DOMAIN jobs : (RC!Alike(n, j)' <=> Like(j)) /\ (RC!Alike(j, n)' <=> Like(j))
         /\ RC!Alike(n, n)'
         /\ \A i, j \in DOMAIN jobs : Like(i) /\ RC!Alike(i, j) => Like(j)
         /\ \A i, j \in DOMAIN jobs : Like(i) /\ Like(j) => RC!Alike(i, j)
    BY <1>5 DEF RC!Alike
  <1>11. \A j \in DOMAIN jobs : Like(j) => jobs[j].key # new.key
    BY <1>3 DEF RC!Taken
  <1>12. \A j \in DOMAIN jobs : Like(j) =>
           /\ jobs[j].state = "FAILED"
           /\ (new.key = <<"retry", j>> \/ \E m \in DOMAIN jobs : Like(m) /\ jobs[m].key = <<"retry", j>>)
    <2> SUFFICES ASSUME NEW j \in DOMAIN jobs, Like(j)
                 PROVE  /\ jobs[j].state = "FAILED"
                        /\ (new.key = <<"retry", j>> \/ \E m \in DOMAIN jobs : Like(m) /\ jobs[m].key = <<"retry", j>>)
      OBVIOUS
    <2>1. new.key # <<"initial", 0>>
      <3>1. PICK k \in DOMAIN jobs : RC!Alike(j, k) /\ jobs[k].key = <<"initial", 0>>
        BY DEF RC!RecoveryInv, RC!Chain
      <3> QED
        BY <1>10, <1>11, <3>1
    <2>2. PICK p \in DOMAIN jobs : new.key = <<"retry", p>> /\ jobs[p].state = "FAILED" /\ Like(p)
      BY <1>1, <1>3, <2>1 DEF RC!RecoveryInv, RC!Repeats
    <2>3. ~(p < j)
      <3>1. RC!Alike(j, p) /\ p < j => \E m \in DOMAIN jobs : RC!Alike(j, m) /\ jobs[m].key = <<"retry", p>>
        BY DEF RC!RecoveryInv, RC!Chain
      <3> QED
        BY <1>10, <1>11, <2>2, <3>1
    <2>4. CASE j = p
      BY <2>2, <2>4
    <2>5. CASE j < p
      <3>1. RC!Alike(p, j)
        BY <1>10, <2>2
      <3>2. /\ jobs[j].state = "FAILED"
            /\ \E m \in DOMAIN jobs : RC!Alike(p, m) /\ jobs[m].key = <<"retry", j>>
        BY <2>5, <3>1 DEF RC!RecoveryInv, RC!Chain
      <3> QED
        BY <1>10, <2>2, <3>2
    <2> QED
      BY <1>5, <2>3, <2>4, <2>5
  <1>13. (\E j \in DOMAIN jobs : Like(j)) \/ new.key = <<"initial", 0>>
    BY <1>1, <1>3 DEF RC!RecoveryInv, RC!Repeats
  <1>14. RC!Chain'
    <2> SUFFICES ASSUME NEW i \in DOMAIN jobs'
                 PROVE  /\ \E k \in DOMAIN jobs' : RC!Alike(i, k)' /\ jobs'[k].key = <<"initial", 0>>
                        /\ \A k \in DOMAIN jobs' : RC!Alike(i, k)' /\ k < i =>
                             /\ jobs'[k].state = "FAILED"
                             /\ \E m \in DOMAIN jobs' : RC!Alike(i, m)' /\ jobs'[m].key = <<"retry", k>>
                        /\ \E k \in DOMAIN jobs' : RC!Alike(i, k)' /\ \A m \in DOMAIN jobs' : RC!Alike(i, m)' => m <= k
      BY DEF RC!Chain
    <2>1. /\ n \in DOMAIN jobs' /\ DOMAIN jobs \subseteq DOMAIN jobs'
          /\ \A j \in DOMAIN jobs' : j \in DOMAIN jobs \/ j = n
          /\ \A j \in DOMAIN jobs : j < n /\ j <= n /\ ~(n < j) /\ j # n
          /\ n <= n /\ ~(n < n)
      BY <1>5
    <2>2. CASE i \in DOMAIN jobs
      <3>1. PICK k \in DOMAIN jobs : RC!Alike(i, k) /\ jobs[k].key = <<"initial", 0>>
        BY <2>2 DEF RC!RecoveryInv, RC!Chain
      <3>2. k \in DOMAIN jobs' /\ RC!Alike(i, k)' /\ jobs'[k].key = <<"initial", 0>>
        BY <1>5, <1>10, <2>1, <2>2, <3>1
      <3>3. ASSUME NEW l \in DOMAIN jobs', RC!Alike(i, l)', l < i
            PROVE  /\ jobs'[l].state = "FAILED"
                   /\ \E m \in DOMAIN jobs' : RC!Alike(i, m)' /\ jobs'[m].key = <<"retry", l>>
        <4>1. l \in DOMAIN jobs /\ RC!Alike(i, l)
          BY <1>10, <2>1, <2>2, <3>3
        <4>2. jobs[l].state = "FAILED" /\ \E m \in DOMAIN jobs : RC!Alike(i, m) /\ jobs[m].key = <<"retry", l>>
          BY <2>2, <3>3, <4>1 DEF RC!RecoveryInv, RC!Chain
        <4> QED
          BY <1>5, <1>10, <2>1, <2>2, <4>1, <4>2
      <3>4. PICK t \in DOMAIN jobs : RC!Alike(i, t) /\ \A m \in DOMAIN jobs : RC!Alike(i, m) => m <= t
        BY <2>2 DEF RC!RecoveryInv, RC!Chain
      <3>5. \E u \in DOMAIN jobs' : RC!Alike(i, u)' /\ \A m \in DOMAIN jobs' : RC!Alike(i, m)' => m <= u
        <4>1. CASE Like(i)
          BY <1>10, <2>1, <2>2, <4>1
        <4>2. CASE ~Like(i)
          BY <1>10, <2>1, <2>2, <3>4, <4>2
        <4> QED
          BY <4>1, <4>2
      <3> QED
        BY <3>2, <3>3, <3>5
    <2>3. CASE i = n
      <3>1. \E k \in DOMAIN jobs' : RC!Alike(n, k)' /\ jobs'[k].key = <<"initial", 0>>
        <4>1. CASE \E j \in DOMAIN jobs : Like(j)
          <5>1. PICK j \in DOMAIN jobs : Like(j)
            BY <4>1
          <5>2. PICK k \in DOMAIN jobs : RC!Alike(j, k) /\ jobs[k].key = <<"initial", 0>>
            BY DEF RC!RecoveryInv, RC!Chain
          <5> QED
            BY <1>5, <1>10, <2>1, <5>1, <5>2
        <4>2. CASE new.key = <<"initial", 0>>
          BY <1>5, <1>10, <2>1, <4>2
        <4> QED
          BY <1>13, <4>1, <4>2
      <3>2. ASSUME NEW l \in DOMAIN jobs', RC!Alike(n, l)', l < n
            PROVE  /\ jobs'[l].state = "FAILED"
                   /\ \E m \in DOMAIN jobs' : RC!Alike(n, m)' /\ jobs'[m].key = <<"retry", l>>
        <4>1. l \in DOMAIN jobs /\ Like(l)
          BY <1>10, <2>1, <3>2
        <4>2. CASE new.key = <<"retry", l>>
          BY <1>5, <1>10, <1>12, <2>1, <4>1, <4>2
        <4>3. CASE \E m \in DOMAIN jobs : Like(m) /\ jobs[m].key = <<"retry", l>>
          <5>1. PICK m \in DOMAIN jobs : Like(m) /\ jobs[m].key = <<"retry", l>>
            BY <4>3
          <5>2. m \in DOMAIN jobs' /\ RC!Alike(n, m)' /\ jobs'[m].key = <<"retry", l>>
            BY <1>5, <1>10, <2>1, <5>1
          <5> QED
            BY <1>5, <1>12, <4>1, <5>2
        <4> QED
          BY <1>12, <4>1, <4>2, <4>3
      <3>3. RC!Alike(n, n)' /\ \A m \in DOMAIN jobs' : m <= n
        BY <1>10, <2>1
      <3> QED
        BY <2>1, <2>3, <3>1, <3>2, <3>3
    <2> QED
      BY <2>1, <2>2, <2>3
  <1> QED
    BY <1>6, <1>7, <1>8, <1>9, <1>14

\* A new job is the first of its kind, or repeats the newest one; otherwise it is not made.
LEMMA RecoveryInserts ==
  ASSUME RC!Parameters, RC!RecoveryInv, NEW a \in Admin, RC!InsertJob(a)
  PROVE  RC!RecoveryInv'
  <1>1. /\ UNCHANGED <<row, kind, qb, disk, requests, works>> /\ call[a] # RC!NoCall
        /\ call \in [Admin -> RC!Call \cup {RC!NoCall}] /\ jobs \in Seq(RC!Job)
        /\ Len(jobs) <= MaxJobs /\ call' \in [Admin -> RC!Call \cup {RC!NoCall}]
        /\ \A b \in Admin : call'[b] # RC!NoCall => call'[b] = call[b]
    BY RecoveryHangsUp DEF RC!InsertJob, RC!RecoveryInv, RC!Shapes
  <1>2. RC!OnePurge'
    BY <1>1 DEF RC!RecoveryInv, RC!OnePurge, RC!Purges
  <1>3. RC!Sights' \subseteq RC!Sights /\ RC!Shapes' /\ RC!Chain' /\ RC!Repeats' /\ RC!Missing'
    <2>1. CASE RC!Taken(a)
      <3>1. jobs' = jobs
        BY <2>1 DEF RC!InsertJob
      <3>2. RC!Chain' <=> RC!Chain
        BY <3>1 DEF RC!Chain, RC!Alike
      <3>3. RC!Missing' <=> RC!Missing
        BY <1>1, <3>1 DEF RC!Missing, RC!Gone, RC!Replaced
      <3>4. RC!Repeats'
        BY <1>1, <3>1 DEF RC!RecoveryInv, RC!Repeats
      <3>5. RC!Sights' \subseteq RC!Sights
        BY <1>1, <3>1 DEF RC!Sights
      <3>6. RC!Shapes'
        BY <1>1, <3>1 DEF RC!RecoveryInv, RC!Shapes
      <3> QED
        BY <3>2, <3>3, <3>4, <3>5, <3>6 DEF RC!RecoveryInv
    <2>2. CASE ~RC!Taken(a)
      BY <2>2, RecoveryAdds
    <2> QED
      BY <2>1, <2>2
  <1>4. RC!Fresh' /\ RC!Additions'
    <2>1. RC!Fresh'
      BY <1>1, <1>3 DEF RC!RecoveryInv, RC!Fresh
    <2>2. RC!Additions'
      BY <1>1, <1>3 DEF RC!RecoveryInv, RC!Additions, RC!Adds, RC!Replaced
    <2> QED
      BY <2>1, <2>2
  <1> QED
    BY <1>2, <1>3, <1>4 DEF RC!RecoveryInv


\* Initially one user has the torrent and nobody asks.
LEMMA RecoveryInit == ASSUME RC!Parameters, RC!Init PROVE RC!RecoveryInv
  <1>1. /\ row.state = "live" /\ row.gen = 0 /\ row.requests = {1} /\ row.work = {}
        /\ jobs = <<>> /\ DOMAIN jobs = {} /\ Len(jobs) = 0 /\ requests = 1 /\ works = 0
        /\ \A a \in Admin : call[a] = RC!NoCall
    BY DEF RC!Init
  <1>2. RC!Sights = {}
    BY <1>1 DEF RC!Sights
  <1>3. RC!Shapes
    BY <1>1 DEF RC!Shapes, RC!Init, RC!Parameters
  <1>4. RC!Chain /\ RC!Repeats /\ RC!Missing
    BY <1>1 DEF RC!Chain, RC!Repeats, RC!Missing
  <1>5. RC!Fresh /\ RC!Additions /\ RC!OnePurge
    BY <1>1, <1>2 DEF RC!Fresh, RC!Additions, RC!OnePurge, RC!Purges
  <1> QED
    BY <1>3, <1>4, <1>5 DEF RC!RecoveryInv

\* Nothing moves.
LEMMA RecoveryRests == ASSUME RC!RecoveryInv, UNCHANGED RC!vars PROVE RC!RecoveryInv'
  <1>1. UNCHANGED <<row, kind, qb, disk, jobs, call, requests, works>>
    BY DEF RC!vars
  <1>2. RC!Chain' /\ RC!Repeats' /\ RC!Sights' = RC!Sights
    BY <1>1, RecoveryCalm
  <1>3. RC!Shapes'
    BY <1>1 DEF RC!RecoveryInv, RC!Shapes
  <1>4. RC!Fresh' /\ RC!OnePurge' /\ RC!Additions'
    BY <1>1, <1>2 DEF RC!RecoveryInv, RC!Fresh, RC!OnePurge, RC!Purges, RC!Additions, RC!Adds, RC!Replaced
  <1>5. RC!Missing'
    BY <1>1 DEF RC!RecoveryInv, RC!Missing, RC!Gone, RC!Replaced
  <1> QED
    BY <1>2, <1>3, <1>4, <1>5 DEF RC!RecoveryInv

\* Every step keeps the invariant.
LEMMA RecoveryKept ==
  ASSUME RC!Parameters, RC!RecoveryInv, [RC!Next]_RC!vars
  PROVE  RC!RecoveryInv'
  BY RecoveryRests, RecoveryJoins, RecoveryLeaves, RecoveryWorks, RecoveryEndsLate, RecoveryLoses,
     RecoveryAsks, RecoveryInserts, RecoveryProceeds, RecoveryApplies DEF RC!Next

\* The invariant of the recovery holds in every state.
THEOREM RecoveryStands == ASSUME RC!Parameters PROVE RC!Spec => []RC!RecoveryInv
  <1>1. RC!Init => RC!RecoveryInv
    BY RecoveryInit
  <1>2. RC!RecoveryInv /\ [RC!Next]_RC!vars => RC!RecoveryInv'
    BY RecoveryKept
  <1> QED
    BY <1>1, <1>2, PTL DEF RC!Spec

\* However many administrators ask, and however often a job failed, a generation of the torrent has
\* at most one unfinished recovery of each kind.
THEOREM RecoveredOnce == ASSUME RC!Parameters PROVE RC!Spec => []RC!OneRecovery
  <1>1. RC!RecoveryInv => RC!OneRecovery
    <2> SUFFICES ASSUME RC!RecoveryInv, NEW j \in DOMAIN jobs, NEW k \in DOMAIN jobs, RC!Alike(j, k),
                        jobs[j].state \in RC!Unfinished, jobs[k].state \in RC!Unfinished
                 PROVE  j = k
      BY DEF RC!OneRecovery, RC!Alike
    <2>1. j \in Nat /\ k \in Nat /\ RC!Alike(k, j)
      BY DEF RC!RecoveryInv, RC!Shapes, RC!Alike
    <2>2. ~(k < j) /\ ~(j < k)
      BY <2>1 DEF RC!RecoveryInv, RC!Chain, RC!Unfinished
    <2> QED
      BY <2>1, <2>2
  <1> QED
    BY <1>1, RecoveryStands, PTL

\* The transaction of a job takes away what its call saw, and forgets only what is nowhere.
LEMMA RecoveryHarms ==
  ASSUME RC!RecoveryInv, NEW j \in DOMAIN jobs, RC!Apply(j)
  PROVE  /\ row.state # "purged" /\ row'.state = "purged" => ~qb /\ ~disk
         /\ row.requests \ row'.requests \subseteq jobs[j].seen.requests
  <1> DEFINE s == jobs[j].seen
  <1>1. s = RC!Seen /\ jobs[j].state = "PROBED"
    BY DEF RC!Apply, RC!Refused, RC!Unchanged_
  <1>2. s.gen = row.gen /\ s.requests = row.requests /\ s.work = row.work /\ row.gen \in Nat
    BY <1>1, RecoveryShape DEF RC!Seen
  <1>3. ~RC!Gone(s)
    BY <1>2 DEF RC!Gone, RC!Replaced
  <1>4. (~jobs[j].qb => ~qb) /\ (~jobs[j].disk => ~disk)
    BY <1>1, <1>3 DEF RC!RecoveryInv, RC!Missing
  <1>5. row.state # "purged" /\ row'.state = "purged" => ~jobs[j].qb /\ ~jobs[j].disk
    BY DEF RC!Apply, RC!Refused, RC!Action
  <1> QED
    BY <1>2, <1>4, <1>5

\* Only the transaction of a job makes it applied.
LEMMA RecoveryOnlyApplies ==
  ASSUME RC!RecoveryInv, [RC!Next]_RC!vars, NEW j \in DOMAIN jobs,
         jobs[j].state = "PROBED", jobs'[j].state = "APPLIED"
  PROVE  RC!Apply(j)
  <1>1. jobs \in Seq(RC!Job) /\ jobs[j] \in RC!Job
    BY DEF RC!RecoveryInv, RC!Shapes
  <1>2. jobs' # jobs
    OBVIOUS
  <1>3. ASSUME NEW a \in Admin, RC!InsertJob(a) PROVE FALSE
    <2>1. RC!Taken(a) \/ \E new : jobs' = Append(jobs, new)
      BY <1>3 DEF RC!InsertJob
    <2>2. ASSUME NEW new, jobs' = Append(jobs, new) PROVE jobs'[j] = jobs[j]
      BY <1>1, <2>2
    <2> QED
      BY <1>2, <1>3, <2>1, <2>2 DEF RC!InsertJob
  <1>4. ASSUME NEW k \in DOMAIN jobs,
               RC!ProbeQb(k) \/ RC!ProbeDisk(k) \/ RC!Interrupted(k) \/ RC!Refuse(k) \/ RC!Succeed(k)
        PROVE  FALSE
    <2>1. jobs[k] \in RC!Job
      BY <1>1
    <2>2. \A s, x : /\ [jobs[k] EXCEPT !.state = s, !.qb = x].state = s
                    /\ [jobs[k] EXCEPT !.state = s, !.disk = x].state = s
                    /\ [jobs[k] EXCEPT !.state = s, !.qb = x, !.disk = x].state = s
      BY <2>1 DEF RC!Job
    <2>3. CASE RC!ProbeQb(k) \/ RC!ProbeDisk(k)
      <3>1. \/ jobs' = [jobs EXCEPT ![k] = [jobs[k] EXCEPT !.state = "RUNNING", !.qb = qb]]
            \/ jobs' = [jobs EXCEPT ![k] = [jobs[k] EXCEPT !.state = "PROBED", !.disk = disk]]
        BY <1>1, <2>3 DEF RC!ProbeQb, RC!ProbeDisk
      <3>2. ASSUME NEW new, jobs' = [jobs EXCEPT ![k] = new], new.state # "APPLIED" PROVE FALSE
        BY <1>1, <3>2
      <3>3. /\ [jobs[k] EXCEPT !.state = "RUNNING", !.qb = qb].state # "APPLIED"
            /\ [jobs[k] EXCEPT !.state = "PROBED", !.disk = disk].state # "APPLIED"
        BY <2>2
      <3> QED
        BY <3>1, <3>2, <3>3
    <2>4. CASE RC!Interrupted(k) \/ RC!Refuse(k) \/ RC!Succeed(k)
      <3>1. PICK s \in {"QUEUED", "FAILED", "SUCCEEDED"} : RC!Becomes(k, s)
        BY <2>4 DEF RC!Interrupted, RC!Refuse, RC!Succeed
      <3>2. jobs' = [jobs EXCEPT ![k] = [jobs[k] EXCEPT !.state = s, !.qb = TRUE, !.disk = TRUE]]
        BY <1>1, <3>1 DEF RC!Becomes
      <3> QED
        BY <1>1, <2>2, <3>2
    <2> QED
      BY <1>4, <2>3, <2>4
  <1>5. ASSUME NEW k \in DOMAIN jobs, RC!Apply(k) PROVE k = j
    <2>1. PICK new : jobs' = [jobs EXCEPT ![k] = new]
      BY <1>1, <1>5 DEF RC!Apply, RC!Becomes
    <2> QED
      BY <1>1, <2>1
  <1>6. ASSUME \/ RC!Join \/ (\E q, d \in BOOLEAN : RC!Lose(q, d)) \/ (\E q \in 1..MaxRequests : RC!Leave(q))
               \/ (\E w \in 1..MaxWork : RC!Work(w) \/ RC!EndLate(w)) \/ UNCHANGED RC!vars
               \/ \E a \in Admin, action \in RC!Action : RC!Ask(a, action)
        PROVE  FALSE
    BY <1>2, <1>6 DEF RC!Join, RC!Lose, RC!Leave, RC!Work, RC!EndLate, RC!Ask, RC!vars
  <1> QED
    BY <1>3, <1>4, <1>5, <1>6 DEF RC!Next

\* A recovery forgets a torrent only while neither qBittorrent nor the disk holds it, although it
\* asked them earlier, and takes away exactly the rights that the administrator's call saw.
THEOREM RecoveriesHarmless == ASSUME RC!Parameters PROVE RC!Spec => RC!RecoveryHarmless
  <1>1. RC!RecoveryInv /\ [RC!Next]_RC!vars => [RC!RecoveryHarmlessStep]_RC!vars
    BY RecoveryHarms, RecoveryOnlyApplies DEF RC!RecoveryHarmlessStep
  <1> QED
    BY <1>1, RecoveryStands, PTL DEF RC!Spec, RC!RecoveryHarmless

-----------------------------------------------------------------------------
(* The options of the registry                                             *)

\* The parts of the invariant a transaction has a share in.
LEMMA OptionShapes ==
  ASSUME OP!OptionsInv, NEW p \in OP!Caller
  PROVE  /\ tx[p] \in OP!Transaction /\ OP!Knows(p, tx[p]) /\ tx \in [OP!Caller -> OP!Transaction]
         /\ rows \in [OP!Key -> OP!Row]
         /\ \A q \in OP!Caller : q # p => OP!Apart(tx[p], tx[q]) /\ OP!Apart(tx[q], tx[p])
  BY DEF OP!OptionsInv, OP!Shapes

\* A transaction at its beginning.
LEMMA OptionNoTx ==
  /\ OP!NoTx \in OP!Transaction /\ OP!NoTx.at = "idle" /\ OP!NoTx.locked = {} /\ OP!NoTx.have = {}
  /\ OP!NoTx.new = <<>> /\ DOMAIN OP!NoTx.new = {}
  <1>1. <<>> \in {<<>>} \cup UNION {[some -> OP!Value] : some \in SUBSET OP!Key}
    OBVIOUS
  <1> QED
    BY <1>1 DEF OP!NoTx, OP!Transaction

\* A step of one transaction that leaves the rows alone.
LEMMA OptionStep ==
  ASSUME OP!Parameters, OP!OptionsInv, NEW p \in OP!Caller, NEW t \in OP!Transaction,
         tx' = [tx EXCEPT ![p] = t], UNCHANGED <<rows, audit, manual>>,
         page' \in [Admin -> [OP!Key -> OP!Row]],
         \A a \in Admin : page'[a] = page[a] \/ page'[a] = rows,
         OP!Knows(p, t), \A q \in OP!Caller : q # p => OP!Apart(t, tx[q])
  PROVE  OP!OptionsInv'
  <1>1. tx' \in [OP!Caller -> OP!Transaction] /\ tx'[p] = t /\ \A q \in OP!Caller : q # p => tx'[q] = tx[q]
    BY OptionShapes
  <1>2. OP!Shapes'
    BY <1>1 DEF OP!OptionsInv, OP!Shapes
  <1>3. OP!ReadersServed' /\ OP!AuditExact'
    BY DEF OP!OptionsInv, OP!ReadersServed, OP!AuditExact, OP!Exists, OP!Values
  <1>4. ASSUME NEW q \in OP!Caller PROVE OP!Knows(q, tx[q])'
    <2>1. OP!Knows(q, tx'[q])
      BY <1>1 DEF OP!OptionsInv
    <2> QED
      BY <2>1 DEF OP!Knows, OP!Exists, OP!Older, OP!Result
  <1>5. ASSUME NEW q \in OP!Caller, NEW r \in OP!Caller, q # r PROVE OP!Apart(tx'[q], tx'[r])
    <2>1. OP!Apart(tx[q], tx[r])
      BY <1>5 DEF OP!OptionsInv
    <2>2. CASE q = p
      BY <1>1, <1>5, <2>2
    <2>3. CASE r = p
      <3>1. OP!Apart(t, tx[q])
        BY <1>5, <2>3
      <3> QED
        BY <1>1, <1>5, <2>3, <3>1 DEF OP!Apart
    <2> QED
      BY <1>1, <2>1, <2>2, <2>3
  <1>6. manual' = 0 => \A a \in Admin : OP!Older(page[a])'
    <2> SUFFICES ASSUME manual = 0, NEW a \in Admin PROVE OP!Older(page'[a])
      BY DEF OP!Older
    <2>1. OP!Older(page[a])
      BY DEF OP!OptionsInv
    <2>2. OP!Older(rows)
      <3>1. \A k \in OP!Key : rows[k].version <= rows[k].version
        BY DEF OP!OptionsInv, OP!Shapes, OP!Row, OP!Parameters
      <3> QED
        BY <3>1 DEF OP!Older
    <2> QED
      BY <2>1, <2>2
  <1> QED
    BY <1>2, <1>3, <1>4, <1>5, <1>6 DEF OP!OptionsInv, OP!Apart

\* A transaction that is over knows nothing and has nothing.
LEMMA OptionAborts ==
  ASSUME OP!Parameters, OP!OptionsInv, NEW p \in OP!Caller, OP!Abort(p)
  PROVE  OP!OptionsInv'
  <1>1. OP!Knows(p, OP!NoTx) /\ \A q \in OP!Caller : OP!Apart(OP!NoTx, tx[q])
    BY OptionNoTx DEF OP!Knows, OP!Apart
  <1>2. page \in [Admin -> [OP!Key -> OP!Row]] /\ page' = page /\ UNCHANGED <<rows, audit, manual>>
        /\ tx' = [tx EXCEPT ![p] = OP!NoTx]
    BY DEF OP!Abort, OP!OptionsInv, OP!Shapes
  <1> QED
    BY <1>1, <1>2, OptionNoTx, OptionStep

\* A row is locked that nobody holds.
LEMMA OptionLocks ==
  ASSUME OP!Parameters, OP!OptionsInv, NEW p \in OP!Caller, OP!LockRow(p)
  PROVE  OP!OptionsInv'
  <1>1. PICK k \in OP!NextRow(p) : /\ tx[p].at = "locking" /\ OP!Holder(k) = {}
                                   /\ tx' = [tx EXCEPT ![p].locked = @ \cup {k}]
                                   /\ UNCHANGED <<rows, audit, page, manual>>
    BY DEF OP!LockRow
  <1> DEFINE t == [tx[p] EXCEPT !.locked = tx[p].locked \cup {k}]
  <1>2. k \in tx[p].have
    BY DEF OP!NextRow
  <1>3. tx[p] \in OP!Transaction /\ k \in OP!Key /\ OP!Knows(p, tx[p])
    BY <1>2, OptionShapes DEF OP!Transaction
  <1>4. t \in OP!Transaction /\ t.locked = tx[p].locked \cup {k} /\ t.at = tx[p].at /\ t.have = tx[p].have
        /\ t.new = tx[p].new /\ t.seen = tx[p].seen /\ t.guarded = tx[p].guarded
    BY <1>3 DEF OP!Transaction
  <1>5. tx' = [tx EXCEPT ![p] = t]
    BY <1>1
  <1>6. OP!Knows(p, t)
    BY <1>1, <1>2, <1>3, <1>4 DEF OP!Knows, OP!Older
  <1>7. ASSUME NEW q \in OP!Caller, q # p PROVE OP!Apart(t, tx[q])
    <2>1. k \notin tx[q].locked
      BY <1>1 DEF OP!Holder
    <2>2. OP!Apart(tx[p], tx[q])
      BY <1>7, OptionShapes
    <2> QED
      BY <1>4, <2>1, <2>2 DEF OP!Apart
  <1>8. page \in [Admin -> [OP!Key -> OP!Row]]
    BY DEF OP!OptionsInv, OP!Shapes
  <1> HIDE DEF t
  <1> QED
    BY <1>1, <1>4, <1>5, <1>6, <1>7, <1>8, OptionStep

\* A request and an initialisation begin with the rows there are.
LEMMA OptionBegins ==
  ASSUME OP!Parameters, OP!OptionsInv, NEW p \in OP!Caller, tx[p].at = "idle",
         NEW u \in OP!Transaction, u.new = <<>>,
         p \in Admin => u.seen = page[p],
         tx' = [tx EXCEPT ![p] = OP!Locking(u)], UNCHANGED <<rows, audit, page, manual>>
  PROVE  OP!OptionsInv'
  <1> DEFINE t == OP!Locking(u)
  <1>1. /\ t \in OP!Transaction /\ t.at = "locking" /\ t.have = {k \in OP!Key : OP!Exists(k)}
        /\ t.locked = {} /\ t.new = <<>> /\ t.seen = u.seen
    BY DEF OP!Locking, OP!Transaction
  <1>2. page \in [Admin -> [OP!Key -> OP!Row]]
    BY DEF OP!OptionsInv, OP!Shapes
  <1>3. OP!Knows(p, t)
    <2>1. p \in Admin => t.seen \in [OP!Key -> OP!Row] /\ (manual = 0 => OP!Older(t.seen))
      BY <1>1, <1>2 DEF OP!OptionsInv
    <2> QED
      BY <1>1, <2>1 DEF OP!Knows
  <1>4. \A q \in OP!Caller : OP!Apart(t, tx[q])
    BY <1>1 DEF OP!Apart
  <1>5. tx' = [tx EXCEPT ![p] = t]
    OBVIOUS
  <1> HIDE DEF t
  <1> QED
    BY <1>1, <1>2, <1>3, <1>4, <1>5, OptionStep

\* A request is submitted with what its page showed.
LEMMA OptionSubmits ==
  ASSUME OP!Parameters, OP!OptionsInv, NEW p \in Admin, OP!Submit(p)
  PROVE  OP!OptionsInv'
  <1>1. PICK c \in Changes, guarded \in BOOLEAN :
          /\ tx[p].at = "idle"
          /\ tx' = [tx EXCEPT ![p] = OP!Locking([OP!NoTx EXCEPT !.changes = c, !.guarded = guarded, !.seen = page[p]])]
          /\ UNCHANGED <<rows, audit, page, manual>>
    BY DEF OP!Submit
  <1> DEFINE u == [OP!NoTx EXCEPT !.changes = c, !.guarded = guarded, !.seen = page[p]]
  <1>2. page[p] \in [OP!Key -> OP!Row]
    BY DEF OP!OptionsInv, OP!Shapes
  <1>3. u \in OP!Transaction /\ u.new = <<>> /\ u.seen = page[p]
    BY <1>2 DEF OP!NoTx, OP!Transaction
  <1>4. p \in OP!Caller
    BY DEF OP!Caller
  <1>5. tx' = [tx EXCEPT ![p] = OP!Locking(u)]
    BY <1>1
  <1> HIDE DEF u
  <1> QED
    BY <1>1, <1>3, <1>4, <1>5, OptionBegins

\* A service looks for rows that are missing.
LEMMA OptionChecks ==
  ASSUME OP!Parameters, OP!OptionsInv, NEW p \in Service, OP!Check(p)
  PROVE  OP!OptionsInv'
  <1>1. p \in OP!Caller /\ p \notin Admin
    BY DEF OP!Caller, OP!Parameters
  <1> QED
    BY <1>1, OptionNoTx, OptionBegins DEF OP!Check

\* A page is loaded.
LEMMA OptionShows ==
  ASSUME OP!Parameters, OP!OptionsInv, NEW p \in Admin, OP!Overview(p)
  PROVE  OP!OptionsInv'
  <1>1. p \in OP!Caller
    BY DEF OP!Caller
  <1>2. /\ page' \in [Admin -> [OP!Key -> OP!Row]] /\ UNCHANGED <<rows, audit, manual>>
        /\ \A a \in Admin : page'[a] = page[a] \/ page'[a] = rows
    BY DEF OP!Overview, OP!OptionsInv, OP!Shapes
  <1>3. tx' = [tx EXCEPT ![p] = tx[p]]
    BY <1>1, OptionShapes DEF OP!Overview
  <1> QED
    BY <1>1, <1>2, <1>3, OptionShapes, OptionStep

\* An administrator's changes are validated under all the locks.
LEMMA OptionUpdates ==
  ASSUME OP!Parameters, OP!OptionsInv, NEW p \in OP!Caller, OP!Update(p)
  PROVE  OP!OptionsInv'
  <1>1. CASE OP!Abort(p)
    BY <1>1, OptionAborts
  <1>2. CASE /\ tx[p].have = OP!Key /\ OP!VersionsMatch(tx[p]) /\ OP!Accepts(tx[p])
             /\ tx' = [tx EXCEPT ![p].at = "flushed",
                                 ![p].new = [k \in OP!Differing(tx[p]) |-> tx[p].changes[k]]]
             /\ UNCHANGED <<rows, audit, page, manual>>
    <2> DEFINE new == [k \in OP!Differing(tx[p]) |-> tx[p].changes[k]]
               t == [tx[p] EXCEPT !.at = "flushed", !.new = new]
    <2>1. /\ p \in Admin /\ tx[p].at = "locking" /\ tx[p].have = tx[p].locked /\ p \notin Service
          /\ \A k \in DOMAIN tx[p].changes : rows[k].version < MaxVersion
      BY DEF OP!Update, OP!Parameters
    <2>2. tx[p] \in OP!Transaction /\ OP!Knows(p, tx[p])
      BY OptionShapes
    <2>3. OP!Differing(tx[p]) \subseteq DOMAIN tx[p].changes /\ DOMAIN tx[p].changes \subseteq OP!Key
      <3>1. DOMAIN <<>> \subseteq OP!Key
        OBVIOUS
      <3> QED
        BY <2>2, <3>1 DEF OP!Differing, OP!Transaction, OP!Parameters
    <2>4. \A k \in DOMAIN tx[p].changes : tx[p].changes[k] \in Bounds[k] /\ tx[p].changes[k] \in OP!Value
      BY <1>2, <2>3 DEF OP!Accepts, OP!Normal, OP!Value
    <2>5. new \in {<<>>} \cup UNION {[some -> OP!Value] : some \in SUBSET OP!Key}
          /\ DOMAIN new = OP!Differing(tx[p]) /\ \A k \in DOMAIN new : new[k] = tx[p].changes[k]
      BY <2>3, <2>4
    <2> HIDE DEF new
    <2>6. t \in OP!Transaction /\ t.at = "flushed" /\ t.new = new /\ t.have = tx[p].have /\ t.locked = tx[p].locked
          /\ t.seen = tx[p].seen /\ t.guarded = tx[p].guarded
      BY <2>2, <2>5 DEF OP!Transaction
    <2>7. ASSUME manual = 0 PROVE OP!Valid(OP!Result(t))
      <3> DEFINE v == [k \in OP!Key |-> IF k \in DOMAIN tx[p].changes THEN tx[p].changes[k] ELSE rows[k].value]
      <3>1. OP!Result(t) = v
        BY <2>3, <2>5, <2>6 DEF OP!Result, OP!Differing
      <3>2. OP!Consistent(v)
        BY <1>2 DEF OP!Accepts
      <3>3. \A k \in OP!Key : OP!Exists(k)
        BY <1>2, <2>2 DEF OP!Knows
      <3>4. OP!Valid(OP!Values(rows))
        BY <2>7, <3>3 DEF OP!OptionsInv, OP!ReadersServed
      <3>5. ASSUME NEW k \in OP!Key PROVE OP!Normal(k, v[k])
        <4>1. OP!Normal(k, rows[k].value)
          BY <3>4 DEF OP!Valid, OP!Values
        <4> QED
          BY <2>4, <4>1 DEF OP!Normal
      <3> HIDE DEF v
      <3> QED
        BY <3>1, <3>2, <3>5 DEF OP!Valid
    <2>8. t.guarded /\ manual = 0 => \A k \in DOMAIN t.new : rows[k].value = t.seen[k].value
      BY <1>2, <2>1, <2>2, <2>3, <2>5, <2>6 DEF OP!VersionsMatch, OP!Knows, OP!Older
    <2>9. OP!Knows(p, t)
      BY <1>2, <2>1, <2>2, <2>3, <2>5, <2>6, <2>7, <2>8 DEF OP!Knows
    <2>10. ASSUME NEW q \in OP!Caller, q # p PROVE OP!Apart(t, tx[q])
      <3>1. OP!Apart(tx[p], tx[q])
        BY <2>10, OptionShapes
      <3> QED
        BY <1>2, <2>3, <2>5, <2>6, <3>1 DEF OP!Apart
    <2>11. page \in [Admin -> [OP!Key -> OP!Row]] /\ tx' = [tx EXCEPT ![p] = t]
      BY <1>2 DEF OP!OptionsInv, OP!Shapes, new
    <2> HIDE DEF t
    <2> QED
      BY <1>2, <2>6, <2>9, <2>10, <2>11, OptionStep
  <1> QED
    BY <1>1, <1>2 DEF OP!Update

\* A service inserts what is missing, and nobody else does.
LEMMA OptionInserts ==
  ASSUME OP!Parameters, OP!OptionsInv, NEW p \in OP!Caller, OP!Bootstrap(p)
  PROVE  OP!OptionsInv'
  <1> DEFINE absent == OP!Key \ tx[p].have
             v == [k \in OP!Key |-> IF k \in absent THEN Default[k] ELSE rows[k].value]
             new == [k \in absent |-> Default[k]]
             t == [tx[p] EXCEPT !.at = "flushed", !.new = new]
  <1>1. CASE OP!Abort(p)
    BY <1>1, OptionAborts
  <1>2. CASE /\ OP!Valid(v) /\ \A k \in absent : ~OP!Exists(k)
             /\ tx' = [tx EXCEPT ![p].at = "flushed", ![p].new = new]
             /\ UNCHANGED <<rows, audit, page, manual>>
    <2>1. /\ p \in Service /\ tx[p].at = "locking" /\ tx[p].have = tx[p].locked /\ p \notin Admin
          /\ \A k \in absent : OP!Inserting(k) = {}
      BY DEF OP!Bootstrap, OP!Parameters
    <2>2. tx[p] \in OP!Transaction /\ OP!Knows(p, tx[p]) /\ rows \in [OP!Key -> OP!Row]
      BY OptionShapes
    <2>3. \A k \in absent : Default[k] \in OP!Value
      BY DEF OP!Value
    <2>4. /\ new \in {<<>>} \cup UNION {[some -> OP!Value] : some \in SUBSET OP!Key}
          /\ DOMAIN new = absent /\ \A k \in absent : new[k] = Default[k]
      <3>1. new \in [absent -> OP!Value] /\ absent \in SUBSET OP!Key
        BY <2>3
      <3> QED
        BY <3>1
    <2> HIDE DEF new
    <2>5. t \in OP!Transaction /\ t.at = "flushed" /\ t.new = new /\ t.have = tx[p].have /\ t.locked = tx[p].locked
      BY <2>2, <2>4 DEF OP!Transaction
    <2>6. OP!Result(t) = v
      BY <2>4, <2>5 DEF OP!Result
    <2>7. \A k \in absent : rows[k].version < MaxVersion
      BY <1>2, <2>2 DEF OP!Exists, OP!Row, OP!Parameters
    <2>8. OP!Knows(p, t)
      BY <1>2, <2>1, <2>2, <2>4, <2>5, <2>6, <2>7 DEF OP!Knows
    <2>9. ASSUME NEW q \in OP!Caller, q # p PROVE OP!Apart(t, tx[q])
      <3>1. OP!Apart(tx[p], tx[q])
        BY <2>9, OptionShapes
      <3>2. \A k \in absent : k \notin DOMAIN tx[q].new \ tx[q].have
        BY <2>1 DEF OP!Inserting
      <3> QED
        BY <2>4, <2>5, <3>1, <3>2 DEF OP!Apart
    <2>10. page \in [Admin -> [OP!Key -> OP!Row]] /\ tx' = [tx EXCEPT ![p] = t]
      BY <1>2 DEF OP!OptionsInv, OP!Shapes, new
    <2> HIDE DEF t
    <2> QED
      BY <1>2, <2>5, <2>8, <2>9, <2>10, OptionStep
  <1> QED
    BY <1>1, <1>2 DEF OP!Bootstrap

\* Of two transactions that are about to commit, neither changes anything.
LEMMA OptionAlone ==
  ASSUME OP!Parameters, OP!OptionsInv, NEW p \in OP!Caller, NEW q \in OP!Caller, p # q,
         tx[p].at = "flushed", tx[q].at = "flushed"
  PROVE  DOMAIN tx[p].new = {}
  <1>1. /\ OP!Knows(p, tx[p]) /\ OP!Knows(q, tx[q]) /\ OP!Apart(tx[p], tx[q])
        /\ tx[p].have \subseteq OP!Key /\ tx[q].have \subseteq OP!Key
    BY OptionShapes DEF OP!Transaction
  <1>2. /\ tx[p].locked = tx[p].have /\ tx[q].locked = tx[q].have /\ tx[p].have \cap tx[q].have = {}
        /\ DOMAIN tx[p].new \subseteq OP!Key
    BY <1>1 DEF OP!Knows, OP!Apart
  <1>3. CASE p \in Admin
    <2>1. tx[p].have = OP!Key /\ tx[q].have = {}
      BY <1>1, <1>2, <1>3 DEF OP!Knows
    <2>2. q \in Admin => OP!Key = {}
      BY <1>1, <2>1 DEF OP!Knows
    <2>3. q \in Service => OP!Key = {}
      <3>1. q \in Service => DOMAIN tx[q].new = OP!Key /\ \A k \in OP!Key : ~OP!Exists(k)
        BY <1>1, <2>1 DEF OP!Knows
      <3>2. \A k \in OP!Key : OP!Exists(k)
        BY <1>1, <2>1 DEF OP!Knows
      <3> QED
        BY <3>1, <3>2
    <2> QED
      BY <1>2, <2>2, <2>3 DEF OP!Caller
  <1>4. CASE p \in Service
    <2>1. DOMAIN tx[p].new = OP!Key \ tx[p].have /\ \A k \in DOMAIN tx[p].new : ~OP!Exists(k)
      BY <1>1, <1>4 DEF OP!Knows
    <2>2. q \in Admin => DOMAIN tx[p].new = {}
      BY <1>1, <1>2, <2>1 DEF OP!Knows
    <2>3. q \in Service => DOMAIN tx[p].new = {}
      <3>1. q \in Service => DOMAIN tx[q].new = OP!Key \ tx[q].have
        BY <1>1 DEF OP!Knows
      <3>2. \A k \in tx[q].have : OP!Exists(k)
        BY <1>1 DEF OP!Knows
      <3>3. (DOMAIN tx[p].new \ tx[p].have) \cap (DOMAIN tx[q].new \ tx[q].have) = {}
        BY <1>1 DEF OP!Apart
      <3> QED
        BY <2>1, <3>1, <3>2, <3>3
    <2> QED
      BY <2>2, <2>3 DEF OP!Caller
  <1> QED
    BY <1>3, <1>4 DEF OP!Caller

\* What a commit makes of a row.
LEMMA OptionWrites ==
  ASSUME OP!Parameters, OP!OptionsInv, NEW p \in OP!Caller, OP!Commit(p)
  PROVE  /\ rows' \in [OP!Key -> OP!Row]
         /\ \A k \in OP!Key :
              IF k \in DOMAIN tx[p].new
              THEN rows'[k].value = tx[p].new[k] /\ rows'[k].version = rows[k].version + 1
              ELSE rows'[k] = rows[k]
         /\ \A k \in OP!Key : rows[k].version \in Nat /\ rows'[k].version \in Nat
                               /\ rows'[k].value \in OP!Value /\ rows[k].value \in OP!Value
  <1>1. /\ tx[p] \in OP!Transaction /\ OP!Knows(p, tx[p]) /\ rows \in [OP!Key -> OP!Row] /\ tx[p].at = "flushed"
        /\ MaxVersion \in Nat
    BY OptionShapes DEF OP!Commit, OP!Parameters
  <1>2. rows' = [k \in OP!Key |-> IF k \in DOMAIN tx[p].new
                                  THEN [value |-> tx[p].new[k], version |-> rows[k].version + 1] ELSE rows[k]]
    BY DEF OP!Commit
  <1>3. \A k \in DOMAIN tx[p].new : tx[p].new[k] \in OP!Value
    BY <1>1 DEF OP!Transaction
  <1>4. \A k \in OP!Key : rows[k] \in OP!Row /\ rows[k].version \in 0..MaxVersion /\ rows[k].value \in OP!Value
    BY <1>1 DEF OP!Row
  <1>5. \A k \in DOMAIN tx[p].new : rows[k].version < MaxVersion
    BY <1>1 DEF OP!Knows
  <1>6. ASSUME NEW k \in OP!Key PROVE rows'[k] \in OP!Row
    <2>1. CASE k \in DOMAIN tx[p].new
      <3>1. rows[k].version + 1 \in 0..MaxVersion
        BY <1>1, <1>4, <1>5, <2>1
      <3> QED
        BY <1>2, <1>3, <2>1, <3>1 DEF OP!Row
    <2> QED
      BY <1>2, <1>4, <2>1
  <1>7. rows' \in [OP!Key -> OP!Row]
    BY <1>2, <1>6
  <1>8. \A k \in OP!Key : rows'[k].version \in Nat /\ rows'[k].value \in OP!Value
    BY <1>6 DEF OP!Row
  <1> QED
    BY <1>2, <1>4, <1>7, <1>8

\* The audit gets an event for each row that is written.
LEMMA OptionAudits ==
  ASSUME OP!Parameters, OP!OptionsInv, NEW p \in OP!Caller, OP!Commit(p)
  PROVE  /\ audit' \in [OP!Key -> Seq([version : Nat, old : OP!Value, new : OP!Value])]
         /\ OP!AuditExact'
  <1> DEFINE Event == [version : Nat, old : OP!Value, new : OP!Value]
  <1>1. /\ audit \in [OP!Key -> Seq(Event)] /\ manual' = manual
        /\ audit' = [k \in OP!Key |-> IF k \in DOMAIN tx[p].new
                                      THEN Append(audit[k], OP!Event(tx[p], k)) ELSE audit[k]]
    BY DEF OP!OptionsInv, OP!Shapes, OP!Commit
  <1>2. tx[p] \in OP!Transaction
    BY OptionShapes
  <1>3. \A k \in DOMAIN tx[p].new : tx[p].new[k] \in OP!Value
    BY <1>2 DEF OP!Transaction
  <1>4. ASSUME NEW k \in OP!Key, k \in DOMAIN tx[p].new
        PROVE  OP!Event(tx[p], k) \in Event
    <2>1. rows[k].version \in Nat /\ rows[k].value \in OP!Value
      BY OptionWrites
    <2> QED
      BY <1>3, <1>4, <2>1 DEF OP!Event
  <1> HIDE DEF Event
  <1>5. audit' \in [OP!Key -> Seq(Event)]
    <2>1. ASSUME NEW k \in OP!Key, k \in DOMAIN tx[p].new
          PROVE  Append(audit[k], OP!Event(tx[p], k)) \in Seq(Event)
      BY <1>1, <1>4, <2>1
    <2> QED
      BY <1>1, <2>1
  <1>6. ASSUME manual = 0, NEW k \in OP!Key
        PROVE  /\ Len(audit'[k]) = rows'[k].version
               /\ \A i \in 1..Len(audit'[k]) : audit'[k][i].version = i
               /\ \A i \in 1..(Len(audit'[k]) - 1) : audit'[k][i].new = audit'[k][i + 1].old
               /\ rows'[k].version > 0 => OP!Last(audit'[k]).new = rows'[k].value
    <2>1. /\ Len(audit[k]) = rows[k].version
          /\ \A i \in 1..Len(audit[k]) : audit[k][i].version = i
          /\ \A i \in 1..(Len(audit[k]) - 1) : audit[k][i].new = audit[k][i + 1].old
          /\ rows[k].version > 0 => audit[k][Len(audit[k])].new = rows[k].value
      BY <1>6 DEF OP!OptionsInv, OP!AuditExact, OP!Exists, OP!Last
    <2>2. CASE k \notin DOMAIN tx[p].new
      BY <1>1, <2>1, <2>2, OptionWrites DEF OP!Last
    <2>3. CASE k \in DOMAIN tx[p].new
      <3> DEFINE s == audit[k]  e == OP!Event(tx[p], k)  n == Len(s)
      <3>1. s \in Seq(Event) /\ e \in Event /\ n \in Nat /\ audit'[k] = Append(s, e)
        <4>1. s \in Seq(Event) /\ e \in Event /\ audit'[k] = Append(s, e)
          BY <1>1, <1>4, <2>3
        <4> QED
          BY <4>1
      <3>2. e.version = rows[k].version + 1 /\ e.old = rows[k].value /\ e.new = tx[p].new[k]
        BY DEF OP!Event
      <3>3. rows'[k].version = n + 1 /\ rows'[k].value = e.new /\ rows[k].version = n
        BY <2>1, <2>3, <3>2, OptionWrites
      <3>4. Len(Append(s, e)) = n + 1 /\ Append(s, e)[n + 1] = e /\ \A i \in 1..n : Append(s, e)[i] = s[i]
        BY <3>1
      <3>5. \A i \in 1..n : s[i].version = i
        BY <2>1
      <3>6. \A i \in 1..(n - 1) : s[i].new = s[i + 1].old
        BY <2>1
      <3>7. n > 0 => s[n].new = e.old
        BY <2>1, <3>2, <3>3
      <3> HIDE DEF s, e, n
      <3>8. \A i \in 1..(n + 1) : Append(s, e)[i].version = i
        BY <3>1, <3>2, <3>3, <3>4, <3>5
      <3>9. \A i \in 1..n : Append(s, e)[i].new = Append(s, e)[i + 1].old
        <4> SUFFICES ASSUME NEW i \in 1..n PROVE Append(s, e)[i].new = Append(s, e)[i + 1].old
          OBVIOUS
        <4>1. CASE i = n
          BY <3>1, <3>4, <3>7, <4>1
        <4>2. CASE i # n
          <5>1. i \in 1..(n - 1) /\ i + 1 \in 1..n
            BY <3>1, <4>2
          <5> QED
            BY <3>4, <3>6, <5>1
        <4> QED
          BY <4>1, <4>2
      <3> QED
        <4>1. n + 1 - 1 = n
          BY <3>1
        <4> QED
          BY <3>1, <3>3, <3>4, <3>8, <3>9, <4>1 DEF OP!Last
    <2> QED
      BY <2>2, <2>3
  <1>7. OP!AuditExact'
    BY <1>1, <1>6 DEF OP!AuditExact, OP!Exists
  <1> QED
    BY <1>5, <1>7 DEF Event

\* A commit: what was validated is what there is afterwards.
LEMMA OptionCommits ==
  ASSUME OP!Parameters, OP!OptionsInv, NEW p \in OP!Caller, OP!Commit(p)
  PROVE  OP!OptionsInv'
  <1>1. /\ tx[p] \in OP!Transaction /\ OP!Knows(p, tx[p]) /\ tx[p].at = "flushed"
        /\ rows \in [OP!Key -> OP!Row] /\ manual' = manual
    BY OptionShapes DEF OP!Commit
  <1>2. /\ tx' = [tx EXCEPT ![p] = OP!NoTx] /\ tx' \in [OP!Caller -> OP!Transaction] /\ tx'[p] = OP!NoTx
        /\ \A q \in OP!Caller : q # p => tx'[q] = tx[q]
    BY OptionShapes, OptionNoTx DEF OP!Commit
  <1>3. page' \in [Admin -> [OP!Key -> OP!Row]] /\ \A a \in Admin : page'[a] = page[a] \/ page'[a] = rows'
    BY OptionWrites DEF OP!Commit, OP!OptionsInv, OP!Shapes
  <1>4. OP!Shapes'
    BY <1>1, <1>2, <1>3, OptionWrites, OptionAudits DEF OP!Shapes, OP!OptionsInv
  <1>5. ASSUME NEW k \in OP!Key
        PROVE  (OP!Exists(k) => OP!Exists(k)') /\ rows'[k].version >= rows[k].version
               /\ (rows'[k].version = rows[k].version => rows'[k].value = rows[k].value)
    BY OptionWrites DEF OP!Exists
  <1>6. ASSUME NEW r \in [OP!Key -> OP!Row], OP!Older(r)
        PROVE  \A k \in OP!Key : /\ r[k].version <= rows'[k].version
                                 /\ r[k].version = rows'[k].version => r[k].value = rows'[k].value
    <2> TAKE k \in OP!Key
    <2>1. r[k].version \in Nat /\ r[k].version <= rows[k].version /\ rows[k].version \in Nat /\ rows'[k].version \in Nat
      BY <1>6, OptionWrites DEF OP!Older, OP!Row, OP!Parameters
    <2>2. rows'[k].version >= rows[k].version
      BY <1>5
    <2>3. rows[k].version = rows'[k].version => rows'[k].value = rows[k].value
      BY <1>5
    <2>4. r[k].version = rows[k].version => r[k].value = rows[k].value
      BY <1>6 DEF OP!Older
    <2> QED
      BY <2>1, <2>2, <2>3, <2>4
  <1>7. OP!ReadersServed'
    <2> SUFFICES ASSUME manual = 0, \A k \in OP!Key : OP!Exists(k)' PROVE OP!Valid(OP!Values(rows'))
      BY <1>1 DEF OP!ReadersServed
    <2>1. OP!Values(rows') = OP!Result(tx[p])
      BY OptionWrites DEF OP!Values, OP!Result
    <2> QED
      BY <1>1, <2>1 DEF OP!Knows
  <1>8. ASSUME NEW q \in OP!Caller PROVE OP!Knows(q, tx[q])'
    <2>1. CASE q = p
      BY <1>2, <2>1, OptionNoTx DEF OP!Knows
    <2>2. CASE q # p /\ tx[q].at = "flushed"
      <3>1. DOMAIN tx[p].new = {}
        BY <1>1, <2>2, OptionAlone
      <3>2. rows' = rows
        BY <1>1, <3>1, OptionWrites
      <3>3. OP!Knows(q, tx[q])
        BY OptionShapes
      <3> QED
        BY <1>1, <1>2, <2>2, <3>2, <3>3 DEF OP!Knows, OP!Exists, OP!Older, OP!Result
    <2>3. CASE q # p /\ tx[q].at # "flushed"
      <3>1. OP!Knows(q, tx[q]) /\ tx[q].have \subseteq OP!Key
        BY OptionShapes DEF OP!Transaction
      <3>2. q \in Admin /\ tx[q].at # "idle" => tx[q].seen \in [OP!Key -> OP!Row] /\ (manual' = 0 => OP!Older(tx[q].seen)')
        BY <1>1, <1>2, <1>6, <2>3, <3>1 DEF OP!Knows, OP!Older
      <3>3. \A k \in tx[q].have : OP!Exists(k)'
        BY <1>5, <3>1 DEF OP!Knows
      <3> QED
        BY <1>2, <2>3, <3>1, <3>2, <3>3 DEF OP!Knows, OP!Older
    <2> QED
      BY <2>1, <2>2, <2>3
  <1>9. ASSUME NEW q \in OP!Caller, NEW r \in OP!Caller, q # r PROVE OP!Apart(tx'[q], tx'[r])
    <2>1. OP!Apart(tx[q], tx[r])
      BY <1>9, OptionShapes
    <2> QED
      BY <1>2, <1>9, <2>1, OptionNoTx DEF OP!Apart
  <1>10. ASSUME manual = 0, NEW a \in Admin PROVE OP!Older(page[a])'
    <2>1. CASE page'[a] = page[a]
      <3>1. OP!Older(page[a]) /\ page[a] \in [OP!Key -> OP!Row]
        BY <1>10 DEF OP!OptionsInv, OP!Shapes
      <3> QED
        BY <1>6, <2>1, <3>1 DEF OP!Older
    <2>2. CASE page'[a] = rows'
      BY <2>2, OptionWrites DEF OP!Older
    <2> QED
      BY <1>3, <2>1, <2>2
  <1> QED
    BY <1>1, <1>4, <1>7, <1>8, <1>9, <1>10, OptionAudits DEF OP!OptionsInv, OP!Apart

\* An edit by hand is of a row that no transaction has locked.
LEMMA OptionEdited ==
  ASSUME OP!Parameters, OP!OptionsInv, OP!EditByHand
  PROVE  OP!OptionsInv'
  <1>1. PICK k \in OP!Key, v \in UNION {Bounds[j] : j \in OP!Key} :
          /\ manual < MaxManual /\ OP!Exists(k) /\ OP!Holder(k) = {}
          /\ rows' = [rows EXCEPT ![k].value = v] /\ manual' = manual + 1
          /\ UNCHANGED <<audit, tx, page>>
    BY DEF OP!EditByHand
  <1>2. manual \in 0..MaxManual /\ MaxManual \in Nat /\ manual' # 0 /\ manual' \in 0..MaxManual
    BY <1>1 DEF OP!OptionsInv, OP!Shapes, OP!Parameters
  <1>3. rows \in [OP!Key -> OP!Row] /\ v \in OP!Value
    BY DEF OP!OptionsInv, OP!Shapes, OP!Value
  <1>4. rows' \in [OP!Key -> OP!Row] /\ \A j \in OP!Key : rows'[j].version = rows[j].version
    BY <1>1, <1>3 DEF OP!Row
  <1>5. OP!Shapes'
    BY <1>1, <1>2, <1>4 DEF OP!OptionsInv, OP!Shapes
  <1>6. ASSUME NEW q \in OP!Caller PROVE OP!Knows(q, tx[q])'
    <2>1. OP!Knows(q, tx[q]) /\ tx[q] \in OP!Transaction
      BY OptionShapes
    <2>2. \A j \in tx[q].have : j \in OP!Key
      BY <2>1 DEF OP!Transaction
    <2> QED
      BY <1>1, <1>2, <1>4, <2>1, <2>2 DEF OP!Knows, OP!Exists
  <1> QED
    BY <1>1, <1>2, <1>5, <1>6 DEF OP!OptionsInv, OP!ReadersServed, OP!AuditExact, OP!Apart

\* At first nobody has locked anything, and each row there is has its first version.
LEMMA OptionInit == ASSUME OP!Parameters, OP!Init PROVE OP!OptionsInv
  <1>1. \A k \in OP!Key : /\ k \in Present => rows[k].value = Default[k] /\ rows[k].version = 1
                          /\ k \notin Present => rows[k].value = 0 /\ rows[k].version = 0
    <2> SUFFICES ASSUME NEW k \in OP!Key
                 PROVE  /\ k \in Present => rows[k].value = Default[k] /\ rows[k].version = 1
                        /\ k \notin Present => rows[k].value = 0 /\ rows[k].version = 0
      OBVIOUS
    <2>1. k \in Present => rows[k] = [value |-> Default[k], version |-> 1]
      BY DEF OP!Init
    <2>2. k \notin Present => rows[k] = [value |-> 0, version |-> 0]
      BY DEF OP!Init, OP!Missing
    <2> QED
      BY <2>1, <2>2
  <1>2. MaxVersion \in Nat \ {0} /\ MaxManual \in Nat /\ \A k \in OP!Key : Default[k] \in OP!Value /\ 0 \in OP!Value
    BY DEF OP!Parameters, OP!Value
  <1>3. rows \in [OP!Key -> OP!Row]
    <2>1. 0 \in 0..MaxVersion /\ 1 \in 0..MaxVersion
      BY <1>2
    <2> QED
      BY <1>2, <2>1 DEF OP!Init, OP!Row, OP!Missing
  <1>4. audit \in [OP!Key -> Seq([version : Nat, old : OP!Value, new : OP!Value])]
    <2> DEFINE Event == [version : Nat, old : OP!Value, new : OP!Value]
               e(k) == [version |-> 1, old |-> 0, new |-> Default[k]]
    <2>1. \A k \in OP!Key : e(k) \in Event
      BY <1>2
    <2>2. audit = [k \in OP!Key |-> IF k \in Present THEN <<e(k)>> ELSE <<>>]
      BY DEF OP!Init
    <2> HIDE DEF Event, e
    <2>3. \A k \in OP!Key : <<e(k)>> \in Seq(Event) /\ <<>> \in Seq(Event)
      BY <2>1
    <2>4. audit \in [OP!Key -> Seq(Event)]
      BY <2>2, <2>3
    <2> QED
      BY <2>4 DEF Event
  <1>5. tx \in [OP!Caller -> OP!Transaction] /\ \A p \in OP!Caller : tx[p] = OP!NoTx
    BY OptionNoTx DEF OP!Init
  <1>6. page \in [Admin -> [OP!Key -> OP!Row]] /\ \A p \in Admin : page[p] = rows
    BY <1>3 DEF OP!Init
  <1>7. manual = 0 /\ manual \in 0..MaxManual
    BY <1>2 DEF OP!Init
  <1>8. OP!Shapes
    BY <1>3, <1>4, <1>5, <1>6, <1>7 DEF OP!Shapes
  <1>9. OP!ReadersServed
    <2> SUFFICES ASSUME \A k \in OP!Key : OP!Exists(k) PROVE OP!Valid(OP!Values(rows))
      BY DEF OP!ReadersServed
    <2>1. \A k \in OP!Key : rows[k].value = Default[k]
      BY <1>1 DEF OP!Exists
    <2>2. OP!Values(rows) = [k \in OP!Key |-> Default[k]]
      BY <2>1 DEF OP!Values
    <2> QED
      BY <2>2 DEF OP!Parameters
  <1>10. OP!AuditExact
    <2> SUFFICES ASSUME NEW k \in OP!Key
                 PROVE  /\ Len(audit[k]) = rows[k].version
                        /\ \A i \in 1..Len(audit[k]) : audit[k][i].version = i
                        /\ \A i \in 1..(Len(audit[k]) - 1) : audit[k][i].new = audit[k][i + 1].old
                        /\ rows[k].version > 0 => audit[k][Len(audit[k])].new = rows[k].value
      BY DEF OP!AuditExact, OP!Exists, OP!Last
    <2>1. CASE k \in Present
      <3>1. audit[k] = <<[version |-> 1, old |-> 0, new |-> Default[k]]>>
        BY <2>1 DEF OP!Init
      <3>2. Len(audit[k]) = 1 /\ audit[k][1] = [version |-> 1, old |-> 0, new |-> Default[k]]
        BY <3>1
      <3> QED
        <4>1. rows[k].version = 1 /\ rows[k].value = Default[k]
          BY <1>1, <2>1
        <4>2. 1..Len(audit[k]) = {1} /\ 1..(Len(audit[k]) - 1) = {}
          BY <3>2
        <4> QED
          BY <3>2, <4>1, <4>2
    <2>2. CASE k \notin Present
      <3>1. audit[k] = <<>>
        BY <2>2 DEF OP!Init
      <3>2. Len(audit[k]) = 0
        BY <3>1
      <3> QED
        <4>1. rows[k].version = 0
          BY <1>1, <2>2
        <4>2. 1..Len(audit[k]) = {} /\ 1..(Len(audit[k]) - 1) = {}
          BY <3>2
        <4> QED
          BY <3>2, <4>1, <4>2
    <2> QED
      BY <2>1, <2>2
  <1>11. \A p \in OP!Caller : OP!Knows(p, tx[p])
    BY <1>5, OptionNoTx DEF OP!Knows
  <1>12. \A p, q \in OP!Caller : p # q => OP!Apart(tx[p], tx[q])
    BY <1>5, OptionNoTx DEF OP!Apart
  <1>13. \A p \in Admin : OP!Older(page[p])
    <2>1. \A k \in OP!Key : rows[k].version \in Nat
      BY <1>1
    <2> QED
      BY <1>6, <2>1 DEF OP!Older
  <1> QED
    BY <1>8, <1>9, <1>10, <1>11, <1>12, <1>13 DEF OP!OptionsInv

\* Every step keeps the invariant.
LEMMA OptionsKept ==
  ASSUME OP!Parameters, OP!OptionsInv, [OP!Next]_OP!vars
  PROVE  OP!OptionsInv'
  <1>1. CASE UNCHANGED OP!vars
    <2>1. UNCHANGED <<rows, audit, tx, page, manual>>
      BY <1>1 DEF OP!vars
    <2>2. (OP!Shapes /\ OP!ReadersServed /\ OP!AuditExact)'
      BY <2>1 DEF OP!OptionsInv, OP!Shapes, OP!ReadersServed, OP!AuditExact, OP!Exists, OP!Values
    <2>3. \A p \in OP!Caller : OP!Knows(p, tx[p])'
      BY <2>1 DEF OP!OptionsInv, OP!Knows, OP!Older, OP!Exists, OP!Result
    <2>4. (\A p, q \in OP!Caller : p # q => OP!Apart(tx[p], tx[q]))'
      BY <2>1 DEF OP!OptionsInv, OP!Apart
    <2>5. (manual = 0 => \A p \in Admin : OP!Older(page[p]))'
      BY <2>1 DEF OP!OptionsInv, OP!Older
    <2> QED
      BY <2>2, <2>3, <2>4, <2>5 DEF OP!OptionsInv
  <1>2. ASSUME NEW p \in OP!Caller, OP!Lost(p) PROVE OP!OptionsInv'
    BY <1>2, OptionAborts DEF OP!Lost
  <1>3. Admin \subseteq OP!Caller /\ Service \subseteq OP!Caller
    BY DEF OP!Caller
  <1> QED
    BY <1>1, <1>2, <1>3, OptionLocks, OptionCommits, OptionShows, OptionSubmits, OptionUpdates, OptionChecks,
       OptionInserts, OptionEdited DEF OP!Next

\* The invariant of the options holds in every state.
THEOREM OptionsStand == ASSUME OP!Parameters PROVE OP!Spec => []OP!OptionsInv
  <1>1. OP!Init => OP!OptionsInv
    BY OptionInit
  <1>2. OP!OptionsInv /\ [OP!Next]_OP!vars => OP!OptionsInv'
    BY OptionsKept
  <1> QED
    BY <1>1, <1>2, PTL DEF OP!Spec

\* Readers of the options find a valid state and the audit is the history of every option, until
\* somebody edits a row by hand; types are right, and a row is locked by one transaction.
THEOREM OptionsServed ==
  ASSUME OP!Parameters
  PROVE  OP!Spec => [](OP!TypeOK /\ OP!ReadersServed /\ OP!AuditExact)
  <1>1. OP!OptionsInv => OP!TypeOK /\ OP!ReadersServed /\ OP!AuditExact
    <2> SUFFICES ASSUME OP!OptionsInv PROVE OP!TypeOK
      BY DEF OP!OptionsInv
    <2>1. \A k \in OP!Key : rows[k].version \in 0..MaxVersion /\ rows[k].value \in Nat
      <3>1. OP!Value \subseteq Nat
        BY DEF OP!Value, OP!Parameters
      <3> QED
        BY <3>1 DEF OP!OptionsInv, OP!Shapes, OP!Row
    <2>2. \A p \in OP!Caller : tx[p].at \in {"idle", "locking", "flushed"} /\ tx[p].locked \subseteq tx[p].have
      BY OptionShapes DEF OP!Transaction, OP!Knows
    <2>3. \A p, q \in OP!Caller : p # q => tx[p].locked \cap tx[q].locked = {}
      BY DEF OP!OptionsInv, OP!Apart
    <2> QED
      BY <2>1, <2>2, <2>3 DEF OP!TypeOK, OP!OptionsInv, OP!Shapes
  <1> QED
    BY <1>1, OptionsStand, PTL

\* update compares the versions under all the row locks: a change made from a page never
\* overwrites a value that the page did not show.
THEOREM OptionsNotLost == ASSUME OP!Parameters PROVE OP!Spec => OP!NoLostUpdate
  <1>1. OP!OptionsInv => OP!NoLostUpdateStep
    <2> SUFFICES ASSUME OP!OptionsInv, NEW p \in Admin, tx[p].at = "flushed", tx[p].guarded, manual = 0,
                        NEW k \in DOMAIN tx[p].new
                 PROVE  rows[k].value = tx[p].seen[k].value
      BY DEF OP!NoLostUpdateStep
    <2>1. p \in OP!Caller
      BY DEF OP!Caller
    <2> QED
      BY <2>1, OptionShapes DEF OP!Knows
  <1>2. OP!NoLostUpdateStep => [OP!NoLostUpdateStep]_OP!vars
    OBVIOUS
  <1> QED
    BY <1>1, <1>2, OptionsStand, PTL DEF OP!Spec, OP!NoLostUpdate

-----------------------------------------------------------------------------
(* The account of a torrent                                                *)

\* A job at its beginning.
LEMMA RoutingNoJob ==
  AR!NoJob \in AR!Job /\ AR!NoJob.at = "idle"
  BY DEF AR!NoJob, AR!Job, AR!Account, AR!Route

\* A step of one job: the row stays as it is or was not recorded under a slot, and what
\* qBittorrent holds afterwards it held before or has under the route of the job.
LEMMA RoutingStep ==
  ASSUME AR!Parameters, AR!RoutingInv, NEW w \in Worker, NEW j \in AR!Job,
         job' = [job EXCEPT ![w] = j],
         ref' \in AR!Account \cup {AR!None}, ref \in Slot => ref' = ref,
         ref' = ref \/ holder = w,
         qb' = qb \/ (qb' \in AR!Route \cup {AR!None} /\ (qb' \in Slot => ref' = qb')),
         activity' \in AR!Account \cup {AR!None}, key' = key,
         holder' = holder \/ (holder = AR!None /\ holder' = w) \/ (holder = w /\ holder' = AR!None),
         j.at \in {"locked", "routes"} <=> holder' = w,
         j.at \in {"locked", "routes"} => j.seen = ref',
         j.at \in {"resolved", "added"} /\ j.route \in Slot => ref' = j.route,
         j.at # "unroutable"
  PROVE  AR!RoutingInv'
  <1>1. job' \in [Worker -> AR!Job] /\ job'[w] = j /\ \A v \in Worker : v # w => job'[v] = job[v]
    BY DEF AR!RoutingInv
  <1>2. AR!AddedUnderRecord'
    BY DEF AR!RoutingInv, AR!AddedUnderRecord
  <1>3. AR!TypeOK'
    <2>1. \A v \in Worker : job'[v].routes \subseteq AR!Account
      BY <1>1 DEF AR!Job, AR!Route, AR!Account
    <2>2. qb' \in AR!Account \cup {AR!None} /\ holder' \in Worker \cup {AR!None}
      BY DEF AR!RoutingInv, AR!TypeOK, AR!Route, AR!Account
    <2> QED
      BY <2>1, <2>2 DEF AR!RoutingInv, AR!TypeOK
  <1>4. ASSUME NEW v \in Worker PROVE AR!Holds(v, job[v])'
    <2>1. CASE v = w
      BY <1>1, <2>1 DEF AR!Holds
    <2>2. CASE v # w
      <3>1. AR!Holds(v, job[v]) /\ AR!Holds(w, job[w]) /\ AR!None # v
        BY DEF AR!RoutingInv, AR!Parameters
      <3> QED
        BY <1>1, <2>2, <3>1 DEF AR!Holds
    <2> QED
      BY <2>1, <2>2
  <1> QED
    BY <1>1, <1>2, <1>3, <1>4 DEF AR!RoutingInv

\* What a worker does on the way to its decision leaves the row alone.
LEMMA RoutingReads ==
  ASSUME AR!Parameters, AR!RoutingInv, NEW w \in Worker,
         AR!Lock(w) \/ AR!Snapshot(w) \/ AR!Inspect(w) \/ AR!Inspected(w)
  PROVE  AR!RoutingInv' /\ ref' = ref
  <1>1. /\ job[w] \in AR!Job /\ AR!Holds(w, job[w]) /\ w # AR!None /\ AR!TypeOK
        /\ ref \in AR!Account \cup {AR!None} /\ qb \in AR!Account \cup {AR!None}
        /\ activity \in AR!Account \cup {AR!None}
    BY DEF AR!RoutingInv, AR!Parameters, AR!TypeOK
  <1>2. CASE AR!Lock(w)
    <2> DEFINE j == [AR!NoJob EXCEPT !.at = "locked", !.seen = ref]
    <2>1. j \in AR!Job /\ j.at = "locked" /\ j.seen = ref
      BY <1>1 DEF AR!NoJob, AR!Job, AR!Account, AR!Route
    <2>2. job' = [job EXCEPT ![w] = j] /\ holder = AR!None /\ holder' = w /\ UNCHANGED <<ref, key, qb, activity>>
      BY <1>2 DEF AR!Lock, AR!RowFree
    <2> HIDE DEF j
    <2>3. /\ (j.at \in {"locked", "routes"} <=> holder' = w)
          /\ (j.at \in {"locked", "routes"} => j.seen = ref')
          /\ (j.at \in {"resolved", "added"} /\ j.route \in Slot => ref' = j.route)
      BY <2>1, <2>2 DEF AR!Holds
    <2> QED
      BY <1>1, <2>1, <2>2, <2>3, RoutingStep
  <1>3. CASE AR!Snapshot(w)
    <2> DEFINE j == [job[w] EXCEPT !.at = "routes", !.routes = AR!Selectable, !.heir = AR!Heir]
    <2>1. AR!Selectable \subseteq AR!Route /\ AR!Heir \in Slot \cup {AR!None}
      BY DEF AR!Selectable, AR!Configured, AR!Heir, AR!Route
    <2>2. j \in AR!Job /\ j.at = "routes" /\ j.seen = job[w].seen
      BY <1>1, <2>1 DEF AR!Job
    <2>3. job' = [job EXCEPT ![w] = j] /\ job[w].at = "locked" /\ UNCHANGED <<ref, key, holder, qb, activity>>
      BY <1>3 DEF AR!Snapshot
    <2> HIDE DEF j
    <2>4. /\ (j.at \in {"locked", "routes"} <=> holder' = w)
          /\ (j.at \in {"locked", "routes"} => j.seen = ref')
          /\ (j.at \in {"resolved", "added"} /\ j.route \in Slot => ref' = j.route)
      BY <1>1, <2>2, <2>3 DEF AR!Holds
    <2> QED
      BY <1>1, <2>2, <2>3, <2>4, RoutingStep
  <1>4. CASE AR!Inspect(w)
    <2> DEFINE j == [job[w] EXCEPT !.at = "inspected"]
    <2>1. j \in AR!Job /\ j.at = "inspected"
      BY <1>1 DEF AR!Job
    <2>2. job' = [job EXCEPT ![w] = j] /\ job[w].at = "idle" /\ UNCHANGED <<ref, key, holder, qb, activity>>
      BY <1>4 DEF AR!Inspect
    <2> HIDE DEF j
    <2>3. /\ (j.at \in {"locked", "routes"} <=> holder' = w)
          /\ (j.at \in {"locked", "routes"} => j.seen = ref')
          /\ (j.at \in {"resolved", "added"} /\ j.route \in Slot => ref' = j.route)
      BY <1>1, <2>1, <2>2 DEF AR!Holds
    <2> QED
      BY <1>1, <2>1, <2>2, <2>3, RoutingStep
  <1>5. CASE AR!Inspected(w)
    <2>1. /\ job' = [job EXCEPT ![w] = AR!NoJob] /\ job[w].at = "inspected"
          /\ UNCHANGED <<ref, key, holder, qb, activity>>
      BY <1>5 DEF AR!Inspected, AR!Failed
    <2>2. AR!NoJob.at \notin {"locked", "routes", "resolved", "added"} /\ holder' # w
      BY <1>1, <2>1, RoutingNoJob DEF AR!Holds
    <2> QED
      BY <1>1, <2>1, <2>2, RoutingNoJob, RoutingStep
  <1> QED
    BY <1>2, <1>3, <1>4, <1>5

\* A decision under the row's lock: what was recorded under a slot stays.
LEMMA RoutingDecides ==
  ASSUME AR!Parameters, AR!RoutingInv, NEW w \in Worker,
         AR!Assign(w) \/ AR!Keep(w) \/ AR!Inherit(w) \/ AR!Reroute(w) \/ AR!Unavailable(w)
  PROVE  AR!RoutingInv' /\ AR!RouteStickyStep
  <1>1. /\ job[w] \in AR!Job /\ AR!Holds(w, job[w]) /\ AR!TypeOK
        /\ ref \in AR!Account \cup {AR!None} /\ activity \in AR!Account \cup {AR!None}
    BY DEF AR!RoutingInv, AR!TypeOK
  <1>2. AR!Deciding(w)
    BY DEF AR!Assign, AR!Keep, AR!Inherit, AR!Reroute, AR!Unavailable
  <1>3. /\ job[w].at = "routes" /\ holder = w /\ holder' = AR!None /\ job[w].seen = ref
        /\ UNCHANGED <<key, legacy, qb, activity>> /\ w # AR!None
        /\ AR!None \notin Slot /\ "legacy" \notin Slot /\ "old" \notin Slot
    BY <1>1, <1>2 DEF AR!Deciding, AR!Holds, AR!Parameters
  <1>4. ASSUME AR!Failed(w), ref' = ref PROVE AR!RoutingInv' /\ AR!RouteStickyStep
    <2>1. AR!NoJob.at \notin {"locked", "routes", "resolved", "added"} /\ holder' # w
      BY <1>3, RoutingNoJob DEF AR!Holds
    <2> QED
      BY <1>1, <1>3, <1>4, <2>1, RoutingNoJob, RoutingStep DEF AR!Failed, AR!RouteStickyStep
  <1>5. ASSUME NEW r \in AR!Route, AR!Resolved(w, r), ref \in Slot => ref' = ref,
               ref' \in AR!Account \cup {AR!None}, r \in Slot => ref' = r
        PROVE  AR!RoutingInv' /\ AR!RouteStickyStep
    <2> DEFINE j == [job[w] EXCEPT !.at = "resolved", !.route = r]
    <2>1. j \in AR!Job /\ j.at = "resolved" /\ j.route = r
      BY <1>1 DEF AR!Job
    <2>2. job' = [job EXCEPT ![w] = j]
      BY <1>5 DEF AR!Resolved
    <2> HIDE DEF j
    <2>3. /\ (j.at \in {"locked", "routes"} <=> holder' = w)
          /\ (j.at \in {"locked", "routes"} => j.seen = ref')
          /\ (j.at \in {"resolved", "added"} /\ j.route \in Slot => ref' = j.route)
      BY <1>3, <1>5, <2>1 DEF AR!Holds
    <2>4. AR!RoutingInv'
      BY <1>1, <1>3, <1>5, <2>1, <2>2, <2>3, RoutingStep
    <2> QED
      BY <1>5, <2>4 DEF AR!RouteStickyStep
  <1>6. AR!Route \subseteq AR!Account
    BY DEF AR!Route, AR!Account
  <1>7. ASSUME NEW r \in AR!Route, AR!Record(w, r), ref \notin Slot PROVE AR!RoutingInv' /\ AR!RouteStickyStep
    <2>1. AR!Resolved(w, r) /\ ref' = r
      BY <1>7 DEF AR!Record
    <2> QED
      BY <1>5, <1>6, <1>7, <2>1
  <1>8. job[w].routes \subseteq AR!Route /\ job[w].heir \in Slot \cup {AR!None}
    BY <1>1 DEF AR!Job
  <1>9. CASE AR!Assign(w)
    BY <1>3, <1>4, <1>7, <1>8, <1>9 DEF AR!Assign
  <1>10. CASE AR!Keep(w)
    BY <1>1, <1>3, <1>5, <1>8, <1>10 DEF AR!Keep
  <1>11. CASE AR!Inherit(w)
    BY <1>1, <1>3, <1>5, <1>7, <1>8, <1>11 DEF AR!Inherit, AR!Route
  <1>12. CASE AR!Reroute(w)
    <2>1. AR!Unknown(job[w]).routes = job[w].routes /\ AR!Unknown(job[w]).seen \in {ref, "old"}
          /\ (AR!Unknown(job[w]).seen # ref => ref = "legacy")
      BY <1>1, <1>3 DEF AR!Unknown, AR!Job
    <2>2. ref \notin Slot
      BY <1>3, <1>12, <2>1 DEF AR!Reroute, AR!Reroutable
    <2> QED
      BY <1>7, <1>8, <1>12, <2>1, <2>2 DEF AR!Reroute
  <1>13. CASE AR!Unavailable(w)
    BY <1>4, <1>13 DEF AR!Unavailable
  <1> QED
    BY <1>9, <1>10, <1>11, <1>12, <1>13

\* The torrent is added under the route that the row records, and the job ends.
LEMMA RoutingAdds ==
  ASSUME AR!Parameters, AR!RoutingInv, NEW w \in Worker, AR!Add(w) \/ AR!Commit(w)
  PROVE  AR!RoutingInv' /\ ref' = ref
  <1>1. /\ job[w] \in AR!Job /\ AR!Holds(w, job[w]) /\ AR!TypeOK /\ w # AR!None
        /\ ref \in AR!Account \cup {AR!None} /\ activity \in AR!Account \cup {AR!None}
        /\ job[w].route \in AR!Route \cup {AR!None}
    BY DEF AR!RoutingInv, AR!TypeOK, AR!Parameters, AR!Job
  <1>2. job[w].at \in {"resolved", "added"} /\ UNCHANGED <<ref, key, holder>>
    BY DEF AR!Add, AR!Commit
  <1>3. qb' = qb \/ qb' = job[w].route
    BY DEF AR!Add, AR!Commit
  <1>4. qb' = qb \/ (qb' \in AR!Route \cup {AR!None} /\ (qb' \in Slot => ref' = qb'))
    BY <1>1, <1>2, <1>3 DEF AR!Holds
  <1>5. activity' \in AR!Account \cup {AR!None}
    BY <1>1 DEF AR!Add, AR!Commit
  <1>6. CASE AR!Failed(w)
    <2>1. AR!NoJob.at \notin {"locked", "routes", "resolved", "added"} /\ holder' # w
      BY <1>1, <1>2, RoutingNoJob DEF AR!Holds
    <2> QED
      BY <1>1, <1>2, <1>4, <1>5, <1>6, <2>1, RoutingNoJob, RoutingStep DEF AR!Failed
  <1>7. CASE job' = [job EXCEPT ![w].at = "added"]
    <2> DEFINE j == [job[w] EXCEPT !.at = "added"]
    <2>1. j \in AR!Job /\ j.at = "added" /\ j.route = job[w].route
      BY <1>1 DEF AR!Job
    <2>2. job' = [job EXCEPT ![w] = j]
      BY <1>7
    <2> HIDE DEF j
    <2>3. /\ (j.at \in {"locked", "routes"} <=> holder' = w)
          /\ (j.at \in {"locked", "routes"} => j.seen = ref')
          /\ (j.at \in {"resolved", "added"} /\ j.route \in Slot => ref' = j.route)
      BY <1>1, <1>2, <2>1 DEF AR!Holds
    <2> QED
      BY <1>1, <1>2, <1>4, <1>5, <2>1, <2>2, <2>3, RoutingStep
  <1> QED
    BY <1>6, <1>7 DEF AR!Add, AR!Commit

\* The administrator and a new deployment leave the row and qBittorrent alone.
LEMMA RoutingConfigured ==
  ASSUME AR!Parameters, AR!RoutingInv,
         AR!Redeploy \/ (\E s \in Slot : AR!Empty(s) \/ \E p \in Passkey : AR!Configure(s, p))
  PROVE  AR!RoutingInv' /\ ref' = ref
  <1>1. UNCHANGED <<ref, qb, activity>>
    BY DEF AR!Redeploy, AR!Empty, AR!Configure
  <1>2. CASE AR!Redeploy
    <2>1. key' = key /\ holder' = AR!None /\ job' = [w \in Worker |-> AR!NoJob]
      BY <1>2 DEF AR!Redeploy
    <2>2. job' \in [Worker -> AR!Job] /\ \A w \in Worker : job'[w] = AR!NoJob /\ w # AR!None
      BY <2>1, RoutingNoJob DEF AR!Parameters
    <2>3. \A w \in Worker : AR!Holds(w, job[w])'
      BY <2>1, <2>2, RoutingNoJob DEF AR!Holds
    <2>4. \A w \in Worker : job'[w].routes \subseteq AR!Account
      BY <2>2 DEF AR!Job, AR!Route, AR!Account
    <2> QED
      BY <1>1, <2>1, <2>2, <2>3, <2>4 DEF AR!RoutingInv, AR!TypeOK, AR!AddedUnderRecord
  <1>3. CASE \E s \in Slot : AR!Empty(s) \/ \E p \in Passkey : AR!Configure(s, p)
    <2>1. UNCHANGED <<holder, job>> /\ key' \in [Slot -> Passkey \cup {AR!None}]
      BY <1>3 DEF AR!Empty, AR!Configure, AR!RoutingInv, AR!TypeOK
    <2> QED
      BY <1>1, <2>1 DEF AR!RoutingInv, AR!TypeOK, AR!AddedUnderRecord, AR!Holds
  <1> QED
    BY <1>1, <1>2, <1>3

\* At first no job has read anything.
LEMMA RoutingInit == ASSUME AR!Parameters, AR!Init PROVE AR!RoutingInv
  <1>1. job \in [Worker -> AR!Job] /\ \A w \in Worker : job[w] = AR!NoJob /\ w # AR!None
    BY RoutingNoJob DEF AR!Init, AR!Parameters
  <1>2. \A w \in Worker : AR!Holds(w, job[w]) /\ job[w].routes \subseteq AR!Account
    BY <1>1, RoutingNoJob DEF AR!Holds, AR!Init, AR!Job, AR!Route, AR!Account
  <1>3. AR!None \notin Slot /\ qb = AR!None
    BY DEF AR!Parameters, AR!Init
  <1> QED
    BY <1>1, <1>2, <1>3 DEF AR!RoutingInv, AR!TypeOK, AR!AddedUnderRecord, AR!Init, AR!Account

\* Every step keeps the invariant, and what is recorded under a slot.
LEMMA RoutingKept ==
  ASSUME AR!Parameters, AR!RoutingInv, [AR!Next]_AR!vars
  PROVE  AR!RoutingInv' /\ AR!RouteStickyStep
  <1>1. CASE UNCHANGED AR!vars
    BY <1>1 DEF AR!vars, AR!RoutingInv, AR!TypeOK, AR!AddedUnderRecord, AR!Holds, AR!RouteStickyStep
  <1>2. CASE AR!Next
    BY <1>2, RoutingReads, RoutingDecides, RoutingAdds, RoutingConfigured DEF AR!Next, AR!RouteStickyStep
  <1> QED
    BY <1>1, <1>2

\* Whatever is done with the slots, a torrent is in qBittorrent under the slot its row records;
\* types are right.
THEOREM RoutesRecorded ==
  ASSUME AR!Parameters
  PROVE  AR!Spec => [](AR!TypeOK /\ AR!AddedUnderRecord)
  <1>1. AR!Init => AR!RoutingInv
    BY RoutingInit
  <1>2. AR!RoutingInv /\ [AR!Next]_AR!vars => AR!RoutingInv'
    BY RoutingKept
  <1>3. AR!RoutingInv => AR!TypeOK /\ AR!AddedUnderRecord
    BY DEF AR!RoutingInv
  <1> QED
    BY <1>1, <1>2, <1>3, PTL DEF AR!Spec

\* A torrent recorded under a slot stays there, whichever of two workers decides and whatever the
\* administrator does with the slots in between.
THEOREM RoutesSticky == ASSUME AR!Parameters PROVE AR!Spec => AR!RouteSticky
  <1>1. AR!Init => AR!RoutingInv
    BY RoutingInit
  <1>2. AR!RoutingInv /\ [AR!Next]_AR!vars => AR!RoutingInv' /\ [AR!RouteStickyStep]_AR!vars
    BY RoutingKept
  <1> QED
    BY <1>1, <1>2, PTL DEF AR!Spec, AR!RouteSticky

=============================================================================
