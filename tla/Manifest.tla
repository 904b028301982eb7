------------------------------ MODULE Manifest ------------------------------
(***************************************************************************)
(* The manifest of one torrent: the rows of its files, which an addition   *)
(* writes, a purge deletes and downloads are made from                     *)
(* (torrents/manifest.py, jobs/torrent_effects.py, admin/reconciliation.py,*)
(* the download routes of api/routes/torrents_v2.py).                      *)
(*                                                                         *)
(* A client lists the files in several requests, keeps the snapshot id it  *)
(* was given and asks for files and archives with it.  Every request is a  *)
(* transaction of its own, and an addition that lost its claim may write   *)
(* the manifest in any state of the torrent.  A snapshot id is the hash of *)
(* the request, the version and the checksum: here, the three.             *)
(*                                                                         *)
(* A rewrite gives all files new ids, so a generation of rows stands for   *)
(* them.  A parse is what a deployment's parser makes of the torrent file; *)
(* it stands for its checksum.  TorrentLifecycle has the torrent's states  *)
(* in full: HELD is any of them that neither adds nor serves, PURGE_PENDING*)
(* included.                                                               *)
(***************************************************************************)
EXTENDS Naturals

CONSTANTS
    Client,       \* users, each with one browser
    Addition,     \* executions of ADD_TORRENT under way
    Parse,        \* manifests that parsers make of the torrent file
    Files,        \* [Parse -> number of files]
    NoParse,
    MaxRequests,  \* bound: requests made by all users
    MaxRewrites   \* bound: generations of rows

ManifestAssumption ==
    /\ NoParse \notin Parse
    /\ MaxRequests \in Nat /\ MaxRewrites \in Nat

VARIABLES
    state,     \* ManagedTorrent.state
    version,   \* manifest_version, 0 if there is no manifest
    checksum,  \* manifest_checksum
    rows,      \* the TorrentFile rows
    written,   \* generations of rows written so far
    request,   \* the active TorrentRequest of each user, 0 if there is none
    requests,  \* TorrentRequest rows inserted so far
    parsed,    \* what each addition is about to write
    pages,     \* the pages each client has read under one snapshot id
    tree,      \* the directories it has read, or is being sent
    chosen,    \* what its download was checked against
    lease      \* what its live lease serves

catalogue == <<version, checksum, rows, written>>
rights == <<request, requests>>
clients == <<pages, tree, chosen>>
vars == <<state, catalogue, rights, parsed, clients, lease>>

NoRows == [gen |-> 0, parse |-> NoParse]
NoLabel == [request |-> 0, version |-> 0, checksum |-> NoParse]
Nothing == [label |-> NoLabel, request |-> 0, gen |-> 0]

Content == Parse \cup {NoParse}
RowSet == [gen : Nat, parse : Content]
Label == [request : Nat, version : Nat, checksum : Content]
Choice == [label : Label, request : Nat, gen : Nat]

TypeOK ==
    /\ state \in {"WAITING", "HELD", "READY", "PURGING", "PURGED"}
    /\ version \in Nat /\ checksum \in Content /\ rows \in RowSet /\ written \in Nat
    /\ request \in [Client -> Nat] /\ requests \in Nat
    /\ parsed \in [Addition -> Content]
    /\ pages \in [Client -> [label : Label, read : SUBSET RowSet]]
    /\ tree \in [Client -> [label : Label, rows : RowSet]]
    /\ chosen \in [Client -> Choice] /\ lease \in [Client -> Choice]

Unread == [label |-> NoLabel, read |-> {}]
Undrawn == [label |-> NoLabel, rows |-> NoRows]

Init ==
    /\ state = "PURGED" /\ version = 0 /\ checksum = NoParse /\ rows = NoRows /\ written = 0
    /\ request = [c \in Client |-> 0] /\ requests = 0
    /\ parsed = [a \in Addition |-> NoParse]
    /\ pages = [c \in Client |-> Unread] /\ tree = [c \in Client |-> Undrawn]
    /\ chosen = [c \in Client |-> Nothing] /\ lease = [c \in Client |-> Nothing]

Held == \E c \in Client : request[c] # 0
Leased == \E c \in Client : lease[c] # Nothing

-----------------------------------------------------------------------------
(* The torrent                                                             *)

\* create_torrent_request for a user who has no active right: a new row
Ask(c) ==
    /\ state # "PURGING" /\ request[c] = 0 /\ requests < MaxRequests
    /\ requests' = requests + 1
    /\ request' = [request EXCEPT ![c] = requests + 1]
    /\ state' = IF state = "PURGED" THEN "WAITING" ELSE state
    /\ UNCHANGED <<catalogue, parsed, clients, lease>>

\* The right is cancelled or expires; a running download keeps its lease.
EndRight(c) ==
    /\ request[c] # 0
    /\ request' = [request EXCEPT ![c] = 0]
    /\ UNCHANGED <<state, catalogue, requests, parsed, clients, lease>>

\* Observations, failures and retries move the torrent; TorrentLifecycle says when.
Move(next) ==
    /\ state \notin {"PURGING", "PURGED"} /\ next \in {"WAITING", "HELD", "READY"} \ {state}
    /\ state' = next
    /\ UNCHANGED <<catalogue, rights, parsed, clients, lease>>

\* add_torrent up to the validation of the payload
StartAdd(a, p) ==
    /\ state = "WAITING" /\ parsed[a] = NoParse
    /\ parsed' = [parsed EXCEPT ![a] = p]
    /\ UNCHANGED <<state, catalogue, rights, clients, lease>>

Delivered(a) == parsed' = [parsed EXCEPT ![a] = NoParse]

\* The leases of deleted files are deleted with them.
DeleteRows == lease' = [c \in Client |-> Nothing]

NewRows(p) == [gen |-> written + 1, parse |-> p]

\* Mutated form: the first version again, as for a new manifest.
RewriteAsFirst(p) ==
    /\ DeleteRows
    /\ rows' = NewRows(p) /\ written' = written + 1
    /\ version' = 1 /\ checksum' = p

\* replace_torrent_manifest when something changed
Rewrite(p) ==
    /\ DeleteRows
    /\ rows' = NewRows(p) /\ written' = written + 1
    /\ version' = version + 1 /\ checksum' = p

\* The same entries are written already, and all of them are stored.
Written(p) == version >= 1 /\ checksum = p /\ Files[rows.parse] = Files[p]

\* add_torrent writes the manifest in a transaction that looks at neither its claim nor
\* the state of the torrent.
WriteManifest(a) ==
    /\ parsed[a] # NoParse
    /\ IF Written(parsed[a]) THEN UNCHANGED <<catalogue, lease>>
       ELSE written < MaxRewrites /\ Rewrite(parsed[a])
    /\ Delivered(a)
    /\ UNCHANGED <<state, rights, clients>>

\* The addition fails, or another one finds the torrent added.
AbandonAdd(a) ==
    /\ parsed[a] # NoParse
    /\ Delivered(a)
    /\ UNCHANGED <<state, catalogue, rights, clients, lease>>

\* purge_torrent begins to delete: nobody holds or downloads the torrent.
BeginPurge ==
    /\ state \notin {"PURGING", "PURGED"} /\ ~Held /\ ~Leased
    /\ state' = "PURGING"
    /\ UNCHANGED <<catalogue, rights, parsed, clients, lease>>

NoManifest ==
    /\ version' = 0 /\ checksum' = NoParse /\ rows' = NoRows /\ written' = written

\* purge_torrent commits.
Purge ==
    /\ state = "PURGING" /\ ~Held /\ ~Leased
    /\ state' = "PURGED" /\ NoManifest
    /\ UNCHANGED <<rights, parsed, clients, lease>>

\* recover_orphaned_torrent with purge_metadata
RecoverMetadata ==
    /\ state # "PURGED"
    /\ state' = "PURGED" /\ NoManifest /\ DeleteRows
    /\ request' = [c \in Client |-> 0]
    /\ UNCHANGED <<requests, parsed, clients>>

-----------------------------------------------------------------------------
(* The clients                                                             *)

\* The content is READY, and so is the client's right to it.
Serves(c) == request[c] # 0 /\ state = "READY" /\ version >= 1

\* download_snapshot_id
Snapshot(c) == [request |-> request[c], version |-> version, checksum |-> checksum]

\* Mutated form: the pages are not compared with the snapshot.
NextPageUnchecked(c) ==
    pages' = [pages EXCEPT ![c].read = @ \cup {rows}]

\* A page after the first one; if the content changed the client starts again.
NextPage(c) ==
    pages' = IF pages[c].label = Snapshot(c)
             THEN [pages EXCEPT ![c].read = @ \cup {rows}]
             ELSE [pages EXCEPT ![c] = Unread]

\* get_torrent_download_manifest
ReadPage(c) ==
    /\ Serves(c)
    /\ IF pages[c] = Unread
       THEN pages' = [pages EXCEPT ![c] = [label |-> Snapshot(c), read |-> {rows}]]
       ELSE NextPage(c)
    /\ UNCHANGED <<state, catalogue, rights, parsed, tree, chosen, lease>>

\* The client lists the files anew.
Relist(c) ==
    /\ pages[c] # Unread
    /\ pages' = [pages EXCEPT ![c] = Unread]
    /\ UNCHANGED <<state, catalogue, rights, parsed, tree, chosen, lease>>

\* get_torrent_download_directories: what the label is made of is read first, ...
ReadLabel(c) ==
    /\ Serves(c)
    /\ tree' = [tree EXCEPT ![c] = [label |-> Snapshot(c), rows |-> NoRows]]
    /\ UNCHANGED <<state, catalogue, rights, parsed, pages, chosen, lease>>

\* ... the rows in a second statement, without a lock: only their number is compared.
ReadTree(c) ==
    /\ tree[c].label # NoLabel /\ tree[c].rows = NoRows
    /\ tree' = [tree EXCEPT ![c] =
                  IF rows # NoRows /\ Files[rows.parse] = Files[@.label.checksum]
                  THEN [@ EXCEPT !.rows = rows] ELSE Undrawn]
    /\ UNCHANGED <<state, catalogue, rights, parsed, pages, chosen, lease>>

Labels(c) == {pages[c].label, tree[c].label} \ {NoLabel}
SeenRows(c) == (pages[c].read \cup {tree[c].rows}) \ {NoRows}

Idle(c) == chosen[c] = Nothing /\ lease[c] = Nothing

\* The checks of download_torrent_file: the id of a file names its row, a snapshot is
\* optional (l = NoLabel).
CheckFile(c, r, l) ==
    /\ Serves(c) /\ Idle(c)
    /\ r.gen = rows.gen /\ l \in {NoLabel, Snapshot(c)}
    /\ chosen' = [chosen EXCEPT ![c] = [label |-> l, request |-> request[c], gen |-> r.gen]]
    /\ UNCHANGED <<state, catalogue, rights, parsed, pages, tree, lease>>

\* Mutated form: the snapshot is not compared.
CheckArchiveUnlabelled(c, l) ==
    /\ Serves(c) /\ Idle(c)
    /\ chosen' = [chosen EXCEPT ![c] = [label |-> l, request |-> request[c], gen |-> rows.gen]]
    /\ UNCHANGED <<state, catalogue, rights, parsed, pages, tree, lease>>

\* The checks of download_torrent_folder_archive and download_torrent_archive: the
\* snapshot is required, and the files are those of the manifest.
CheckArchive(c, l) ==
    /\ Serves(c) /\ Idle(c)
    /\ l = Snapshot(c)
    /\ chosen' = [chosen EXCEPT ![c] = [label |-> l, request |-> request[c], gen |-> rows.gen]]
    /\ UNCHANGED <<state, catalogue, rights, parsed, pages, tree, lease>>

\* Mutated form: the file is not looked up again.
StillReady(c) == request[c] = chosen[c].request /\ state = "READY"

\* DownloadLeaseManager.acquire: the right, the torrent and the file (the first file of
\* an archive) are looked up again.
StillThere(c) ==
    /\ request[c] = chosen[c].request /\ state = "READY"
    /\ rows.gen = chosen[c].gen

Acquire(c) ==
    /\ chosen[c] # Nothing
    /\ chosen' = [chosen EXCEPT ![c] = Nothing]
    /\ lease' = IF StillThere(c) THEN [lease EXCEPT ![c] = chosen[c]] ELSE lease
    /\ UNCHANGED <<state, catalogue, rights, parsed, pages, tree>>

\* The download ends, or its lease expires.
Release(c) ==
    /\ lease[c] # Nothing
    /\ lease' = [lease EXCEPT ![c] = Nothing]
    /\ UNCHANGED <<state, catalogue, rights, parsed, clients>>

Torrent ==
    \/ \E c \in Client : Ask(c) \/ EndRight(c)
    \/ \E next \in {"WAITING", "HELD", "READY"} : Move(next)
    \/ \E a \in Addition : (\E p \in Parse : StartAdd(a, p)) \/ WriteManifest(a) \/ AbandonAdd(a)
    \/ BeginPurge \/ Purge \/ RecoverMetadata

Browser(c) ==
    \/ ReadPage(c) \/ Relist(c) \/ ReadLabel(c) \/ ReadTree(c)
    \/ \E r \in SeenRows(c), l \in Labels(c) \cup {NoLabel} : CheckFile(c, r, l)
    \/ \E l \in Labels(c) : CheckArchive(c, l)
    \/ Acquire(c) \/ Release(c)

Next == Torrent \/ \E c \in Client : Browser(c)

Spec == Init /\ [][Next]_vars

-----------------------------------------------------------------------------
(* Properties                                                              *)

\* The pages a client reads under one snapshot id are of one generation of rows, the one
\* whose checksum the id carries, however the manifest is rewritten in between.
PagesAgree ==
    \A c \in Client : \A r \in pages[c].read :
        /\ r.parse = pages[c].label.checksum
        /\ \A s \in pages[c].read : r = s

\* A download that was let in under a snapshot id serves the rows its client was shown
\* under that id, also when a list of directories was labelled before its rows were read.
ListedIsServed ==
    \A c \in Client : lease[c].label # NoLabel =>
        /\ lease[c].label = pages[c].label => \A r \in pages[c].read : r.gen = lease[c].gen
        /\ lease[c].label = tree[c].label => tree[c].rows.gen \in {NoRows.gen, lease[c].gen}

\* A lease holds rows that are still stored: whoever deletes the manifest waits for the
\* lease or deletes it, and a lease is not taken on rows replaced since they were chosen.
LeaseOnStoredRows ==
    \A c \in Client : lease[c] # Nothing => lease[c].gen = rows.gen /\ version >= 1

\* What a client is shown is what it gets, and it is stored.
ManifestServed == PagesAgree /\ ListedIsServed /\ LeaseOnStoredRows

-----------------------------------------------------------------------------
(* Why they hold: while a right is active the version only grows, and a new *)
(* version means new rows, so a label of that right with the version there *)
(* is now speaks of the rows there are now.                                *)

\* The version, the checksum and the rows change together.
CatalogueKept ==
    \/ version = 0 /\ checksum = NoParse /\ rows = NoRows
    \/ version >= 1 /\ checksum \in Parse /\ rows.parse = checksum /\ rows.gen \in 1..written

RightsKept == \A c \in Client : request[c] <= requests

\* A label names a request made and a version reached, if the right still stands.
LabelKept(c, l) ==
    /\ l.request \in 1..requests
    /\ l.request = request[c] => l.version <= version

Stands(c, l) == l.request = request[c] /\ l.version = version

PagesKept(c) ==
    \/ pages[c] = Unread
    \/ /\ LabelKept(c, pages[c].label)
       /\ Stands(c, pages[c].label) => pages[c].read \subseteq {rows}

TreeKept(c) ==
    \/ tree[c] = Undrawn
    \/ /\ LabelKept(c, tree[c].label)
       /\ Stands(c, tree[c].label) => tree[c].rows \in {NoRows, rows}

\* A label that was compared is that of the rows chosen with it.
LabelStands(d) == d.label # NoLabel => d.label.version = version /\ d.label.checksum = checksum

ChosenKept(c) ==
    chosen[c] # Nothing =>
        /\ chosen[c].gen \in 1..written /\ chosen[c].request # 0
        /\ chosen[c].label # NoLabel => chosen[c].label.request = chosen[c].request
        /\ chosen[c].gen = rows.gen => LabelStands(chosen[c])

\* The inductive invariant: while a right is active, the version it sees only grows, and what
\* a client holds under a label is of the rows that the label's version had.
ManifestInv ==
    /\ TypeOK /\ CatalogueKept /\ RightsKept
    /\ \A c \in Client : PagesKept(c) /\ TreeKept(c) /\ ChosenKept(c)
    /\ PagesAgree /\ ListedIsServed /\ LeaseOnStoredRows

=============================================================================
