------------------------------ MODULE V1Import ------------------------------
(***************************************************************************)
(* The import of an inventory of the first version's torrents, and its     *)
(* rollback.  Both are transactions under one advisory lock, run while the *)
(* services are stopped; between them the services run: users request and  *)
(* cancel, torrents are worked on and purged, accounts are suspended.  An  *)
(* inventory is planned against the database and applied only without      *)
(* conflict; a row whose right exists already is left alone, and a torrent *)
(* nobody knows becomes a placeholder.                                     *)
(***************************************************************************)
EXTENDS Naturals, Sequences, FiniteSets

CONSTANTS
  User, Hash, Name,
  Inventory,    \* inventories, by fingerprint
  Rows,         \* [inventory -> its set of [user, hash, name]]
  MaxRequests   \* bound: requests that the application creates

\* The application is no inventory, and an inventory has rows.
Parameters ==
  /\ "app" \notin Inventory
  /\ Rows \in [Inventory -> SUBSET [user : User, hash : Hash, name : Name]]

VARIABLES
  active,     \* users that may log in
  torrents,   \* [hash -> [state, name, by, touched], or None]
  requests,   \* the set of [user, hash, state, by, touched]; by names the run, or the application
  runs,       \* applied inventories, oldest first
  undone,     \* those that were rolled back
  made        \* requests that the application created

vars == <<active, torrents, requests, runs, undone, made>>

None == [state |-> "NONE"]
App == "app"
Live == {"REQUESTED", "ACTIVE"}
Terminal == {"PURGING", "PURGED"}
TorrentRow(state, name, by) == [state |-> state, name |-> name, by |-> by, touched |-> FALSE]
Request(u, h, state, by) == [user |-> u, hash |-> h, state |-> state, by |-> by, touched |-> FALSE]

Init ==
  /\ active = User /\ torrents = [h \in Hash |-> None] /\ requests = {}
  /\ runs = <<>> /\ undone = {} /\ made = 0

Known(h) == torrents[h] # None
Of(u, h) == {r \in requests : r.user = u /\ r.hash = h}
Ran(i) == \E n \in DOMAIN runs : runs[n] = i

-----------------------------------------------------------------------------
(* The plan *)

\* The request that stands for a right in the plan: any of its history, of which the code keeps
\* the last one that the database returned.
Picks(i) == LET rights == {<<w.user, w.hash>> : w \in Rows[i]}
                asked == {x \in rights : Of(x[1], x[2]) # {}} IN
  {f \in [asked -> requests] : \A x \in asked : f[x] \in Of(x[1], x[2])}

\* A row that a person has to decide about.
Conflict(i, pick, w) ==
  \/ w.user \notin active
  \/ Known(w.hash) /\ (torrents[w.hash].name # w.name \/ torrents[w.hash].state \in Terminal)
  \/ ~Known(w.hash) /\ \E v \in Rows[i] : v.hash = w.hash /\ v.name # w.name
  \/ <<w.user, w.hash>> \in DOMAIN pick /\ pick[<<w.user, w.hash>>].state \notin Live

Clean(i, pick) == \A w \in Rows[i] : ~Conflict(i, pick, w)

\* load_inventory: one row per right.
Loadable(i) == \A v, w \in Rows[i] : v.user = w.user /\ v.hash = w.hash => v = w

\* The rows that need a request.
Missing(i) == {w \in Rows[i] : Of(w.user, w.hash) = {}}

-----------------------------------------------------------------------------
(* Apply and roll back *)

Apply(i) ==
  /\ Loadable(i) /\ ~Ran(i) /\ \E pick \in Picks(i) : Clean(i, pick)
  /\ runs' = Append(runs, i)
  /\ torrents' = [h \in Hash |-> IF Known(h) \/ ~\E w \in Rows[i] : w.hash = h THEN torrents[h]
                                 ELSE TorrentRow("ERROR", (CHOOSE w \in Rows[i] : w.hash = h).name, i)]
  /\ requests' = requests \cup {Request(w.user, w.hash, "REQUESTED", i) : w \in Missing(i)}
  /\ UNCHANGED <<active, undone, made>>

Mine(i) == {r \in requests : r.by = i}
Placeholders(i) == {h \in Hash : Known(h) /\ torrents[h].by = i}

\* Mutated form: any run may be rolled back.
NewestAny(i) == Ran(i)

\* No later run is still applied.
Newest(i) == \E n \in DOMAIN runs : runs[n] = i /\ \A m \in DOMAIN runs : m > n => runs[m] \in undone

\* Mutated form: a request that has changed is deleted too.
UntouchedAny(i) == TRUE

\* Every request of the run is as the run made it.
Untouched(i) == \A r \in Mine(i) : r.state = "REQUESTED" /\ ~r.touched

\* Mutated form: a placeholder is deleted whatever became of it.
UnsharedAny(i) == TRUE

\* Every placeholder is as the run made it, and nobody else has a right on it.
Unshared(i) == \A h \in Placeholders(i) :
  /\ torrents[h].state = "ERROR" /\ ~torrents[h].touched
  /\ \A r \in requests : r.hash = h => r.by = i

Rollback(i) ==
  /\ Ran(i) /\ i \notin undone /\ Newest(i) /\ Untouched(i) /\ Unshared(i)
  /\ requests' = requests \ Mine(i)
  /\ torrents' = [h \in Hash |-> IF h \in Placeholders(i) THEN None ELSE torrents[h]]
  /\ undone' = undone \cup {i}
  /\ UNCHANGED <<active, runs, made>>

-----------------------------------------------------------------------------
(* The services, between two operations *)

\* A user's own request.  A placeholder has no size: its metadata conflict until it is reconciled.
Ask(u, h, name) ==
  /\ made < MaxRequests /\ made' = made + 1 /\ u \in active
  /\ ~\E r \in Of(u, h) : r.state \in Live
  /\ \/ ~Known(h) /\ torrents' = [torrents EXCEPT ![h] = TorrentRow("PENDING", name, App)]
     \/ /\ Known(h) /\ torrents[h].name = name /\ torrents[h].state \notin {"ERROR", "PURGING"}
        /\ torrents' = IF torrents[h].state = "PURGED" THEN [torrents EXCEPT ![h].state = "PENDING"] ELSE torrents
  /\ requests' = requests \cup {Request(u, h, "ACTIVE", App)}
  /\ UNCHANGED <<active, runs, undone>>

\* A request of an import is cancelled, or goes on.
Move(r) ==
  /\ r.state \in Live
  /\ \E s \in {"ACTIVE", "CANCELLED"} \ {r.state} :
       requests' = (requests \ {r}) \cup {[r EXCEPT !.state = s, !.touched = TRUE]}
  /\ UNCHANGED <<active, torrents, runs, undone, made>>

\* The operator gives a placeholder its size and files, and takes it out of ERROR.
Reconcile(h) ==
  /\ Known(h) /\ torrents[h].state = "ERROR"
  /\ torrents' = [torrents EXCEPT ![h].state = "READY", ![h].touched = TRUE]
  /\ UNCHANGED <<active, requests, runs, undone, made>>

\* A torrent that nobody wants any more.
Purge(h) ==
  /\ Known(h) /\ ~\E r \in requests : r.hash = h /\ r.state \in Live
  /\ torrents[h].state # "PURGED"
  /\ torrents' = [torrents EXCEPT ![h].state = IF @ = "PURGING" THEN "PURGED" ELSE "PURGING", ![h].touched = TRUE]
  /\ UNCHANGED <<active, requests, runs, undone, made>>

Suspend(u) == active' \in {active \ {u}, active \cup {u}} /\ active' # active /\ UNCHANGED <<torrents, requests, runs, undone, made>>

Next ==
  \/ \E i \in Inventory : Apply(i) \/ Rollback(i)
  \/ \E u \in User, h \in Hash, n \in Name : Ask(u, h, n)
  \/ \E r \in requests : Move(r)
  \/ \E h \in Hash : Reconcile(h) \/ Purge(h)
  \/ \E u \in User : Suspend(u)

Spec == Init /\ [][Next]_vars

-----------------------------------------------------------------------------
(* Properties *)

\* Types of the import's state.
TypeOK ==
  /\ active \subseteq User /\ undone \subseteq Inventory /\ made \in 0 .. MaxRequests
  /\ \A r \in requests : r.user \in User /\ r.hash \in Hash /\ r.by \in Inventory \cup {App}

\* No request refers to a torrent that a rollback deleted.
NoDangling == \A r \in requests : Known(r.hash)

\* A right that a person has used since the import is never deleted.
RightsKeptStep ==
  \A r \in requests : r.touched \/ r.by = App => \E s \in requests' : s.user = r.user /\ s.hash = r.hash /\ s.by = r.by
RightsKept == [][RightsKeptStep]_vars

\* As long as a run is applied, every row of its inventory has its right: no rollback of an earlier
\* run takes away what a later inventory found in place.
MappingKept == \A n \in DOMAIN runs : runs[n] \notin undone => \A w \in Rows[runs[n]] : Of(w.user, w.hash) # {}

-----------------------------------------------------------------------------
(* Why they hold: a right that an inventory found in place was made by the  *)
(* application or by an inventory before it, and only the newest inventory  *)
(* that is still applied is rolled back.                                    *)

Makers == Inventory \cup {App}
Placeholder == [state : {"ERROR", "PENDING", "READY", "PURGING", "PURGED"}, name : Name,
                by : Makers, touched : BOOLEAN]
Right == [user : User, hash : Hash, state : Live \cup {"CANCELLED"}, by : Makers, touched : BOOLEAN]

\* An inventory is applied once, and rolled back after that.
AppliedOnce ==
  /\ runs \in Seq(Inventory) /\ undone \subseteq {i \in Inventory : Ran(i)}
  /\ \A m, n \in DOMAIN runs : runs[m] = runs[n] => m = n

\* What an inventory made is there only while it is applied.
MadeByApplied == \A r \in requests : r.by # App => Ran(r.by) /\ r.by \notin undone

\* The rights of an applied inventory do not hang on a later one.
FromEarlier == \A n \in DOMAIN runs : runs[n] \notin undone =>
  \A w \in Rows[runs[n]] : \E r \in Of(w.user, w.hash) :
    r.by = App \/ \E m \in DOMAIN runs : m <= n /\ r.by = runs[m]

\* The inductive invariant: what an inventory made is there while it is applied, and rests on
\* nothing that a later one made.
ImportInv ==
  /\ active \subseteq User /\ torrents \in [Hash -> Placeholder \cup {None}] /\ requests \subseteq Right
  /\ AppliedOnce /\ MadeByApplied /\ FromEarlier /\ NoDangling

=============================================================================
