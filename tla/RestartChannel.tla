--------------------------- MODULE RestartChannel ---------------------------
(***************************************************************************)
(* Restarting a service of the V1 host without giving the application      *)
(* access to Docker.  The application leaves a request file; a systemd     *)
(* path unit starts a root helper that consumes it, recreates the          *)
(* container and leaves a status file.  The store's lock makes requests    *)
(* of the application exclusive, but not with the helper.  The same        *)
(* protocol, in other directories, restarts the application itself.        *)
(*                                                                         *)
(* Ages are counted in ticks up to the longest age that matters.           *)
(***************************************************************************)
EXTENDS Naturals

CONSTANTS
  Requests,    \* number of requests that administrators make: a bound on the instance
  MaxAge,      \* REQUEST_MAX_AGE of the helper
  Ttl,         \* ACTIVE_STATUS_TTL of the store
  Crashes      \* helper or host crashes: a bound on the instance

VARIABLES
  request,   \* restart-request.json: [id, age], id 0 when there is no file
  status,    \* restart-status.json: [state, id, age]
  store,     \* the store's request call under way: [at, id]
  made,      \* requests numbered so far
  helper,    \* the helper: [at, id, age]
  ups,       \* [id -> times the container was recreated for this request]
  crashed    \* crashes so far

vars == <<request, status, store, made, helper, ups, crashed>>

NoRequest == [id |-> 0, age |-> 0]
NoStatus == [state |-> "idle", id |-> 0, age |-> 0]
Off == [at |-> "off", id |-> 0, age |-> 0]

Init ==
  /\ request = NoRequest /\ status = NoStatus
  /\ store = [at |-> "idle", id |-> 0] /\ made = 0
  /\ helper = Off /\ ups = [i \in 1..Requests |-> 0] /\ crashed = 0

Older(n, limit) == IF n <= limit THEN n + 1 ELSE n

Tick ==
  /\ request' = IF request.id = 0 THEN request ELSE [request EXCEPT !.age = Older(@, MaxAge)]
  /\ status' = IF status.id = 0 /\ status.state = "idle" THEN status
               ELSE [status EXCEPT !.age = Older(@, Ttl)]
  /\ helper' = IF helper.at = "read" THEN [helper EXCEPT !.age = Older(@, MaxAge)] ELSE helper
  /\ UNCHANGED <<store, made, ups, crashed>>

-----------------------------------------------------------------------------
(* The application *)

\* Mutated form: a status that says "restarting" refuses requests however old it is.
RunningForever == status.state = "restarting"

Running == status.state = "restarting" /\ status.age <= Ttl

\* request: the request file is read first, then the status, then the file is linked into place.
CheckRequest ==
  /\ store.at = "idle" /\ made < Requests /\ request = NoRequest
  /\ store' = [at |-> "unclaimed", id |-> 0]
  /\ UNCHANGED <<request, status, made, helper, ups, crashed>>

CheckStatus ==
  /\ store.at = "unclaimed"
  /\ IF Running THEN store' = [at |-> "idle", id |-> 0] /\ UNCHANGED made
     ELSE store' = [at |-> "writing", id |-> made + 1] /\ made' = made + 1
  /\ UNCHANGED <<request, status, helper, ups, crashed>>

\* os.link fails when the name exists: the request that stands is kept.
Link ==
  /\ store.at = "writing"
  /\ request' = IF request = NoRequest THEN [id |-> store.id, age |-> 0] ELSE request
  /\ store' = [at |-> "idle", id |-> 0]
  /\ UNCHANGED <<status, made, helper, ups, crashed>>

-----------------------------------------------------------------------------
(* The helper: one at a time, by its lock file *)

Wake ==
  /\ helper = Off /\ request # NoRequest
  /\ helper' = [at |-> "read", id |-> request.id, age |-> request.age]
  /\ UNCHANGED <<request, status, store, made, ups, crashed>>

\* Mutated form: the request is removed once the container is healthy.
ConsumeLater ==
  /\ helper.at = "read"
  /\ helper' = [helper EXCEPT !.at = IF helper.age > MaxAge THEN "refused" ELSE "accepted"]
  /\ UNCHANGED <<request, status, store, made, ups, crashed>>

\* consume_request: the file that was read is removed, then its age is checked.
Consume ==
  /\ helper.at = "read"
  /\ request' = NoRequest
  /\ helper' = [helper EXCEPT !.at = IF helper.age > MaxAge THEN "refused" ELSE "accepted"]
  /\ UNCHANGED <<status, store, made, ups, crashed>>

\* An I/O error while the file is read or removed.
ConsumeFails ==
  /\ helper.at = "read"
  /\ helper' = [helper EXCEPT !.at = "refused"]
  /\ UNCHANGED <<request, status, store, made, ups, crashed>>

\* discard_request removes the file of that name, whichever request it holds.
Discard ==
  /\ helper.at = "refused"
  /\ request' = NoRequest /\ helper' = [helper EXCEPT !.at = "discarded"]
  /\ UNCHANGED <<status, store, made, ups, crashed>>

Reported(state, id) == [state |-> state, id |-> id, age |-> 0]

Reject ==
  /\ helper.at = "discarded"
  /\ status' = Reported("rejected", 0) /\ helper' = Off
  /\ UNCHANGED <<request, store, made, ups, crashed>>

\* The runtime directory, with the time of the last success, is removed when the unit stops, so
\* cooldown_active finds no file: the restart begins.
Begin ==
  /\ helper.at = "accepted"
  /\ status' = Reported("restarting", helper.id)
  /\ helper' = [helper EXCEPT !.at = "restarting"]
  /\ UNCHANGED <<request, store, made, ups, crashed>>

\* The checks before Docker may fail; docker compose up recreates the container, and the wait
\* for its health check succeeds or not.
Up ==
  /\ helper.at = "restarting"
  /\ \/ ups' = [ups EXCEPT ![helper.id] = @ + 1] /\ helper' = [helper EXCEPT !.at = "healthy"]
     \/ ups' = [ups EXCEPT ![helper.id] = @ + 1] /\ helper' = [helper EXCEPT !.at = "failed"]
     \/ UNCHANGED ups /\ helper' = [helper EXCEPT !.at = "failed"]
  /\ UNCHANGED <<request, status, store, made, crashed>>

Report ==
  /\ helper.at \in {"healthy", "failed"}
  /\ status' = Reported(helper.at, helper.id) /\ helper' = Off
  /\ UNCHANGED <<request, store, made, ups, crashed>>

\* The unit's start timeout, a kill or a reboot ends the helper anywhere.
Crash ==
  /\ helper # Off /\ crashed < Crashes
  /\ helper' = Off /\ crashed' = crashed + 1
  /\ UNCHANGED <<request, status, store, made, ups>>

Helper == Wake \/ Consume \/ Discard \/ Reject \/ Begin \/ Up \/ Report
Store == CheckStatus \/ Link
Next == Tick \/ CheckRequest \/ Store \/ Helper \/ ConsumeFails \/ Crash

Spec == Init /\ [][Next]_vars /\ WF_vars(Tick) /\ WF_vars(Store) /\ WF_vars(Helper)

-----------------------------------------------------------------------------
(* Properties *)

\* Types; the helper never works on a request that was not made.
TypeOK ==
  /\ request.id \in 0..made /\ request.age \in 0..(MaxAge + 1)
  /\ status.state \in {"idle", "restarting", "healthy", "failed", "rejected"}
  /\ status.id \in 0..made /\ status.age \in 0..(Ttl + 1)
  /\ helper.id \in 0..made /\ helper.at \in {"off", "read", "accepted", "refused", "discarded",
                                             "restarting", "healthy", "failed"}

\* A request recreates the container at most once, even when the helper crashes and is started
\* again: the file is gone before Docker is called.
RestartedOnce == \A i \in 1..Requests : ups[i] <= 1

Open == request = NoRequest /\ ~Running

\* An administrator is never locked out: whatever crashed, a request is again possible.
Reopens == []<>Open

-----------------------------------------------------------------------------
(* The proof of RestartedOnce, for any number of requests and crashes *)

HelperAt == {"off", "read", "accepted", "refused", "discarded", "restarting", "healthy", "failed"}

Shapes ==
  /\ request \in [id : Nat, age : Nat]
  /\ store \in [at : {"idle", "unclaimed", "writing"}, id : Nat]
  /\ helper \in [at : HelperAt, id : Nat, age : Nat]
  /\ made \in 0..Requests /\ ups \in [1..Requests -> Nat]

\* A number is in one place only: with the store that writes it, in the request file, or
\* with the helper that took it from there; and it is in none of them once it was used.
Numbered ==
  /\ request.id <= made /\ helper.id <= made
  /\ request.id = 0 => request = NoRequest
  /\ \A i \in 1..Requests : i > made => ups[i] = 0
  /\ store.at = "unclaimed" => made < Requests
  /\ store.at = "writing" =>
       store.id = made /\ made # 0 /\ ups[made] = 0 /\ request.id # made /\ helper.id # made
  /\ request.id # 0 => ups[request.id] = 0
  /\ helper.at = "read" => helper.id = request.id /\ helper.id # 0
  /\ helper.at \in {"accepted", "restarting"} =>
       helper.id # 0 /\ ups[helper.id] = 0 /\ helper.id # request.id

OnceInv == Shapes /\ Numbered /\ RestartedOnce
=============================================================================
