------------------------------ MODULE Realtime ------------------------------
(***************************************************************************)
(* The pages that follow the torrents live.  A page opens a socket on the  *)
(* API, which authenticates it, takes one of the user's socket slots,      *)
(* accepts it, subscribes to Redis and then forwards events, or a          *)
(* heartbeat when none came in time.  Redis keeps no event: what is        *)
(* published without a subscription is lost.  The page reloads its list on *)
(* events, when it reconnects, and at every poll; a reload asked for while *)
(* one is under way is run after it.                                       *)
(*                                                                         *)
(* One user, whose pages share one session.  A client that is not a        *)
(* browser may listen too: it loads no list.                               *)
(***************************************************************************)
EXTENDS Naturals, FiniteSets

CONSTANTS
  Page,        \* the user's clients
  Listener,    \* those that are not browsers
  Sock,        \* sockets on the API
  PerUser,     \* MAX_REALTIME_CONNECTIONS_PER_USER
  MaxChanges,  \* bound: changes of the user's list
  MaxOthers,   \* bound: events of other users' torrents
  Busy         \* events of other users keep coming: no bound

VARIABLES
  session,   \* the session is "valid" or "ended"
  redis,     \* Redis answers
  db,        \* version of the user's list
  sock,      \* [sock -> [at, page, peer, inbox]]: inbox is the newest undelivered event
  others,    \* events of other users' torrents still to come
  slots,     \* the limiter's count for the user
  page       \* [page -> [sock, known, out, pending, queued, began, shown, heard]]

vars == <<session, redis, db, sock, others, slots, page>>

NoSock == [at |-> "free", page |-> "none", peer |-> FALSE, inbox |-> 0]
\* Version 1 is the first one; 0 is "nothing yet".
NewPage == [sock |-> "none", known |-> FALSE, out |-> FALSE, pending |-> TRUE, queued |-> FALSE, began |-> 0, shown |-> 0, heard |-> 0]

Init ==
  /\ session = "valid" /\ redis = TRUE /\ db = 1 /\ slots = 0 /\ others = MaxOthers
  /\ sock = [k \in Sock |-> NoSock] /\ page = [p \in Page |-> [NewPage EXCEPT !.pending = p \notin Listener]]

-----------------------------------------------------------------------------
(* The page *)

\* Mutated form: an event during a reload asks for nothing.
WantReloadDropped(g) == IF g.pending THEN g ELSE [g EXCEPT !.pending = TRUE, !.began = 0]

\* refreshFromEvent
WantReload(g) == IF g.pending THEN [g EXCEPT !.queued = TRUE] ELSE [g EXCEPT !.pending = TRUE, !.began = 0]

\* The request of a reload reaches the API, which reads the list.
Load(p) ==
  /\ page[p].pending /\ page[p].began = 0 /\ session = "valid"
  /\ page' = [page EXCEPT ![p].began = db] /\ UNCHANGED <<session, redis, db, sock, slots, others>>

\* onSessionExpired: the list is refused, the page gives way to the login form.
SignOut(p) ==
  /\ page[p].pending /\ page[p].began = 0 /\ session = "ended"
  /\ page' = [page EXCEPT ![p] = [NewPage EXCEPT !.out = TRUE, !.pending = FALSE]]
  /\ sock' = IF page[p].sock = "none" THEN sock ELSE [sock EXCEPT ![page[p].sock].peer = FALSE]
  /\ UNCHANGED <<session, redis, db, slots, others>>

\* Its answer; a queued reload follows at once.
Loaded(p) ==
  /\ page[p].pending /\ page[p].began # 0
  /\ page' = [page EXCEPT ![p].shown = page[p].began, ![p].began = 0,
                          ![p].pending = page[p].queued, ![p].queued = FALSE]
  /\ UNCHANGED <<session, redis, db, sock, slots, others>>

\* Mutated form: the page polls only while it has no socket.
PollNeeded(p) == page[p].sock = "none"

PollDue(p) == TRUE

\* Every four seconds in a visible page; a poll changes nothing while a reload is queued.
Poll(p) ==
  /\ PollDue(p) /\ p \notin Listener /\ ~page[p].out /\ ~page[p].queued
  /\ page' = [page EXCEPT ![p] = WantReload(page[p])] /\ UNCHANGED <<session, redis, db, sock, slots, others>>

\* connect: the page has no socket; the API authenticates it.
Connect(p, k) ==
  /\ page[p].sock = "none" /\ ~page[p].out /\ sock[k].at = "free" /\ session = "valid"
  /\ sock' = [sock EXCEPT ![k] = [NoSock EXCEPT !.at = "authenticated", !.page = p, !.peer = TRUE]]
  /\ page' = [page EXCEPT ![p].sock = k] /\ UNCHANGED <<session, redis, db, slots, others>>

\* The browser drops the connection: the API learns of it when it next sends.
Drop(p) ==
  /\ page[p].sock # "none"
  /\ sock' = [sock EXCEPT ![page[p].sock].peer = FALSE]
  /\ page' = [page EXCEPT ![p].sock = "none"] /\ UNCHANGED <<session, redis, db, slots, others>>

-----------------------------------------------------------------------------
(* The API's side of a socket *)

\* What the page of a socket does when it closes.
PageLoses(k, pages) ==
  IF sock[k].peer THEN [pages EXCEPT ![sock[k].page].sock = "none"] ELSE pages

Reload(p, pages) == IF p \in Listener THEN pages ELSE [pages EXCEPT ![p] = WantReload(@)]

PageReloads(k) == IF sock[k].peer THEN Reload(sock[k].page, page) ELSE page

Free(k) == sock' = [sock EXCEPT ![k] = NoSock]

\* Mutated form: a refused socket gives a slot back.
RefusedReleases == slots' = IF slots > 0 THEN slots - 1 ELSE 0

\* get_realtime_connection: nothing was acquired, nothing is released.
Refused == UNCHANGED slots

\* acquire and accept; the page's onopen reloads when the page had been connected before.
Accept(k) == LET p == sock[k].page IN
  /\ sock[k].at = "authenticated" /\ slots < PerUser
  /\ slots' = slots + 1
  /\ sock' = [sock EXCEPT ![k].at = "accepted"]
  /\ page' = IF ~sock[k].peer THEN page
             ELSE [(IF page[p].known THEN Reload(p, page) ELSE page) EXCEPT ![p].known = TRUE]
  /\ UNCHANGED <<session, redis, db, others>>

TooMany(k) ==
  /\ sock[k].at = "authenticated" /\ slots >= PerUser /\ Refused
  /\ Free(k) /\ page' = PageLoses(k, page) /\ UNCHANGED <<session, redis, db, others>>

Subscribe(k) ==
  /\ sock[k].at = "accepted" /\ redis
  /\ sock' = [sock EXCEPT ![k].at = "streaming"] /\ UNCHANGED <<session, redis, db, slots, page, others>>

Release == slots' = slots - 1

\* "resync_required", then the close: the subscription failed, at first or later.
Resync(k) ==
  /\ sock[k].at \in {"accepted", "streaming"} /\ ~redis
  /\ page' = PageLoses(k, PageReloads(k)) /\ Free(k) /\ Release /\ UNCHANGED <<session, redis, db, others>>

\* An event is forwarded, or the send shows that the browser is gone.
Forward(k) ==
  /\ sock[k].at = "streaming" /\ redis /\ sock[k].inbox # 0
  /\ IF sock[k].peer
     THEN /\ page' = [PageReloads(k) EXCEPT ![sock[k].page].heard = sock[k].inbox]
          /\ sock' = [sock EXCEPT ![k].inbox = 0] /\ UNCHANGED slots
     ELSE Free(k) /\ Release /\ UNCHANGED page
  /\ UNCHANGED <<session, redis, db, others>>

\* Mutated form: the session is not read again.
StillValidAlways == TRUE

\* realtime_session_is_valid
StillValid == session = "valid"

\* No event within the heartbeat: the session is checked again.
Heartbeat(k) ==
  /\ sock[k].at = "streaming" /\ redis /\ sock[k].inbox = 0
  /\ ~StillValid \/ ~sock[k].peer
  /\ Free(k) /\ Release /\ page' = PageLoses(k, page) /\ UNCHANGED <<session, redis, db, others>>

-----------------------------------------------------------------------------
(* Changes, publications, logout and Redis *)

\* What the sockets that are subscribed receive.
Publish(v) == [k \in Sock |-> IF sock[k].at = "streaming" THEN [sock[k] EXCEPT !.inbox = v] ELSE sock[k]]

\* A change of the list is committed and then announced, unless Redis is away.
Change ==
  /\ db < MaxChanges + 1 /\ db' = db + 1
  /\ sock' = IF redis THEN Publish(db + 1) ELSE sock
  /\ UNCHANGED <<session, redis, slots, page, others>>

\* The queue event of somebody else's torrent, on the channel that all sockets share.
OthersChange ==
  /\ redis /\ (Busy \/ others > 0)
  /\ others' = IF Busy THEN others ELSE others - 1
  /\ sock' = Publish(db) /\ UNCHANGED <<session, redis, db, slots, page>>

\* Logout, suspension, password change or expiry.
EndSession == session = "valid" /\ session' = "ended" /\ UNCHANGED <<redis, db, sock, slots, page, others>>

RedisFails == redis /\ redis' = FALSE /\ UNCHANGED <<session, db, sock, slots, page, others>>
RedisBack ==
  /\ ~redis /\ redis' = TRUE
  /\ \A k \in Sock : sock[k].at # "streaming"
  /\ UNCHANGED <<session, db, sock, slots, page, others>>

Serve(k) == Accept(k) \/ TooMany(k) \/ Subscribe(k) \/ Resync(k) \/ Forward(k) \/ Heartbeat(k)

Next ==
  \/ \E p \in Page : Load(p) \/ SignOut(p) \/ Loaded(p) \/ Poll(p) \/ Drop(p) \/ \E k \in Sock : Connect(p, k)
  \/ \E k \in Sock : Serve(k)
  \/ Change \/ OthersChange \/ EndSession \/ RedisFails \/ RedisBack

\* The API serves each socket, the browser runs its timers and its requests are answered.
Spec ==
  /\ Init /\ [][Next]_vars
  /\ \A k \in Sock : WF_vars(Serve(k))
  /\ \A p \in Page : WF_vars(Load(p) \/ SignOut(p) \/ Loaded(p)) /\ WF_vars(Poll(p))

-----------------------------------------------------------------------------
(* Properties *)

\* Types of the realtime state.
TypeOK ==
  /\ session \in {"valid", "ended"} /\ redis \in BOOLEAN /\ db \in 1 .. MaxChanges + 1 /\ slots \in Nat /\ others \in 0 .. MaxOthers
  /\ \A k \in Sock : sock[k].at \in {"free", "authenticated", "accepted", "streaming"}
  /\ \A p \in Page : page[p].shown \in 0 .. db /\ page[p].heard \in 0 .. db

\* The limiter's count is the number of sockets that hold a slot, whatever way each one ended.
SlotsCounted == slots = Cardinality({k \in Sock : sock[k].at \in {"accepted", "streaming"}}) /\ slots <= PerUser

\* A page that is not reloading shows every change that it has heard of: no event is lost in a
\* reload that was under way.
HeardIsShown == \A p \in Page \ Listener : ~page[p].pending => page[p].shown >= page[p].heard

Over == session = "ended"
Closed(k) == sock[k].at = "free"

\* A socket does not outlive its session.
SocketEnds == \A k \in Sock : []<>(~Over \/ Closed(k))

Current(p) == page[p].shown = db \/ page[p].out

\* Every page of a valid session catches up with the list, although events are lost while it
\* connects; once the session ended, it gives way to the login form.
CatchesUp == \A p \in Page \ Listener : []<>Current(p)

-----------------------------------------------------------------------------
(* Why they hold *)

\* What the theorems assume of the instance.
Parameters ==
  /\ IsFiniteSet(Sock) /\ Listener \subseteq Page
  /\ {PerUser, MaxChanges, MaxOthers} \subseteq Nat /\ Busy \in BOOLEAN

Sockets == [at : {"free", "authenticated", "accepted", "streaming"}, page : Page \cup {"none"},
            peer : BOOLEAN, inbox : Nat]
Pages == [sock : Sock \cup {"none"}, known : BOOLEAN, out : BOOLEAN, pending : BOOLEAN,
          queued : BOOLEAN, began : Nat, shown : Nat, heard : Nat]

\* What a page has asked for: an answer under way is as new as everything the page has heard of,
\* or another reload is queued behind it.
Asked(g) ==
  /\ g.queued => g.pending
  /\ g.pending /\ g.began # 0 /\ ~g.queued => g.began >= g.heard
  /\ ~g.pending => g.began = 0 /\ g.shown >= g.heard

\* The inductive invariant: slots are counted, no event and no answer is newer than the list, and what
\* a page has heard of it shows or will ask for.
RealtimeInv ==
  /\ TypeOK /\ SlotsCounted
  /\ sock \in [Sock -> Sockets] /\ page \in [Page -> Pages]
  /\ \A k \in Sock : sock[k].inbox <= db /\ (sock[k].peer => sock[k].page \in Page)
  /\ \A p \in Page : page[p].began <= db /\ (p \notin Listener => Asked(page[p]))
=============================================================================
