------------------------------ MODULE Gateway ------------------------------
(***************************************************************************)
(* The worker's gateway to qBittorrent.  Several tasks of the process      *)
(* share one HTTP client, whose cookie is the session of whoever logged in *)
(* last; an operation (log in, look up, write, look up again when the      *)
(* answer is ambiguous, log out) holds the gateway's lock.  qBittorrent    *)
(* may answer or not, apply a write or not, apply an add after the client  *)
(* gave up, lose its sessions, and hold torrents that are not the          *)
(* application's.                                                          *)
(*                                                                         *)
(* A session is named by the task that opened it.                          *)
(***************************************************************************)
EXTENDS Naturals, FiniteSets

CONSTANTS
  Task,    \* concurrent jobs of the worker
  Hash     \* info hashes

\* What stands for no task is none.
Parameters == "none" \notin Task

VARIABLES
  qb,        \* [hash -> who owns the torrent: "none" when absent, "wos" or "other"]
  late,      \* adds that qBittorrent received, whose client gave up, not applied yet
  sessions,  \* sessions that qBittorrent knows
  cookie,    \* the session in the client's cookie jar, or None
  holder,    \* the task that holds the operation lock, or None
  op         \* [task -> the operation: kind, hash, at, result, shaken]

vars == <<qb, late, sessions, cookie, holder, op>>

None == "none"
Kinds == {"add", "inspect", "remove", "inventory"}
NoOp == [kind |-> "none", hash |-> None, at |-> "idle", result |-> "none", shaken |-> FALSE]

Init ==
  /\ qb = [h \in Hash |-> "none"] /\ late = {}
  /\ sessions = {} /\ cookie = None /\ holder = None
  /\ op = [t \in Task |-> NoOp]

To(t, at) == op' = [op EXCEPT ![t].at = at]
\* The operation's outcome is known: what remains is to log out, if it logged in.
Ends(t, result) == op' = [op EXCEPT ![t].at = "leaving", ![t].result = result]

-----------------------------------------------------------------------------
(* One operation *)

Call(t) == \E k \in Kinds, h \in Hash :
  /\ op[t].at = "idle"
  /\ op' = [op EXCEPT ![t] = [kind |-> k, hash |-> h, at |-> "waiting", result |-> "none",
                              shaken |-> FALSE]]
  /\ UNCHANGED <<qb, late, sessions, cookie, holder>>

\* Mutated form: the lock is released before the logout.
FreeWhenLeaving == holder \notin {u \in Task : op[u].at # "leaving"}

Free == holder = None

\* A failed login ends the operation without a session to close.
Login(t) ==
  /\ op[t].at = "waiting" /\ Free
  /\ \/ /\ holder' = t /\ cookie' = t /\ sessions' = sessions \cup {t} /\ To(t, "lookup")
     \/ \E r \in {"auth", "transient"} :
          /\ op' = [op EXCEPT ![t] = [NoOp EXCEPT !.at = "failed", !.result = r]]
          /\ UNCHANGED <<sessions, cookie, holder>>
  /\ UNCHANGED <<qb, late>>

\* The caller takes the error of a failed login.
Fail(t) == op[t].at = "failed" /\ op' = [op EXCEPT ![t] = NoOp] /\ UNCHANGED <<qb, late, sessions, cookie, holder>>

Authentic == cookie \in sessions

\* _require_owned: the category, the path and the tags name this torrent's storage.
Owned(h) == qb[h] = "wos"

\* What a lookup of an existing torrent of somebody else gives.
Judge(t, absent, owned) ==
  LET h == op[t].hash IN
    IF qb[h] = "none" THEN absent ELSE IF Owned(h) THEN owned ELSE Ends(t, "ownership")

\* A lookup that is not answered ends the operation; so does a lost session, which qBittorrent
\* answers with 401 or with 403: only 401 is told from any other failure, and never after a removal.
Unanswered(t) ==
  /\ \E r \in {"transient", "auth"} :
       /\ r = "auth" => ~Authentic /\ ~(op[t].kind = "remove" /\ op[t].at = "reconcile")
       /\ Ends(t, r)
  /\ UNCHANGED <<qb, late, sessions, cookie, holder>>

\* The lookup before anything is written.
LookingUp(t, kind) ==
  op[t].at = "lookup" /\ op[t].kind = kind /\ Authentic /\ UNCHANGED <<qb, late, sessions, cookie, holder>>

LookupAdd(t) == LookingUp(t, "add") /\ Judge(t, To(t, "post"), Ends(t, "ok"))
LookupInspect(t) == LookingUp(t, "inspect") /\ Judge(t, Ends(t, "missing"), Ends(t, "ok"))
LookupRemove(t) == LookingUp(t, "remove") /\ Judge(t, Ends(t, "ok"), To(t, "post"))
\* The inventory lists the torrents of others too.
LookupInventory(t) == LookingUp(t, "inventory") /\ Ends(t, "ok")

LookupFails(t) == op[t].at \in {"lookup", "reconcile"} /\ Unanswered(t)

\* The add is applied and answered; refused, because the torrent is there or for another reason;
\* or not answered in time, and then applied, not applied, or still to be applied.
PostAdd(t) == LET h == op[t].hash IN
  /\ op[t].kind = "add" /\ op[t].at = "post" /\ Authentic
  /\ \/ qb[h] = "none" /\ qb' = [qb EXCEPT ![h] = "wos"] /\ UNCHANGED late /\ Ends(t, "ok")
     \/ UNCHANGED <<qb, late>> /\ Ends(t, "rejected")
     \/ qb[h] = "none" /\ qb' = [qb EXCEPT ![h] = "wos"] /\ UNCHANGED late /\ To(t, "reconcile")
     \/ UNCHANGED <<qb, late>> /\ To(t, "reconcile")
     \/ qb[h] = "none" /\ late' = late \cup {h} /\ UNCHANGED qb /\ To(t, "reconcile")
  /\ UNCHANGED <<sessions, cookie, holder>>

\* Mutated form: a removal that is not answered is taken for done.
PostRemoveAssumed(t) ==
  /\ op[t].kind = "remove" /\ op[t].at = "post" /\ Authentic /\ Ends(t, "ok")
  /\ qb' \in {qb, [qb EXCEPT ![op[t].hash] = "none"]}
  /\ UNCHANGED <<late, sessions, cookie, holder>>

PostRemove(t) == LET h == op[t].hash IN
  /\ op[t].kind = "remove" /\ op[t].at = "post" /\ Authentic
  /\ \/ qb' = [qb EXCEPT ![h] = "none"] /\ Ends(t, "ok")
     \/ UNCHANGED qb /\ Ends(t, "rejected")
     \/ qb' = [qb EXCEPT ![h] = "none"] /\ To(t, "reconcile")
     \/ UNCHANGED qb /\ To(t, "reconcile")
  /\ UNCHANGED <<late, sessions, cookie, holder>>

\* 401 or 403: the session was lost since the login.  A removal takes 403 for a refusal and looks
\* again after 401.
PostRefused(t) ==
  /\ op[t].at = "post" /\ ~Authentic
  /\ \/ op[t].kind = "add" /\ Ends(t, "auth")
     \/ op[t].kind = "remove" /\ (To(t, "reconcile") \/ Ends(t, "rejected"))
  /\ UNCHANGED <<qb, late, sessions, cookie, holder>>

\* Mutated form: an ambiguous answer is taken for a success.
SettledBlind(t) == Ends(t, "ok")

\* An ambiguous write is settled by what qBittorrent shows.
Settled(t) == IF op[t].kind = "add" THEN Judge(t, Ends(t, "transient"), Ends(t, "ok"))
              ELSE Judge(t, Ends(t, "ok"), Ends(t, "transient"))

Reconcile(t) ==
  /\ op[t].at = "reconcile" /\ Authentic /\ Settled(t)
  /\ UNCHANGED <<qb, late, sessions, cookie, holder>>

\* The logout's own failure is ignored; the session of the cookie is closed when it arrives.
Logout(t) ==
  /\ op[t].at = "leaving"
  /\ sessions' \in {sessions \ {cookie}, sessions}
  /\ holder' = None /\ op' = [op EXCEPT ![t] = NoOp]
  /\ UNCHANGED <<qb, late, cookie>>

-----------------------------------------------------------------------------
(* qBittorrent and its operator *)

LateAdd(h) ==
  /\ h \in late /\ late' = late \ {h}
  /\ qb' = IF qb[h] = "none" THEN [qb EXCEPT ![h] = "wos"] ELSE qb
  /\ UNCHANGED <<sessions, cookie, holder, op>>

LateLost(h) == h \in late /\ late' = late \ {h} /\ UNCHANGED <<qb, sessions, cookie, holder, op>>

\* A restart, or the expiry of the sessions.
ForgetSessions ==
  /\ sessions' = {}
  /\ op' = [t \in Task |-> IF op[t].at \in {"lookup", "post", "reconcile"}
                           THEN [op[t] EXCEPT !.shaken = TRUE] ELSE op[t]]
  /\ UNCHANGED <<qb, late, cookie, holder>>

\* Somebody adds the same torrent by hand, or removes it.
AddByHand(h) == qb[h] = "none" /\ qb' = [qb EXCEPT ![h] = "other"] /\ UNCHANGED <<late, sessions, cookie, holder, op>>
RemoveByHand(h) == qb[h] = "other" /\ qb' = [qb EXCEPT ![h] = "none"] /\ UNCHANGED <<late, sessions, cookie, holder, op>>

Next ==
  \/ \E t \in Task : \/ Call(t) \/ Login(t) \/ Fail(t) \/ LookupAdd(t) \/ LookupInspect(t)
                     \/ LookupRemove(t) \/ LookupInventory(t) \/ LookupFails(t) \/ PostAdd(t)
                     \/ PostRemove(t) \/ PostRefused(t) \/ Reconcile(t) \/ Logout(t)
  \/ \E h \in Hash : LateAdd(h) \/ LateLost(h) \/ AddByHand(h) \/ RemoveByHand(h)
  \/ ForgetSessions

Spec == Init /\ [][Next]_vars

-----------------------------------------------------------------------------
(* Properties *)

\* Types of the gateway's state.
TypeOK ==
  /\ qb \in [Hash -> {"none", "wos", "other"}] /\ late \subseteq Hash /\ sessions \subseteq Task
  /\ cookie \in Task \cup {None} /\ holder \in Task \cup {None}
  /\ \A t \in Task : op[t].kind \in Kinds \cup {"none"} /\ op[t].hash \in Hash \cup {None}

\* Only qBittorrent forgetting its sessions makes an operation fail on authentication after its
\* login: no other task of the process closes or replaces its session.
SessionOwn == \A t \in Task :
  op[t].at = "leaving" /\ op[t].result = "auth" => op[t].shaken

\* An add that reports success leaves the application's own torrent in qBittorrent, and an
\* inspection succeeds on nothing else.
AddTruthful == \A t \in Task :
  op[t].at = "leaving" /\ op[t].result = "ok" /\ op[t].kind \in {"add", "inspect"} => qb[op[t].hash] = "wos"

\* A removal reports success only when qBittorrent no longer holds the torrent, and adopts or
\* removes nothing that somebody else added.
RemoveTruthfulStep ==
  /\ \A t \in Task : op[t].kind = "remove" /\ op[t].at # "leaving" /\ op'[t].result = "ok" =>
       qb'[op[t].hash] # "wos"
  /\ \A h \in Hash : qb[h] = "other" /\ qb'[h] # "other" => op' = op
RemoveTruthful == [][RemoveTruthfulStep]_vars

-----------------------------------------------------------------------------
(* Why they hold: whoever has a session holds the lock, and the cookie is   *)
(* his; nobody else writes while he does.                                   *)

Working == {"lookup", "post", "reconcile"}
Operation == [kind : Kinds \cup {"none"}, hash : Hash \cup {None},
              at : Working \cup {"idle", "waiting", "failed", "leaving"},
              result : {"none", "ok", "auth", "transient", "rejected", "ownership", "missing"},
              shaken : BOOLEAN]

\* An operation that logged in holds the lock until it has logged out, with its own cookie.
LockHeld(t) == op[t].at \in Working \cup {"leaving"} => holder = t /\ cookie = t

\* Its session is there, unless qBittorrent forgot it.
SessionKept(t) == op[t].at \in Working => t \in sessions \/ op[t].shaken

\* It has no result before it ends, is about one torrent, and only adds and removes write.
Pending(t) ==
  /\ op[t].at # "leaving" => op[t].result # "ok"
  /\ op[t].at \in Working \cup {"waiting", "leaving"} => op[t].kind \in Kinds /\ op[t].hash \in Hash
  /\ op[t].at \in {"post", "reconcile"} => op[t].kind \in {"add", "remove"}

\* What it is about to remove was the application's, and still is.
OwnRemoved(t) == op[t].at = "post" /\ op[t].kind = "remove" => qb[op[t].hash] = "wos"

\* The inductive invariant: an operation works alone under the lock, with the session it
\* opened, and knows what became of its torrent.
GatewayInv ==
  /\ TypeOK /\ op \in [Task -> Operation]
  /\ \A t \in Task : LockHeld(t) /\ SessionKept(t) /\ Pending(t) /\ OwnRemoved(t)
  /\ SessionOwn /\ AddTruthful

=============================================================================
