------------------------------ MODULE Accounts ------------------------------
(***************************************************************************)
(* One account (auth/service.py, auth/password_reset.py, api/routes/auth.py*)
(* and the account routes of admin and external API): logins, changes of   *)
(* password and name, recovery links, suspension and deletion.  Every      *)
(* operation that hashes a password reads a snapshot, ends its transaction,*)
(* hashes, and decides in a second transaction under row locks.            *)
(*                                                                         *)
(* A stored hash is the password it was made from and whether it has the   *)
(* current parameters; every new password is a new number.                 *)
(***************************************************************************)
EXTENDS Integers, FiniteSets

CONSTANTS
    Request,       \* requests that hash a password
    Session,       \* sessions that may be opened
    Client,        \* clients of the external API
    MaxAttempts, Window, LockTime,   \* of LoginThrottle, in ticks
    LinkTime, Cooldown,              \* RESET_TTL_SECONDS, RESET_COOLDOWN_SECONDS
    MaxPasswords, MaxTokens          \* bounds

VARIABLES
    account,   \* the User row
    session,   \* UserSession rows
    throttle,  \* the LoginThrottle row of one network and name
    grant,     \* the PasswordReset row
    client,    \* ExternalApiClient rows that are not revoked
    request,   \* what each request has read
    passwords, tokens,   \* numbers given out
    wrong,     \* wrong logins answered since the row of the throttle was new
    redeemed   \* tokens in the order they were used

vars == <<account, session, throttle, grant, client, request, passwords, tokens, wrong, redeemed>>

NoRow == [n |-> 0, window |-> 0, lock |-> 0]
NoGrant == [token |-> 0, hash |-> <<0, TRUE>>, key |-> 0, used |-> FALSE, left |-> 0, cool |-> 0]
Idle == [op |-> "idle", hash |-> <<0, TRUE>>, guess |-> 0, name |-> 0, token |-> 0, key |-> 0]

TypeOK ==
    /\ account \in [hash : (0..MaxPasswords) \X BOOLEAN, active : BOOLEAN, deleted : BOOLEAN,
                    must : BOOLEAN, seen : BOOLEAN, name : 0..1]
    /\ session \in [Session -> [live : BOOLEAN, pw : 0..MaxPasswords]]
    /\ throttle \in [n : 0..(MaxAttempts + Cardinality(Request)), window : 0..Window, lock : 0..LockTime]
    /\ grant \in [token : 0..MaxTokens, hash : (0..MaxPasswords) \X BOOLEAN, key : {0} \cup Client,
                  used : BOOLEAN, left : 0..LinkTime, cool : 0..Cooldown]
    /\ client \subseteq Client
    /\ \A r \in Request : request[r].op \in {"idle", "login", "miss", "password", "credentials", "reset"}
    /\ passwords \in 0..MaxPasswords /\ tokens \in 0..MaxTokens
    /\ redeemed \in [1..MaxTokens -> 0..Cardinality(Request)]

\* A new account: its password is temporary, its hash of older parameters.
Init ==
    /\ account = [hash |-> <<0, FALSE>>, active |-> TRUE, deleted |-> FALSE, must |-> TRUE,
                  seen |-> FALSE, name |-> 0]
    /\ session = [s \in Session |-> [live |-> FALSE, pw |-> 0]]
    /\ throttle = NoRow /\ grant = NoGrant
    /\ client = Client
    /\ request = [r \in Request |-> Idle]
    /\ passwords = 0 /\ tokens = 0 /\ wrong = 0
    /\ redeemed = [t \in 1..MaxTokens |-> 0]

CanLogin == account.active /\ ~account.deleted
Revoked == [s \in Session |-> [session[s] EXCEPT !.live = FALSE]]
Ended(r) == [request EXCEPT ![r] = Idle]
Unused(s) == ~session[s].live

-----------------------------------------------------------------------------
(* Logins                                                                  *)

Locked == throttle.n > 0 /\ throttle.lock > 0

\* authenticate up to the verification, for a guess at the password.
LoginRead(r) ==
    /\ request[r].op = "idle" /\ ~Locked
    /\ \E g \in 0..passwords :
          request' = [request EXCEPT ![r] =
              [Idle EXCEPT !.op = "login", !.hash = account.hash, !.guess = g, !.name = account.name]]
    /\ UNCHANGED <<account, session, throttle, grant, client, passwords, tokens, wrong, redeemed>>

\* Mutated form: the snapshot is trusted.
MatchesBlind(r) == request[r].guess = request[r].hash[1] /\ CanLogin

\* The second look, under the locks of the throttle and the user.
Matches(r) ==
    /\ request[r].guess = request[r].hash[1]
    /\ request[r].hash = account.hash /\ request[r].name = account.name /\ CanLogin

LoginRefused(r) ==
    /\ request[r].op = "login" /\ Locked
    /\ request' = Ended(r)
    /\ UNCHANGED <<account, session, throttle, grant, client, passwords, tokens, wrong, redeemed>>

LoginSucceeds(r) ==
    /\ request[r].op = "login" /\ ~Locked /\ Matches(r)
    /\ throttle' = NoRow /\ wrong' = 0
    /\ account' = [account EXCEPT !.hash = <<@[1], TRUE>>, !.seen = TRUE]
    /\ \E s \in Session :
          Unused(s) /\ session' = [session EXCEPT ![s] = [live |-> TRUE, pw |-> request[r].guess]]
    /\ request' = Ended(r)
    /\ UNCHANGED <<grant, client, passwords, tokens, redeemed>>

\* The row after one more failure.
Failed(row) ==
    LET n == IF row.n > 0 /\ row.window > 0 THEN row.n + 1 ELSE 1
        fresh == n = 1
    IN [n |-> n, window |-> IF fresh THEN Window ELSE row.window,
        lock |-> IF n >= MaxAttempts THEN LockTime ELSE 0]

\* A failure with a row to lock, or without: then it is inserted later.
LoginMisses(r) ==
    /\ request[r].op = "login" /\ ~Locked /\ ~Matches(r)
    /\ IF throttle.n > 0
       THEN /\ throttle' = Failed(throttle)
            /\ wrong' = IF throttle.window > 0 THEN wrong + 1 ELSE 1
            /\ request' = Ended(r)
       ELSE /\ request' = [request EXCEPT ![r].op = "miss"]
            /\ UNCHANGED <<throttle, wrong>>
    /\ UNCHANGED <<account, session, grant, client, passwords, tokens, redeemed>>

\* Mutated form: the second insert is dropped.
MissInsertedOnce(r) ==
    /\ request[r].op = "miss"
    /\ throttle' = IF throttle.n = 0 THEN Failed(NoRow) ELSE throttle
    /\ wrong' = wrong + 1
    /\ request' = Ended(r)
    /\ UNCHANGED <<account, session, grant, client, passwords, tokens, redeemed>>

\* The insert, or the update after an IntegrityError, which does not look at
\* the window.
MissInserted(r) ==
    /\ request[r].op = "miss"
    /\ throttle' = IF throttle.n = 0 THEN Failed(NoRow)
                   ELSE [throttle EXCEPT !.n = @ + 1,
                                         !.lock = IF throttle.n + 1 >= MaxAttempts THEN LockTime ELSE @]
    /\ wrong' = wrong + 1
    /\ request' = Ended(r)
    /\ UNCHANGED <<account, session, grant, client, passwords, tokens, redeemed>>

-----------------------------------------------------------------------------
(* Changes of the credentials by their owner                               *)

\* A new password ends every session; `sessions` is what is opened instead.
NewPassword(sessions) ==
    /\ passwords < MaxPasswords
    /\ passwords' = passwords + 1
    /\ session' = sessions

\* change_password and change_credentials: the right password is known, the
\* session is checked here only.
ChangeRead(r) ==
    /\ request[r].op = "idle" /\ CanLogin
    /\ \E s \in Session : session[s].live
    /\ \E op \in {"password", "credentials"} :
          /\ op = "password" => ~account.must
          /\ request' = [request EXCEPT ![r] = [Idle EXCEPT !.op = op, !.hash = account.hash]]
    /\ UNCHANGED <<account, session, throttle, grant, client, passwords, tokens, wrong, redeemed>>

ChangeEnds(r) ==
    /\ request[r].op \in {"password", "credentials"}
    /\ IF request[r].hash = account.hash /\ CanLogin
       THEN \/ /\ request[r].op = "password"
               /\ NewPassword(Revoked)
               /\ account' = [account EXCEPT !.hash = <<passwords + 1, TRUE>>]
            \/ /\ request[r].op = "credentials"
               /\ \E s \in Session :
                     NewPassword([Revoked EXCEPT ![s] = [live |-> TRUE, pw |-> passwords + 1]])
               /\ \E name \in 0..1 :
                     account' = [account EXCEPT !.hash = <<passwords + 1, TRUE>>, !.must = FALSE,
                                                !.name = name]
       ELSE UNCHANGED <<account, session, passwords>>
    /\ request' = Ended(r)
    /\ UNCHANGED <<throttle, grant, client, tokens, wrong, redeemed>>

ChangeUsername ==
    /\ \E s \in Session : session[s].live
    /\ ~account.must
    /\ account' = [account EXCEPT !.name = 1 - @]
    /\ UNCHANGED <<session, throttle, grant, client, request, passwords, tokens, wrong, redeemed>>

\* Logout, or a session that expires and is purged.
EndSession(s) ==
    /\ session[s].live
    /\ session' = [session EXCEPT ![s].live = FALSE]
    /\ UNCHANGED <<account, throttle, grant, client, request, passwords, tokens, wrong, redeemed>>

-----------------------------------------------------------------------------
(* Recovery through the bot                                                *)

\* lock_external_client_authorization
Authorized(c) == c \in client
HasGrant == grant.token > 0

IssueReset ==
    /\ CanLogin
    /\ HasGrant => grant.cool = 0
    /\ tokens < MaxTokens
    /\ tokens' = tokens + 1
    /\ \E c \in client :
          grant' = [token |-> tokens + 1, hash |-> account.hash, key |-> c, used |-> FALSE,
                    left |-> LinkTime, cool |-> Cooldown]
    /\ UNCHANGED <<account, session, throttle, client, request, passwords, wrong, redeemed>>

\* confirm_password_reset: the grant of a token is found, the password hashed.
ResetRead(r) ==
    /\ request[r].op = "idle" /\ HasGrant
    /\ request' = [request EXCEPT ![r] = [Idle EXCEPT !.op = "reset", !.token = grant.token,
                                                      !.key = grant.key]]
    /\ UNCHANGED <<account, session, throttle, grant, client, passwords, tokens, wrong, redeemed>>

\* Mutated form: a link that was used in the meantime works once more.
RedeemableTwice(r) ==
    /\ Authorized(request[r].key) /\ CanLogin
    /\ HasGrant /\ grant.left > 0 /\ grant.token = request[r].token

Redeemable(r) ==
    /\ Authorized(request[r].key) /\ CanLogin
    /\ HasGrant /\ ~grant.used /\ grant.left > 0
    /\ grant.token = request[r].token /\ grant.key = request[r].key
    /\ grant.hash = account.hash

ResetEnds(r) ==
    /\ request[r].op = "reset"
    /\ IF Redeemable(r)
       THEN /\ NewPassword(Revoked)
            /\ account' = [account EXCEPT !.hash = <<passwords + 1, TRUE>>]
            /\ grant' = [grant EXCEPT !.used = TRUE]
            /\ redeemed' = [redeemed EXCEPT ![request[r].token] = @ + 1]
       ELSE UNCHANGED <<account, session, passwords, grant, redeemed>>
    /\ request' = Ended(r)
    /\ UNCHANGED <<throttle, client, tokens, wrong>>

\* recover_initial_credentials: only for an account nobody has used.
RecoverInitial ==
    /\ client # {} /\ CanLogin /\ account.must /\ ~account.seen
    /\ NewPassword(Revoked)
    /\ account' = [account EXCEPT !.hash = <<passwords + 1, TRUE>>]
    /\ UNCHANGED <<throttle, grant, client, request, tokens, wrong, redeemed>>

RevokeClient ==
    /\ \E c \in client : client' = client \ {c}
    /\ UNCHANGED <<account, session, throttle, grant, request, passwords, tokens, wrong, redeemed>>

-----------------------------------------------------------------------------
(* Administrators and time                                                 *)

SetActive ==
    /\ ~account.deleted
    /\ account' = [account EXCEPT !.active = ~@]
    /\ IF account.active THEN session' = Revoked /\ grant' = NoGrant ELSE UNCHANGED <<session, grant>>
    /\ UNCHANGED <<throttle, client, request, passwords, tokens, wrong, redeemed>>

Delete ==
    /\ ~account.deleted
    /\ account' = [account EXCEPT !.active = FALSE, !.deleted = TRUE]
    /\ session' = Revoked
    /\ UNCHANGED <<throttle, grant, client, request, passwords, tokens, wrong, redeemed>>

Less(n) == IF n > 0 THEN n - 1 ELSE 0
Tick ==
    /\ throttle' = [throttle EXCEPT !.window = Less(@), !.lock = Less(@)]
    /\ grant' = [grant EXCEPT !.left = Less(@), !.cool = Less(@)]
    /\ UNCHANGED <<account, session, client, request, passwords, tokens, wrong, redeemed>>

Next ==
    \/ \E r \in Request :
          \/ LoginRead(r) \/ LoginRefused(r) \/ LoginSucceeds(r) \/ LoginMisses(r) \/ MissInserted(r)
          \/ ChangeRead(r) \/ ChangeEnds(r) \/ ResetRead(r) \/ ResetEnds(r)
    \/ \E s \in Session : EndSession(s)
    \/ ChangeUsername \/ IssueReset \/ RecoverInitial \/ RevokeClient \/ SetActive \/ Delete \/ Tick

Spec == Init /\ [][Next]_vars

-----------------------------------------------------------------------------
(* Properties                                                              *)

\* Every session was opened with the password the account has now and belongs
\* to an account that may log in, although logins, changes and recoveries hash
\* outside their transactions and an administrator acts in between.
SessionsCurrent ==
    \A s \in Session : session[s].live => session[s].pw = account.hash[1] /\ CanLogin

\* Every wrong login is counted, also those that found no row and insert it at
\* the same time, and enough of them lock the name.
MissesCounted ==
    /\ throttle.n = wrong
    /\ throttle.n >= MaxAttempts /\ throttle.window = Window => throttle.lock = LockTime

\* Every session was opened with the password the account has now, for an
\* account that may log in, and every wrong login is counted and leads to the
\* lock, however logins, changes and recoveries race.
CredentialsSafe == SessionsCurrent /\ MissesCounted

\* A recovery link changes the password once, and never a password it was not
\* issued for: a newer one, or one of an account suspended since.
ResetOnceStep ==
  \A t \in 1..MaxTokens :
          redeemed'[t] # redeemed[t] =>
             redeemed'[t] = 1 /\ account.hash = grant.hash /\ CanLogin /\ grant.key \in client
ResetOnce == [][ResetOnceStep]_vars

-----------------------------------------------------------------------------
(* Why they hold, for any constants the settings allow: of all links only  *)
(* the latest can be unused, and a window never exceeds its setting.       *)

\* auth_max_attempts, auth_attempt_window_minutes and the times of a link.
Parameters ==
    /\ MaxAttempts \in Nat \ {0} /\ Window \in Nat \ {0} /\ LockTime \in Nat
    /\ LinkTime \in Nat /\ Cooldown \in Nat
    /\ MaxPasswords \in Nat /\ MaxTokens \in Nat

Hashes == (0..MaxPasswords) \X BOOLEAN
Keys == {0} \cup Client
UserRows == [hash : Hashes, active : BOOLEAN, deleted : BOOLEAN, must : BOOLEAN, seen : BOOLEAN,
             name : 0..1]
SessionRows == [live : BOOLEAN, pw : 0..MaxPasswords]
ThrottleRows == [n : Nat, window : 0..Window, lock : Nat]
GrantRows == [token : 0..MaxTokens, hash : Hashes, key : Keys, used : BOOLEAN, left : Nat, cool : Nat]
Requests == [op : {"idle", "login", "miss", "password", "credentials", "reset"}, hash : Hashes,
             guess : 0..MaxPasswords, name : 0..1, token : 0..MaxTokens, key : Keys]

Rows ==
    /\ account \in UserRows /\ session \in [Session -> SessionRows]
    /\ throttle \in ThrottleRows /\ grant \in GrantRows /\ client \subseteq Client
    /\ request \in [Request -> Requests]
    /\ passwords \in 0..MaxPasswords /\ tokens \in 0..MaxTokens /\ wrong \in Nat

\* Only the latest link can still be unused.
LinksSpent ==
    /\ redeemed \in [1..MaxTokens -> 0..1]
    /\ HasGrant => grant.token = tokens
    /\ \A t \in 1..MaxTokens : redeemed[t] = 1 => t <= tokens /\ (grant.token = t => grant.used)

AccountsInv == Rows /\ CredentialsSafe /\ LinksSpent
=============================================================================
