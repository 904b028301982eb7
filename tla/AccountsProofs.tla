--------------------------- MODULE AccountsProofs ---------------------------
(***************************************************************************)
(* Proofs about Accounts, for any number of requests, sessions and clients *)
(* and any admissible settings: AccountsInv is inductive, so every session *)
(* follows the password, every wrong login is counted, and a recovery link *)
(* works once and only for the password it was issued for.                 *)
(*                                                                         *)
(* Then about Provisioning, which makes accounts and shares no state with  *)
(* Accounts: an idempotency key makes one account, a member has one, the   *)
(* quota stands and the pool counts what the executor holds.               *)
(*                                                                         *)
(* Last about UploadStaging, the other users of such a pool, which shares  *)
(* no state with either: StagingInv is inductive for any number of uploads *)
(* and retries, so slots and reads are counted, no upload takes the file   *)
(* of a committed job away, and none leaves one behind unknowingly.        *)
(***************************************************************************)
EXTENDS Accounts, Sequences, FiniteSets, FiniteSetTheorems, TLAPS

CONSTANTS
    Key, Member, KeyOf, BodyOf, NoMember, MaxAccounts, MaxQuota,   \* of Provisioning
    Workers, MaxPending,                                           \* of both pools
    Upload, Retrier, None, MaxPurges                               \* of UploadStaging

VARIABLES
    phase, pending, closed,                        \* of Provisioning and of UploadStaging
    task, accounts, created, idem, link, quota,    \* of Provisioning
    queue, running, abandoned, reads, files, row, job, rowLock, staged, removing, purges, unsure

AC == INSTANCE Provisioning
US == INSTANCE UploadStaging

\* A clock counts down to 0.
LEMMA LessNat == \A n \in Nat : Less(n) \in Nat /\ Less(n) <= n /\ (n > 0 => Less(n) < n)
  BY DEF Less

-----------------------------------------------------------------------------
(* Rows                                                                    *)

\* A hash names a password and the age of its parameters.
LEMMA HashFacts ==
  ASSUME Parameters
  PROVE  /\ \A h \in Hashes : h[1] \in 0..MaxPasswords
         /\ \A p \in 0..MaxPasswords : <<p, TRUE>> \in Hashes /\ <<p, FALSE>> \in Hashes
         /\ <<0, TRUE>> \in Hashes /\ <<0, FALSE>> \in Hashes
         /\ 0 \in Keys /\ Client \subseteq Keys
  <1>1. \A h \in Hashes : h[1] \in 0..MaxPasswords
    BY DEF Hashes
  <1>2. \A p \in 0..MaxPasswords : <<p, TRUE>> \in Hashes /\ <<p, FALSE>> \in Hashes
    BY DEF Hashes
  <1>3. 0 \in 0..MaxPasswords
    BY DEF Parameters
  <1> QED
    BY <1>1, <1>2, <1>3 DEF Keys

\* What a request has read is typed when the row read was.
LEMMA RequestKept ==
  ASSUME Parameters, Rows, NEW r \in Request
  PROVE  /\ Idle \in Requests
         /\ Ended(r) \in [Request -> Requests]
  <1>1. Idle \in Requests
    BY HashFacts DEF Parameters, Idle, Requests
  <1> QED
    BY <1>1 DEF Rows, Ended

\* A new password has the next number, within the bound.
LEMMA PasswordKept ==
  ASSUME Parameters, Rows, passwords < MaxPasswords
  PROVE  passwords + 1 \in 0..MaxPasswords /\ <<passwords + 1, TRUE>> \in Hashes
  <1>1. passwords + 1 \in 0..MaxPasswords
    BY DEF Parameters, Rows
  <1> QED
    BY <1>1, HashFacts

\* The row of the throttle after a failure.
LEMMA FailedRow ==
  ASSUME Parameters, NEW seen \in ThrottleRows
  PROVE  Failed(seen) \in ThrottleRows
  <1>1. (IF seen.n > 0 /\ seen.window > 0 THEN seen.n + 1 ELSE 1) \in Nat
    BY DEF ThrottleRows
  <1> QED
    BY <1>1 DEF Failed, ThrottleRows, Parameters

\* Ended sessions are typed rows, and the empty rows are rows.
LEMMA EmptyRows ==
  ASSUME Parameters, Rows
  PROVE  /\ Revoked \in [Session -> SessionRows]
         /\ \A s \in Session : ~Revoked[s].live
         /\ NoRow \in ThrottleRows /\ NoGrant \in GrantRows
  <1>1. Revoked \in [Session -> SessionRows] /\ \A s \in Session : ~Revoked[s].live
    BY DEF Rows, Revoked, SessionRows
  <1>2. NoRow \in ThrottleRows
    BY DEF Parameters, NoRow, ThrottleRows
  <1>3. NoGrant \in GrantRows
    BY HashFacts DEF Parameters, NoGrant, GrantRows
  <1> QED
    BY <1>1, <1>2, <1>3

\* Every row keeps its type: what a request has read stays a password or a token
\* that was given out.
LEMMA RowsStep ==
  ASSUME Parameters, AccountsInv, [Next]_vars
  PROVE  Rows'
  <1>0. Rows
    BY DEF AccountsInv
  <1>a. /\ account.hash \in Hashes /\ account.name \in 0..1
        /\ grant.token \in 0..MaxTokens /\ grant.key \in Keys
        /\ 0 \in 0..MaxPasswords /\ 0 \in 0..MaxTokens /\ 0 \in 0..1
    BY <1>0 DEF Rows, UserRows, GrantRows, Parameters
  <1> USE <1>0, HashFacts
  <1>1. ASSUME NEW r \in Request, LoginRead(r) PROVE Rows'
    <2>1. PICK g \in 0..passwords : request' = [request EXCEPT ![r] =
              [Idle EXCEPT !.op = "login", !.hash = account.hash, !.guess = g, !.name = account.name]]
      BY <1>1 DEF LoginRead
    <2>2. g \in 0..MaxPasswords
      BY <2>1 DEF Rows, Parameters
    <2>3. [Idle EXCEPT !.op = "login", !.hash = account.hash, !.guess = g, !.name = account.name] \in Requests
      BY <2>2, <1>a DEF Idle, Requests
    <2>4. request' \in [Request -> Requests]
      BY <2>1, <2>3 DEF Rows
    <2> QED
      BY <1>1, <2>4 DEF LoginRead, Rows
  <1>2. ASSUME NEW r \in Request, LoginRefused(r) PROVE Rows'
    BY <1>2, RequestKept DEF LoginRefused, Rows
  <1>3. ASSUME NEW r \in Request, LoginSucceeds(r) PROVE Rows'
    <2>1. account' \in UserRows
      <3>1. account' = [account EXCEPT !.hash = <<account.hash[1], TRUE>>, !.seen = TRUE]
        BY <1>3 DEF LoginSucceeds
      <3>2. <<account.hash[1], TRUE>> \in Hashes
        BY DEF Rows, UserRows
      <3> QED
        BY <3>1, <3>2 DEF Rows, UserRows
    <2>2. session' \in [Session -> SessionRows]
      <3>1. PICK s \in Session : session' = [session EXCEPT ![s] = [live |-> TRUE, pw |-> request[r].guess]]
        BY <1>3 DEF LoginSucceeds
      <3>2. [live |-> TRUE, pw |-> request[r].guess] \in SessionRows
        BY DEF Rows, Requests, SessionRows
      <3> QED
        BY <3>1, <3>2 DEF Rows
    <2> QED
      BY <1>3, <2>1, <2>2, RequestKept, EmptyRows DEF LoginSucceeds, Rows
  <1>4. ASSUME NEW r \in Request, LoginMisses(r) PROVE Rows'
    <2>1. throttle' \in ThrottleRows /\ wrong' \in Nat
      BY <1>4, FailedRow DEF LoginMisses, Rows
    <2>2. request' \in [Request -> Requests]
      <3>1. [request[r] EXCEPT !.op = "miss"] \in Requests
        BY DEF Rows, Requests
      <3>2. request' = Ended(r) \/ request' = [request EXCEPT ![r] = [request[r] EXCEPT !.op = "miss"]]
        BY <1>4 DEF LoginMisses
      <3> QED
        BY <3>1, <3>2, RequestKept DEF Rows
    <2> QED
      BY <1>4, <2>1, <2>2 DEF LoginMisses, Rows
  <1>5. ASSUME NEW r \in Request, MissInserted(r) PROVE Rows'
    <2>1. throttle' \in ThrottleRows
      <3>1. CASE throttle.n = 0
        BY <1>5, <3>1, FailedRow, EmptyRows DEF MissInserted
      <3>2. CASE throttle.n # 0
        <4>1. throttle.n + 1 \in Nat /\ throttle.lock \in Nat /\ LockTime \in Nat
          BY DEF Rows, ThrottleRows, Parameters
        <4>2. (IF throttle.n + 1 >= MaxAttempts THEN LockTime ELSE throttle.lock) \in Nat
          BY <4>1
        <4>3. throttle' = [throttle EXCEPT !.n = throttle.n + 1,
                                           !.lock = IF throttle.n + 1 >= MaxAttempts THEN LockTime
                                                    ELSE throttle.lock]
          BY <1>5, <3>2 DEF MissInserted
        <4> QED
          BY <4>1, <4>2, <4>3 DEF Rows, ThrottleRows
      <3> QED
        BY <3>1, <3>2
    <2> QED
      BY <1>5, <2>1, RequestKept DEF MissInserted, Rows
  <1>6. ASSUME NEW r \in Request, ChangeRead(r) PROVE Rows'
    <2>1. PICK op \in {"password", "credentials"} :
              request' = [request EXCEPT ![r] = [Idle EXCEPT !.op = op, !.hash = account.hash]]
      BY <1>6 DEF ChangeRead
    <2>2. [Idle EXCEPT !.op = op, !.hash = account.hash] \in Requests
      BY <1>a DEF Idle, Requests
    <2>3. request' \in [Request -> Requests]
      BY <2>1, <2>2 DEF Rows
    <2> QED
      BY <1>6, <2>3 DEF ChangeRead, Rows
  <1>7. ASSUME NEW r \in Request, ChangeEnds(r) PROVE Rows'
    <2>1. CASE UNCHANGED <<account, session, passwords>>
      BY <1>7, <2>1, RequestKept DEF ChangeEnds, Rows
    <2>2. CASE /\ NewPassword(Revoked)
               /\ account' = [account EXCEPT !.hash = <<passwords + 1, TRUE>>]
      <3>1. passwords' \in 0..MaxPasswords /\ <<passwords + 1, TRUE>> \in Hashes
        BY <2>2, PasswordKept DEF NewPassword
      <3>2. account' \in UserRows
        BY <2>2, <3>1 DEF Rows, UserRows
      <3> QED
        BY <1>7, <2>2, <3>1, <3>2, RequestKept, EmptyRows DEF ChangeEnds, NewPassword, Rows
    <2>3. ASSUME NEW s \in Session, NEW name \in 0..1,
                 NewPassword([Revoked EXCEPT ![s] = [live |-> TRUE, pw |-> passwords + 1]]),
                 account' = [account EXCEPT !.hash = <<passwords + 1, TRUE>>, !.must = FALSE, !.name = name]
          PROVE  Rows'
      <3>1. /\ passwords' \in 0..MaxPasswords /\ passwords + 1 \in 0..MaxPasswords
            /\ <<passwords + 1, TRUE>> \in Hashes
        BY <2>3, PasswordKept DEF NewPassword
      <3>2. [live |-> TRUE, pw |-> passwords + 1] \in SessionRows
        BY <3>1 DEF SessionRows
      <3>3. session' \in [Session -> SessionRows]
        BY <2>3, <3>2, EmptyRows DEF NewPassword
      <3>4. account' \in UserRows
        BY <2>3, <3>1 DEF Rows, UserRows
      <3> QED
        BY <1>7, <3>1, <3>3, <3>4, RequestKept DEF ChangeEnds, Rows
    <2> QED
      BY <1>7, <2>1, <2>2, <2>3 DEF ChangeEnds
  <1>8. ASSUME NEW r \in Request, ResetRead(r) PROVE Rows'
    <2>1. [Idle EXCEPT !.op = "reset", !.token = grant.token, !.key = grant.key] \in Requests
      BY <1>a DEF Idle, Requests
    <2>2. request' \in [Request -> Requests]
      BY <1>8, <2>1 DEF ResetRead, Rows
    <2> QED
      BY <1>8, <2>2 DEF ResetRead, Rows
  <1>9. ASSUME NEW r \in Request, ResetEnds(r) PROVE Rows'
    <2>1. CASE UNCHANGED <<account, session, passwords, grant, redeemed>>
      BY <1>9, <2>1, RequestKept DEF ResetEnds, Rows
    <2>2. CASE /\ NewPassword(Revoked)
               /\ account' = [account EXCEPT !.hash = <<passwords + 1, TRUE>>]
               /\ grant' = [grant EXCEPT !.used = TRUE]
      <3>1. passwords' \in 0..MaxPasswords /\ <<passwords + 1, TRUE>> \in Hashes
        BY <2>2, PasswordKept DEF NewPassword
      <3>3. account' \in UserRows
        BY <2>2, <3>1 DEF Rows, UserRows
      <3>2. grant' \in GrantRows
        BY <2>2 DEF Rows, GrantRows
      <3> QED
        BY <1>9, <2>2, <3>1, <3>2, <3>3, RequestKept, EmptyRows DEF ResetEnds, NewPassword, Rows
    <2> QED
      BY <1>9, <2>1, <2>2 DEF ResetEnds
  <1>10. ASSUME NEW s \in Session, EndSession(s) PROVE Rows'
    BY <1>10 DEF EndSession, Rows, SessionRows
  <1>11. CASE ChangeUsername
    <2>1. account' \in UserRows
      BY <1>11 DEF ChangeUsername, Rows, UserRows
    <2> QED
      BY <1>11, <2>1 DEF ChangeUsername, Rows
  <1>12. CASE IssueReset
    <2>1. PICK c \in client :
              grant' = [token |-> tokens + 1, hash |-> account.hash, key |-> c, used |-> FALSE,
                        left |-> LinkTime, cool |-> Cooldown]
      BY <1>12 DEF IssueReset
    <2>2. tokens' \in 0..MaxTokens /\ tokens + 1 \in 0..MaxTokens /\ c \in Keys
      BY <1>12 DEF IssueReset, Rows, Parameters
    <2>3. grant' \in GrantRows
      BY <2>1, <2>2 DEF Rows, Parameters, UserRows, GrantRows
    <2> QED
      BY <1>12, <2>2, <2>3 DEF IssueReset, Rows
  <1>13. CASE RecoverInitial
    <2>1. passwords' \in 0..MaxPasswords /\ <<passwords + 1, TRUE>> \in Hashes
      BY <1>13, PasswordKept DEF RecoverInitial, NewPassword
    <2>2. account' \in UserRows
      BY <1>13, <2>1 DEF RecoverInitial, Rows, UserRows
    <2> QED
      BY <1>13, <2>1, <2>2, EmptyRows DEF RecoverInitial, NewPassword, Rows
  <1>14. CASE RevokeClient
    BY <1>14 DEF RevokeClient, Rows
  <1>15. CASE SetActive
    <2>1. account' \in UserRows
      BY <1>15 DEF SetActive, Rows, UserRows
    <2> QED
      BY <1>15, <2>1, EmptyRows DEF SetActive, Rows
  <1>16. CASE Delete
    <2>1. account' \in UserRows
      BY <1>16 DEF Delete, Rows, UserRows
    <2> QED
      BY <1>16, <2>1, EmptyRows DEF Delete, Rows
  <1>17. CASE Tick
    <2>1. throttle' \in ThrottleRows
      <3>1. Less(throttle.window) \in 0..Window /\ Less(throttle.lock) \in Nat
        BY LessNat DEF Rows, ThrottleRows, Parameters
      <3>2. throttle' = [throttle EXCEPT !.window = Less(throttle.window), !.lock = Less(throttle.lock)]
        BY <1>17 DEF Tick
      <3> QED
        BY <3>1, <3>2 DEF Rows, ThrottleRows
    <2>2. grant' \in GrantRows
      BY <1>17, LessNat DEF Tick, Rows, GrantRows
    <2> QED
      BY <1>17, <2>1, <2>2 DEF Tick, Rows
  <1>18. CASE UNCHANGED vars
    BY <1>18 DEF vars, Rows
  <1> QED
    BY <1>1, <1>2, <1>3, <1>4, <1>5, <1>6, <1>7, <1>8, <1>9, <1>10, <1>11, <1>12, <1>13, <1>14, <1>15,
       <1>16, <1>17, <1>18 DEF Next


\* The initial state satisfies the invariant.
LEMMA InitInv ==
  ASSUME Parameters, Init
  PROVE  AccountsInv
  <1>0. 0 \in 0..MaxPasswords /\ 0 \in 0..MaxTokens /\ 0 \in 0..1
    BY DEF Parameters
  <1> USE HashFacts
  <1>1. Rows
    <2>1. account \in UserRows
      BY <1>0 DEF Init, UserRows
    <2>2. session \in [Session -> SessionRows]
      BY DEF Parameters, Init, SessionRows
    <2>3. throttle \in ThrottleRows
      BY DEF Parameters, Init, NoRow, ThrottleRows
    <2>4. grant \in GrantRows
      BY <1>0 DEF Init, NoGrant, GrantRows
    <2>5. request \in [Request -> Requests]
      BY <1>0 DEF Init, Idle, Requests
    <2> QED
      BY <2>1, <2>2, <2>3, <2>4, <2>5 DEF Parameters, Init, Rows
  <1>2. CredentialsSafe
    BY DEF Parameters, Init, CredentialsSafe, SessionsCurrent, MissesCounted, NoRow
  <1>3. LinksSpent
    BY DEF Parameters, Init, LinksSpent, HasGrant, NoGrant
  <1> QED
    BY <1>1, <1>2, <1>3 DEF AccountsInv

-----------------------------------------------------------------------------
(* Sessions, misses and links                                              *)

\* A step that leaves the rows of the account and its sessions alone.
LEMMA SessionsUntouched ==
  ASSUME SessionsCurrent, UNCHANGED <<account, session>>
  PROVE  SessionsCurrent'
  BY DEF SessionsCurrent, CanLogin

\* When every session was ended there is nothing to show.
LEMMA SessionsRevoked ==
  ASSUME Parameters, Rows, session' = Revoked
  PROVE  SessionsCurrent'
  BY EmptyRows DEF SessionsCurrent

\* A new password ends the sessions of the old one, also when it was hashed
\* outside the transaction.
LEMMA SessionsStep ==
  ASSUME Parameters, AccountsInv, [Next]_vars
  PROVE  SessionsCurrent'
  <1>0. Rows /\ SessionsCurrent
    BY DEF AccountsInv, CredentialsSafe
  <1> USE <1>0
  <1>1. ASSUME NEW r \in Request, LoginSucceeds(r) PROVE SessionsCurrent'
    <2>1. PICK s \in Session : session' = [session EXCEPT ![s] = [live |-> TRUE, pw |-> request[r].guess]]
      BY <1>1 DEF LoginSucceeds
    <2>2. request[r].guess = account.hash[1] /\ CanLogin
      BY <1>1 DEF LoginSucceeds, Matches
    <2>3. account' = [account EXCEPT !.hash = <<account.hash[1], TRUE>>, !.seen = TRUE]
      BY <1>1 DEF LoginSucceeds
    <2>4. account'.hash[1] = account.hash[1] /\ CanLogin'
      BY <2>2, <2>3 DEF Rows, UserRows, CanLogin
    <2> QED
      BY <2>1, <2>2, <2>4 DEF SessionsCurrent, Rows, SessionRows
  <1>2. ASSUME NEW r \in Request, ChangeEnds(r) PROVE SessionsCurrent'
    <2>1. CASE UNCHANGED <<account, session, passwords>>
      BY <2>1, SessionsUntouched
    <2>2. CASE NewPassword(Revoked)
      BY <2>2, SessionsRevoked DEF NewPassword
    <2>3. ASSUME NEW s \in Session, NEW name \in 0..1, CanLogin,
                 NewPassword([Revoked EXCEPT ![s] = [live |-> TRUE, pw |-> passwords + 1]]),
                 account' = [account EXCEPT !.hash = <<passwords + 1, TRUE>>, !.must = FALSE, !.name = name]
          PROVE  SessionsCurrent'
      <3>1. account'.hash[1] = passwords + 1 /\ CanLogin'
        BY <2>3 DEF Rows, UserRows, CanLogin
      <3>2. \A x \in Session : session'[x].live => x = s /\ session'[x].pw = passwords + 1
        BY <2>3, EmptyRows DEF NewPassword
      <3> QED
        BY <3>1, <3>2 DEF SessionsCurrent
    <2> QED
      BY <1>2, <2>1, <2>2, <2>3 DEF ChangeEnds
  <1>3. ASSUME NEW r \in Request, ResetEnds(r) PROVE SessionsCurrent'
    BY <1>3, SessionsUntouched, SessionsRevoked DEF ResetEnds, NewPassword
  <1>4. ASSUME NEW s \in Session, EndSession(s) PROVE SessionsCurrent'
    BY <1>4 DEF EndSession, SessionsCurrent, CanLogin, Rows, SessionRows
  <1>5. CASE ChangeUsername
    <2>1. account'.hash = account.hash /\ (CanLogin => CanLogin') /\ session' = session
      BY <1>5 DEF ChangeUsername, Rows, UserRows, CanLogin
    <2> QED
      BY <2>1 DEF SessionsCurrent
  <1>6. CASE RecoverInitial
    BY <1>6, SessionsRevoked DEF RecoverInitial, NewPassword
  <1>7. CASE SetActive
    <2>1. CASE account.active
      BY <1>7, <2>1, SessionsRevoked DEF SetActive
    <2>2. CASE ~account.active
      BY <1>7, <2>2 DEF SetActive, SessionsCurrent, CanLogin
    <2> QED
      BY <2>1, <2>2
  <1>8. CASE Delete
    BY <1>8, SessionsRevoked DEF Delete
  <1>9. ASSUME NEW r \in Request,
               \/ LoginRead(r) \/ LoginRefused(r) \/ LoginMisses(r) \/ MissInserted(r) \/ ChangeRead(r)
               \/ ResetRead(r)
        PROVE  SessionsCurrent'
    BY <1>9, SessionsUntouched
       DEF LoginRead, LoginRefused, LoginMisses, MissInserted, ChangeRead, ResetRead
  <1>10. CASE IssueReset \/ RevokeClient \/ Tick
    BY <1>10, SessionsUntouched DEF IssueReset, RevokeClient, Tick
  <1>11. CASE UNCHANGED vars
    BY <1>11, SessionsUntouched DEF vars
  <1> QED
    BY <1>1, <1>2, <1>3, <1>4, <1>5, <1>6, <1>7, <1>8, <1>9, <1>10, <1>11 DEF Next

\* Of a step that leaves the throttle alone.
LEMMA MissesUntouched ==
  ASSUME MissesCounted, UNCHANGED <<throttle, wrong>>
  PROVE  MissesCounted'
  BY DEF MissesCounted

\* A failure is added to the row that is there, also when another request has
\* inserted it in the meantime, and the row that reaches the limit is locked.
LEMMA MissesStep ==
  ASSUME Parameters, AccountsInv, [Next]_vars
  PROVE  MissesCounted'
  <1>0. Rows /\ MissesCounted
    BY DEF AccountsInv, CredentialsSafe
  <1>a. /\ throttle.n \in Nat /\ throttle.window \in 0..Window /\ wrong \in Nat
        /\ Window \in Nat \ {0} /\ MaxAttempts \in Nat \ {0}
    BY <1>0 DEF Rows, ThrottleRows, Parameters
  <1> USE <1>0, <1>a
  <1>1. ASSUME NEW r \in Request, LoginSucceeds(r) PROVE MissesCounted'
    BY <1>1 DEF LoginSucceeds, MissesCounted, NoRow
  <1>2. ASSUME NEW r \in Request, LoginMisses(r) PROVE MissesCounted'
    <2>1. CASE throttle.n > 0
      <3>1. throttle' = Failed(throttle) /\ wrong' = IF throttle.window > 0 THEN wrong + 1 ELSE 1
        BY <1>2, <2>1 DEF LoginMisses
      <3>2. /\ throttle'.n = IF throttle.window > 0 THEN throttle.n + 1 ELSE 1
            /\ throttle'.lock = IF throttle'.n >= MaxAttempts THEN LockTime ELSE 0
        BY <2>1, <3>1 DEF Failed
      <3> QED
        BY <3>1, <3>2 DEF MissesCounted
    <2>2. CASE ~(throttle.n > 0)
      BY <1>2, <2>2, MissesUntouched DEF LoginMisses
    <2> QED
      BY <2>1, <2>2
  <1>3. ASSUME NEW r \in Request, MissInserted(r) PROVE MissesCounted'
    <2>1. CASE throttle.n = 0
      <3>1. throttle' = Failed(NoRow) /\ wrong' = wrong + 1
        BY <1>3, <2>1 DEF MissInserted
      <3>2. throttle'.n = 1 /\ throttle'.lock = IF 1 >= MaxAttempts THEN LockTime ELSE 0
        BY <3>1 DEF Failed, NoRow
      <3>3. wrong = throttle.n
        BY DEF MissesCounted
      <3>4. throttle'.n >= MaxAttempts => throttle'.lock = LockTime
        BY <3>2
      <3> QED
        BY <2>1, <3>1, <3>2, <3>3, <3>4 DEF MissesCounted
    <2>2. CASE throttle.n # 0
      <3>1. /\ throttle' = [throttle EXCEPT !.n = throttle.n + 1,
                                            !.lock = IF throttle.n + 1 >= MaxAttempts THEN LockTime
                                                     ELSE throttle.lock]
            /\ wrong' = wrong + 1
        BY <1>3, <2>2 DEF MissInserted
      <3>2. throttle'.n = throttle.n + 1 /\ (throttle'.n >= MaxAttempts => throttle'.lock = LockTime)
        BY <3>1 DEF Rows, ThrottleRows
      <3> QED
        BY <3>1, <3>2 DEF MissesCounted
    <2> QED
      BY <2>1, <2>2
  <1>4. CASE Tick
    <2>1. throttle'.n = throttle.n /\ wrong' = wrong /\ throttle'.window = Less(throttle.window)
      BY <1>4 DEF Tick, Rows, ThrottleRows
    <2>2. throttle'.window < Window
      BY <2>1, LessNat
    <2> QED
      BY <2>1, <2>2 DEF MissesCounted
  <1>5. ASSUME NEW r \in Request,
               LoginRead(r) \/ LoginRefused(r) \/ ChangeRead(r) \/ ChangeEnds(r) \/ ResetRead(r) \/ ResetEnds(r)
        PROVE  MissesCounted'
    BY <1>5, MissesUntouched DEF LoginRead, LoginRefused, ChangeRead, ChangeEnds, ResetRead, ResetEnds
  <1>6. ASSUME NEW s \in Session, EndSession(s) PROVE MissesCounted'
    BY <1>6, MissesUntouched DEF EndSession
  <1>7. CASE ChangeUsername \/ IssueReset \/ RecoverInitial \/ RevokeClient \/ SetActive \/ Delete
    BY <1>7, MissesUntouched DEF ChangeUsername, IssueReset, RecoverInitial, RevokeClient, SetActive, Delete
  <1>8. CASE UNCHANGED vars
    BY <1>8, MissesUntouched DEF vars
  <1> QED
    BY <1>1, <1>2, <1>3, <1>4, <1>5, <1>6, <1>7, <1>8 DEF Next

\* Of a step that leaves the links alone.
LEMMA LinksUntouched ==
  ASSUME LinksSpent, UNCHANGED <<tokens, redeemed>>, grant'.token = grant.token, grant'.used = grant.used
  PROVE  LinksSpent'
  BY DEF LinksSpent, HasGrant

\* A used link stays used, and a new one takes its place under a new token.
LEMMA LinksStep ==
  ASSUME Parameters, AccountsInv, [Next]_vars
  PROVE  LinksSpent'
  <1>0. Rows /\ LinksSpent
    BY DEF AccountsInv
  <1> USE <1>0
  <1>1. CASE IssueReset
    <2>1. /\ tokens \in Nat /\ tokens' = tokens + 1 /\ redeemed' = redeemed
          /\ grant'.token = tokens + 1 /\ MaxTokens \in Nat
      BY <1>1 DEF IssueReset, Rows, Parameters
    <2> QED
      BY <2>1 DEF LinksSpent, HasGrant
  <1>2. ASSUME NEW r \in Request, ResetEnds(r) PROVE LinksSpent'
    <2>1. CASE UNCHANGED <<account, session, passwords, grant, redeemed>>
      BY <1>2, <2>1, LinksUntouched DEF ResetEnds
    <2>2. CASE /\ Redeemable(r) /\ grant' = [grant EXCEPT !.used = TRUE]
               /\ redeemed' = [redeemed EXCEPT ![request[r].token] = redeemed[request[r].token] + 1]
      <3>1. /\ grant.token \in 1..MaxTokens /\ grant.token = tokens /\ ~grant.used
            /\ request[r].token = grant.token /\ tokens \in Nat /\ MaxTokens \in Nat
        BY <2>2 DEF Redeemable, HasGrant, LinksSpent, Rows, GrantRows, Parameters
      <3>2. redeemed[grant.token] = 0
        BY <3>1 DEF LinksSpent
      <3>3. redeemed' = [redeemed EXCEPT ![grant.token] = 1]
        BY <2>2, <3>1, <3>2
      <3>4. grant'.token = grant.token /\ grant'.used = TRUE /\ tokens' = tokens
        BY <1>2, <2>2 DEF ResetEnds, Rows, GrantRows
      <3> QED
        BY <3>1, <3>3, <3>4 DEF LinksSpent, HasGrant
    <2> QED
      BY <1>2, <2>1, <2>2 DEF ResetEnds
  <1>3. CASE SetActive
    <2>1. tokens' = tokens /\ redeemed' = redeemed /\ (grant' = grant \/ grant' = NoGrant)
      BY <1>3 DEF SetActive
    <2>2. NoGrant.token = 0
      BY DEF NoGrant
    <2> QED
      BY <2>1, <2>2 DEF LinksSpent, HasGrant
  <1>4. CASE Tick
    <2>1. UNCHANGED <<tokens, redeemed>> /\ grant'.token = grant.token /\ grant'.used = grant.used
      BY <1>4 DEF Tick, Rows, GrantRows
    <2> QED
      BY <2>1, LinksUntouched
  <1>5. ASSUME NEW r \in Request,
               \/ LoginRead(r) \/ LoginRefused(r) \/ LoginSucceeds(r) \/ LoginMisses(r) \/ MissInserted(r)
               \/ ChangeRead(r) \/ ChangeEnds(r) \/ ResetRead(r)
        PROVE  LinksSpent'
    BY <1>5, LinksUntouched
       DEF LoginRead, LoginRefused, LoginSucceeds, LoginMisses, MissInserted, ChangeRead, ChangeEnds, ResetRead
  <1>6. ASSUME NEW s \in Session, EndSession(s) PROVE LinksSpent'
    BY <1>6, LinksUntouched DEF EndSession
  <1>7. CASE ChangeUsername \/ RecoverInitial \/ RevokeClient \/ Delete
    BY <1>7, LinksUntouched DEF ChangeUsername, RecoverInitial, RevokeClient, Delete
  <1>8. CASE UNCHANGED vars
    BY <1>8, LinksUntouched DEF vars
  <1> QED
    BY <1>1, <1>2, <1>3, <1>4, <1>5, <1>6, <1>7, <1>8 DEF Next

-----------------------------------------------------------------------------
(* Theorems                                                                *)

\* The rows fit together in every reachable state.
THEOREM AccountsInvariant ==
  ASSUME Parameters
  PROVE  Spec => []AccountsInv
  <1>1. Init => AccountsInv
    BY InitInv
  <1>2. AccountsInv /\ [Next]_vars => AccountsInv'
    BY RowsStep, SessionsStep, MissesStep, LinksStep DEF AccountsInv, CredentialsSafe
  <1> QED
    BY <1>1, <1>2, PTL DEF Spec

\* Every session was opened with the password in force for an account that may
\* log in, and every wrong login is counted and leads to the lock, although
\* authenticate, change_password and confirm_password_reset hash outside their
\* transactions.
THEOREM CredentialsKept ==
  ASSUME Parameters
  PROVE  Spec => []CredentialsSafe
  <1>1. AccountsInv => CredentialsSafe
    BY DEF AccountsInv
  <1> QED
    BY <1>1, AccountsInvariant, PTL

\* A step that redeems a link finds it unused and issued for the password the
\* account has, by a client that is still authorised.
LEMMA RedeemsOnce ==
  ASSUME Parameters, AccountsInv, Next
  PROVE  ResetOnceStep
  <1> SUFFICES ASSUME NEW t \in 1..MaxTokens, redeemed'[t] # redeemed[t]
               PROVE  redeemed'[t] = 1 /\ account.hash = grant.hash /\ CanLogin /\ grant.key \in client
    BY DEF ResetOnceStep
  <1>1. PICK r \in Request : ResetEnds(r)
    BY DEF Next, LoginRead, LoginRefused, LoginSucceeds, LoginMisses, MissInserted, ChangeRead, ChangeEnds,
           ResetRead, EndSession, ChangeUsername, IssueReset, RecoverInitial, RevokeClient, SetActive, Delete, Tick
  <1>2. /\ Redeemable(r) /\ t = grant.token
        /\ redeemed' = [redeemed EXCEPT ![grant.token] = @ + 1]
    BY <1>1 DEF ResetEnds, Redeemable, AccountsInv, LinksSpent
  <1>3. redeemed[t] = 0
    BY <1>2 DEF Redeemable, AccountsInv, LinksSpent
  <1> QED
    BY <1>2, <1>3 DEF Redeemable, Authorized, AccountsInv, LinksSpent

\* confirm_password_reset changes the password at most once for a link, and never
\* a password that it was not issued for.
THEOREM LinksWorkOnce ==
  ASSUME Parameters
  PROVE  Spec => ResetOnce
  <1>1. AccountsInv /\ [Next]_vars => [ResetOnceStep]_vars
    BY RedeemsOnce
  <1> QED
    BY <1>1, AccountsInvariant, PTL DEF Spec, ResetOnce

-----------------------------------------------------------------------------
(* Provisioning: accounts made once, within the quota                      *)

\* The tasks that the executor holds.
Held == {r \in Request : task[r] # "none"}

\* Cardinality and finiteness are what they are in the component.
LEMMA ProvisioningCounts ==
  ASSUME NEW S
  PROVE  AC!Cardinality(S) = Cardinality(S) /\ (AC!IsFiniteSet(S) <=> IsFiniteSet(S))
  BY DEF AC!Cardinality, Cardinality, AC!IsFiniteSet, IsFiniteSet

\* There are finitely many requests.
LEMMA ProvisioningFinite == ASSUME AC!Parameters PROVE IsFiniteSet(Request)
  BY ProvisioningCounts DEF AC!Parameters

\* The pool counts what the executor holds.
LEMMA ProvisioningPool ==
  /\ AC!PoolCounts <=> pending = Cardinality(Held)
  /\ AC!PoolCounts' <=> pending' = Cardinality(Held')
  BY ProvisioningCounts DEF AC!PoolCounts, Held

\* A step of the pool, or of a request in it: nothing is made, and nothing replayed but what is
\* written down.
LEMMA ProvisioningPools ==
  ASSUME AC!Parameters, AC!ProvisioningInv, UNCHANGED AC!db,
         phase' \in [Request -> {"new", "hashing", "hashed", "made", "replayed", "refused"}],
         task' \in [Request -> {"none", "queued", "running"}],
         pending' \in 0..MaxPending, closed' \in BOOLEAN, pending' = Cardinality(Held'),
         \A r \in Request :
           /\ phase'[r] = "made" => phase[r] = "made"
           /\ phase'[r] = "replayed" => (phase[r] = "replayed" \/ (AC!Known(r) /\ idem[KeyOf[r]].body = BodyOf[r]))
           /\ phase'[r] = "new" => (phase[r] = "new" /\ task'[r] = task[r])
  PROVE  AC!ProvisioningInv'
  <1>1. UNCHANGED <<accounts, created, idem, link, quota>>
    BY DEF AC!db
  <1>2. AC!TypeOK'
    BY <1>1 DEF AC!ProvisioningInv, AC!TypeOK
  <1>3. AC!Recorded'
    BY <1>1 DEF AC!ProvisioningInv, AC!Recorded, AC!Known
  <1>4. AC!OneAccountPerKey'
    BY <1>1, <1>3 DEF AC!ProvisioningInv, AC!OneAccountPerKey, AC!Recorded
  <1>5. AC!NoTaskYet'
    BY DEF AC!ProvisioningInv, AC!NoTaskYet
  <1>6. AC!PoolCounts'
    BY ProvisioningPool
  <1> QED
    BY <1>2, <1>3, <1>4, <1>5, <1>6 DEF AC!ProvisioningInv

\* The executor holds finitely many tasks, as many as the pool counts.
LEMMA ProvisioningHeld ==
  ASSUME AC!Parameters, AC!ProvisioningInv
  PROVE  /\ Held \subseteq Request /\ IsFiniteSet(Held) /\ Cardinality(Held) = pending
         /\ pending \in 0..MaxPending /\ MaxPending \in Nat
         /\ phase \in [Request -> {"new", "hashing", "hashed", "made", "replayed", "refused"}]
         /\ task \in [Request -> {"none", "queued", "running"}] /\ closed \in BOOLEAN
  <1>1. Held \subseteq Request
    BY DEF Held
  <1>2. IsFiniteSet(Held)
    BY <1>1, ProvisioningFinite, FS_Subset
  <1> QED
    BY <1>1, <1>2, ProvisioningPool DEF AC!Parameters, AC!ProvisioningInv, AC!TypeOK

\* A request is refused, answered again, or takes a place in the pool.
LEMMA ProvisioningLooksUp ==
  ASSUME AC!Parameters, AC!ProvisioningInv, NEW r \in Request, AC!Lookup(r)
  PROVE  AC!ProvisioningInv'
  <1>1. /\ phase[r] = "new" /\ task[r] = "none" /\ UNCHANGED AC!db /\ closed' = closed
    BY DEF AC!Lookup, AC!ProvisioningInv, AC!NoTaskYet
  <1>2. CASE UNCHANGED <<task, pending>>
    <2>1. PICK p \in {"replayed", "refused"} :
            /\ phase' = [phase EXCEPT ![r] = p]
            /\ p = "replayed" => AC!Known(r) /\ idem[KeyOf[r]].body = BodyOf[r]
      <3>1. ~(task' = [task EXCEPT ![r] = "queued"])
        BY <1>1, <1>2, ProvisioningHeld
      <3> QED
        BY <3>1 DEF AC!Lookup, AC!Replay, AC!Goes, AC!Submit
    <2>2. Held' = Held
      BY <1>2 DEF Held
    <2> QED
      BY <1>1, <1>2, <2>1, <2>2, ProvisioningHeld, ProvisioningPools
  <1>3. CASE AC!Submit(r) /\ pending < MaxPending
    <2>1. Held' = Held \cup {r} /\ r \notin Held
      BY <1>1, <1>3, ProvisioningHeld DEF AC!Submit, Held
    <2>2. Cardinality(Held') = pending + 1
      BY <2>1, ProvisioningHeld, FS_AddElement
    <2>3. pending' = pending + 1 /\ pending' \in 0..MaxPending
      BY <1>3, ProvisioningHeld DEF AC!Submit
    <2> QED
      BY <1>1, <1>3, <2>2, <2>3, ProvisioningHeld, ProvisioningPools DEF AC!Submit, AC!Goes
  <1> QED
    <2>1. pending \in Int /\ MaxPending \in Int
      BY ProvisioningHeld
    <2> QED
      BY <1>2, <1>3, <2>1 DEF AC!Lookup

\* The executor starts a task.
LEMMA ProvisioningRuns ==
  ASSUME AC!Parameters, AC!ProvisioningInv, NEW r \in Request, AC!Run(r)
  PROVE  AC!ProvisioningInv'
  <1>1. Held' = Held
    BY ProvisioningHeld DEF AC!Run, Held
  <1>2. phase[r] # "new"
    BY DEF AC!ProvisioningInv, AC!NoTaskYet, AC!Run
  <1> QED
    BY <1>1, <1>2, ProvisioningHeld, ProvisioningPools DEF AC!Run

\* A task is over: its place is free.
LEMMA ProvisioningCompletes ==
  ASSUME AC!Parameters, AC!ProvisioningInv, NEW r \in Request, AC!Complete(r)
  PROVE  AC!ProvisioningInv'
  <1>1. Held' = Held \ {r} /\ r \in Held
    BY ProvisioningHeld DEF AC!Complete, Held
  <1>2. Cardinality(Held') = pending - 1 /\ Cardinality(Held') \in Nat
    BY <1>1, ProvisioningHeld, FS_RemoveElement, FS_CardinalityType
  <1>3. pending' = pending - 1 /\ pending' \in 0..MaxPending
    BY <1>2, ProvisioningHeld DEF AC!Complete
  <1>4. phase[r] # "new"
    BY DEF AC!ProvisioningInv, AC!NoTaskYet, AC!Complete
  <1> QED
    BY <1>2, <1>3, <1>4, ProvisioningHeld, ProvisioningPools DEF AC!Complete

\* A request gives up and keeps its place.
LEMMA ProvisioningGivesUp ==
  ASSUME AC!Parameters, AC!ProvisioningInv, NEW r \in Request, AC!GiveUp(r)
  PROVE  AC!ProvisioningInv'
  <1>1. Held' = Held
    BY DEF AC!GiveUp, Held
  <1> QED
    BY <1>1, ProvisioningHeld, ProvisioningPools DEF AC!GiveUp, AC!Goes

\* The pool closes: what is queued leaves it.
LEMMA ProvisioningCloses ==
  ASSUME AC!Parameters, AC!ProvisioningInv, AC!Close \/ AC!Start
  PROVE  AC!ProvisioningInv'
  <1>1. CASE AC!Close
    <2> DEFINE Queued == {r \in Request : task[r] = "queued"}
    <2>1. Held' = Held \ Queued /\ Held \cap Queued = Queued
      BY <1>1, ProvisioningHeld DEF AC!Close, Held
    <2>2. Cardinality(Held') = pending - Cardinality(Queued) /\ Cardinality(Held') \in Nat
          /\ Cardinality(Queued) \in Nat
      <3>1. IsFiniteSet(Held') /\ Cardinality(Held') = Cardinality(Held) - Cardinality(Queued)
        <4>1. Cardinality(Held \ Queued) = Cardinality(Held) - Cardinality(Held \cap Queued)
              /\ IsFiniteSet(Held \ Queued)
          BY ProvisioningHeld, FS_Difference
        <4> QED
          BY <2>1, <4>1
      <3>2. IsFiniteSet(Queued)
        <4>1. Queued \subseteq Request
          OBVIOUS
        <4> QED
          BY <4>1, ProvisioningFinite, FS_Subset
      <3> QED
        BY <3>1, <3>2, ProvisioningHeld, FS_CardinalityType
    <2>3. pending' = pending - Cardinality(Queued) /\ pending' \in 0..MaxPending
      <3>1. pending' = pending - Cardinality(Queued)
        BY <1>1, ProvisioningCounts DEF AC!Close
      <3> QED
        BY <2>2, <3>1, ProvisioningHeld
    <2>4. \A r \in Request : phase[r] = "new" => task[r] = "none"
      BY DEF AC!ProvisioningInv, AC!NoTaskYet
    <2> HIDE DEF Queued
    <2>5. /\ phase' \in [Request -> {"new", "hashing", "hashed", "made", "replayed", "refused"}]
          /\ task' \in [Request -> {"none", "queued", "running"}]
          /\ \A r \in Request : /\ phase'[r] = "made" => phase[r] = "made"
                                /\ phase'[r] = "replayed" => phase[r] = "replayed"
                                /\ phase'[r] = "new" => (phase[r] = "new" /\ task'[r] = task[r])
      BY <1>1, <2>4, ProvisioningHeld DEF AC!Close
    <2> QED
      BY <1>1, <2>2, <2>3, <2>5, ProvisioningPools DEF AC!Close
  <1>2. CASE AC!Start
    <2>1. Held' = Held
      BY <1>2 DEF AC!Start, Held
    <2> QED
      BY <1>2, <2>1, ProvisioningHeld, ProvisioningPools DEF AC!Start
  <1> QED
    BY <1>1, <1>2

\* Other ways to change accounts write down nothing.
LEMMA ProvisioningApart ==
  ASSUME AC!ProvisioningInv, UNCHANGED <<phase, task, pending, closed, idem, link>>, AC!TypeOK'
  PROVE  AC!ProvisioningInv'
  <1>1. AC!OneAccountPerKey' <=> AC!OneAccountPerKey
    BY DEF AC!OneAccountPerKey
  <1>2. AC!PoolCounts' <=> AC!PoolCounts
    BY DEF AC!PoolCounts
  <1>3. (AC!Recorded' <=> AC!Recorded) /\ (AC!NoTaskYet' <=> AC!NoTaskYet)
    BY DEF AC!Recorded, AC!NoTaskYet
  <1> QED
    BY <1>1, <1>2, <1>3 DEF AC!ProvisioningInv

\* The other ways: an administrator makes or deletes an account, or changes the quota.
LEMMA ProvisioningOthers ==
  ASSUME AC!Parameters, AC!ProvisioningInv,
         \/ AC!CreateOther \/ (\E a \in 1..MaxAccounts : AC!DeleteAccount(a))
         \/ (\E q \in 0..MaxQuota : AC!SetQuota(q))
  PROVE  AC!ProvisioningInv'
  <1>1. UNCHANGED <<phase, task, pending, closed, idem, link>> /\ MaxAccounts \in Nat
    BY DEF AC!CreateOther, AC!DeleteAccount, AC!SetQuota, AC!Parameters
  <1>2. /\ accounts' \subseteq 1..MaxAccounts /\ created' \in 0..MaxAccounts /\ quota' \in 0..MaxQuota
    <2>1. accounts \subseteq 1..MaxAccounts /\ created \in 0..MaxAccounts /\ quota \in 0..MaxQuota
      BY DEF AC!ProvisioningInv, AC!TypeOK
    <2>2. CASE AC!CreateOther
      BY <1>1, <2>1, <2>2 DEF AC!CreateOther, AC!NewAccount
    <2>3. CASE \E a \in 1..MaxAccounts : AC!DeleteAccount(a)
      BY <2>1, <2>3 DEF AC!DeleteAccount
    <2>4. CASE \E q \in 0..MaxQuota : AC!SetQuota(q)
      BY <2>1, <2>4 DEF AC!SetQuota
    <2> QED
      BY <2>2, <2>3, <2>4
  <1>3. AC!TypeOK'
    BY <1>1, <1>2 DEF AC!ProvisioningInv, AC!TypeOK
  <1> QED
    BY <1>1, <1>3, ProvisioningApart

\* The transaction of a request: what it makes is written down under its key and its member.
LEMMA ProvisioningDecides ==
  ASSUME AC!Parameters, AC!ProvisioningInv, NEW r \in Request, AC!Decide(r)
  PROVE  AC!ProvisioningInv'
  <1>1. /\ phase[r] = "hashed" /\ UNCHANGED <<task, pending, closed, quota>>
        /\ MaxAccounts \in Nat /\ KeyOf[r] \in Key /\ BodyOf[r] \in Member \cup {NoMember}
        /\ phase \in [Request -> {"new", "hashing", "hashed", "made", "replayed", "refused"}]
        /\ NoMember \notin Member
    BY DEF AC!Decide, AC!Parameters, AC!ProvisioningInv, AC!TypeOK
  <1>2. CASE UNCHANGED <<accounts, created, idem, link>>
    <2>1. PICK p \in {"replayed", "refused", "made"} :
            /\ phase' = [phase EXCEPT ![r] = p]
            /\ p = "replayed" => AC!Known(r) /\ idem[KeyOf[r]].body = BodyOf[r]
            /\ p = "made" => created' = created + 1
      BY DEF AC!Decide, AC!Replay, AC!Goes, AC!NewAccount
    <2>2. p # "made"
      BY <1>2, <2>1 DEF AC!ProvisioningInv, AC!TypeOK
    <2>3. Held' = Held
      BY <1>1 DEF Held
    <2> QED
      BY <1>1, <1>2, <2>1, <2>2, <2>3, ProvisioningHeld, ProvisioningPools DEF AC!db
  <1>3. CASE /\ ~AC!Known(r) /\ AC!Linkable(r) /\ AC!NewAccount /\ AC!Goes(r, "made")
             /\ link' = IF BodyOf[r] = NoMember THEN link ELSE [link EXCEPT ![BodyOf[r]] = created + 1]
             /\ idem' = [idem EXCEPT ![KeyOf[r]] = [user |-> created + 1, body |-> BodyOf[r]]]
    <2>1. /\ created \in Nat /\ created + 1 \in 1..MaxAccounts /\ created' = created + 1
          /\ accounts' = accounts \cup {created + 1} /\ accounts \subseteq 1..MaxAccounts
      BY <1>1, <1>3 DEF AC!NewAccount, AC!ProvisioningInv, AC!TypeOK
    <2>2. /\ idem \in [Key -> [user : 0..MaxAccounts, body : Member \cup {NoMember}]]
          /\ link \in [Member -> 0..MaxAccounts]
      BY DEF AC!ProvisioningInv, AC!TypeOK
    <2>3. /\ idem' \in [Key -> [user : 0..MaxAccounts, body : Member \cup {NoMember}]]
          /\ idem'[KeyOf[r]].user # 0 /\ idem'[KeyOf[r]].body = BodyOf[r]
          /\ \A k \in Key : k # KeyOf[r] => idem'[k] = idem[k]
      <3>1. [user |-> created + 1, body |-> BodyOf[r]] \in [user : 0..MaxAccounts, body : Member \cup {NoMember}]
        BY <1>1, <2>1
      <3> QED
        BY <1>1, <1>3, <2>1, <2>2, <3>1
    <2>4. /\ link' \in [Member -> 0..MaxAccounts]
          /\ BodyOf[r] # NoMember => link'[BodyOf[r]] # 0
          /\ \A m \in Member : link[m] # 0 => link'[m] # 0
      BY <1>1, <1>3, <2>1, <2>2
    <2>5. /\ phase' \in [Request -> {"new", "hashing", "hashed", "made", "replayed", "refused"}]
          /\ phase'[r] = "made" /\ \A q \in Request : q # r => phase'[q] = phase[q]
      BY <1>1, <1>3 DEF AC!Goes
    <2>6. AC!TypeOK'
      <3>1. accounts' \subseteq 1..MaxAccounts
        BY <2>1
      <3>2. created' \in 0..MaxAccounts
        <4>1. MaxAccounts \in Nat
          BY <1>1
        <4> QED
          BY <4>1, <2>1
      <3> QED
        BY <1>1, <3>1, <3>2, <2>3, <2>4, <2>5 DEF AC!ProvisioningInv, AC!TypeOK
    <2>7. \A q \in Request : phase[q] \in {"made", "replayed"} => KeyOf[q] # KeyOf[r]
      BY <1>3 DEF AC!ProvisioningInv, AC!Recorded, AC!Known
    <2>8. \A q \in Request : phase[q] = "made" /\ BodyOf[q] # NoMember => BodyOf[q] # BodyOf[r]
      BY <1>3 DEF AC!ProvisioningInv, AC!Recorded, AC!Linkable
    <2>9. \A q \in Request : KeyOf[q] \in Key /\ BodyOf[q] \in Member \cup {NoMember}
      BY DEF AC!Parameters
    <2>10. AC!Recorded'
      BY <2>3, <2>4, <2>5, <2>7, <2>9 DEF AC!ProvisioningInv, AC!Recorded, AC!NoAccount
    <2>11. AC!OneAccountPerKey'
      BY <2>3, <2>5, <2>7, <2>8, <2>9, <2>10 DEF AC!ProvisioningInv, AC!OneAccountPerKey, AC!Recorded
    <2>12. AC!PoolCounts' /\ AC!NoTaskYet'
      BY <1>1, <2>5 DEF AC!ProvisioningInv, AC!PoolCounts, AC!NoTaskYet
    <2> QED
      BY <2>6, <2>10, <2>11, <2>12 DEF AC!ProvisioningInv
  <1> QED
    BY <1>2, <1>3 DEF AC!Decide

\* Initially there are no accounts and no tasks.
LEMMA ProvisioningInit == ASSUME AC!Parameters, AC!Init PROVE AC!ProvisioningInv
  <1>1. AC!TypeOK
    <2>1. MaxPending \in Nat /\ MaxAccounts \in Nat /\ MaxQuota \in Nat
      BY DEF AC!Parameters
    <2>2. pending \in 0..MaxPending /\ created \in 0..MaxAccounts /\ quota \in 0..MaxQuota
      BY <2>1 DEF AC!Init
    <2>3. idem \in [Key -> [user : 0..MaxAccounts, body : Member \cup {NoMember}]]
      BY <2>1 DEF AC!Init, AC!NoAccount
    <2>4. link \in [Member -> 0..MaxAccounts]
      BY <2>1 DEF AC!Init, AC!NoAccount
    <2> QED
      BY <2>2, <2>3, <2>4 DEF AC!Init, AC!TypeOK
  <1>2. Held = {}
    BY DEF AC!Init, Held
  <1>3. AC!PoolCounts
    BY <1>2, FS_EmptySet, ProvisioningPool DEF AC!Init
  <1>4. AC!OneAccountPerKey /\ AC!Recorded /\ AC!NoTaskYet
    BY DEF AC!Init, AC!OneAccountPerKey, AC!Recorded, AC!NoTaskYet
  <1> QED
    BY <1>1, <1>3, <1>4 DEF AC!ProvisioningInv

\* Every step keeps the invariant.
LEMMA ProvisioningKept ==
  ASSUME AC!Parameters, AC!ProvisioningInv, [AC!Next]_AC!vars
  PROVE  AC!ProvisioningInv'
  <1>1. CASE UNCHANGED AC!vars
    <2>1. AC!TypeOK' <=> AC!TypeOK
      BY <1>1 DEF AC!vars, AC!TypeOK
    <2> QED
      BY <1>1, <2>1, ProvisioningApart DEF AC!vars, AC!ProvisioningInv
  <1> QED
    BY <1>1, ProvisioningLooksUp, ProvisioningRuns, ProvisioningCompletes, ProvisioningGivesUp,
       ProvisioningDecides, ProvisioningCloses, ProvisioningOthers DEF AC!Next

\* A key makes one account and a member has one, and the pool holds exactly the tasks the executor
\* holds, however many requests are in flight, repeated or given up.
THEOREM ProvisionedOnce ==
  ASSUME AC!Parameters
  PROVE  AC!Spec => [](AC!TypeOK /\ AC!OneAccountPerKey /\ AC!PoolCounts)
  <1>1. AC!Init => AC!ProvisioningInv
    BY ProvisioningInit
  <1>2. AC!ProvisioningInv /\ [AC!Next]_AC!vars => AC!ProvisioningInv'
    BY ProvisioningKept
  <1>3. AC!ProvisioningInv => AC!TypeOK /\ AC!OneAccountPerKey /\ AC!PoolCounts
    BY DEF AC!ProvisioningInv
  <1> QED
    BY <1>1, <1>2, <1>3, PTL DEF AC!Spec

\* One more account.
LEMMA QuotaStep ==
  ASSUME AC!Parameters, AC!ProvisioningInv, [AC!Next]_AC!vars
  PROVE  AC!QuotaKeptStep
  <1> SUFFICES ASSUME accounts' \ accounts # {}
               PROVE  Cardinality(accounts') <= quota
    BY ProvisioningCounts DEF AC!QuotaKeptStep
  <1>1. IsFiniteSet(accounts) /\ quota \in Nat
    <2>1. accounts \subseteq 1..MaxAccounts /\ MaxAccounts \in Int /\ quota \in 0..MaxQuota
      BY DEF AC!ProvisioningInv, AC!TypeOK, AC!Parameters
    <2>2. IsFiniteSet(1..MaxAccounts)
      BY <2>1, FS_Interval
    <2>3. IsFiniteSet(accounts)
      BY <2>1, <2>2, FS_Subset
    <2>4. quota \in Nat
      BY <2>1 DEF AC!Parameters
    <2> QED
      BY <2>3, <2>4
  <1>2. AC!QuotaOpen /\ AC!NewAccount
    BY DEF AC!Next, AC!Lookup, AC!Run, AC!Complete, AC!GiveUp, AC!Decide, AC!Close, AC!Start,
           AC!CreateOther, AC!DeleteAccount, AC!SetQuota, AC!vars, AC!db
  <1>3. Cardinality(accounts) \in Nat /\ Cardinality(accounts') <= Cardinality(accounts) + 1
    <2>1. Cardinality(accounts) \in Nat
      BY <1>1, FS_CardinalityType
    <2>2. Cardinality(accounts \cup {created + 1})
            = IF created + 1 \in accounts THEN Cardinality(accounts) ELSE Cardinality(accounts) + 1
      BY <1>1, FS_AddElement
    <2> QED
      BY <1>2, <2>1, <2>2 DEF AC!NewAccount
  <1>4. Cardinality(accounts') \in Nat
    BY <1>1, <1>2, FS_CardinalityType, FS_AddElement DEF AC!NewAccount
  <1>5. Cardinality(accounts) < quota
    BY <1>2, ProvisioningCounts DEF AC!QuotaOpen
  <1> QED
    BY <1>1, <1>3, <1>4, <1>5

\* The accounts never grow beyond the quota in force.
THEOREM QuotaStands == ASSUME AC!Parameters PROVE AC!Spec => AC!QuotaKept
  <1>1. AC!Init => AC!ProvisioningInv
    BY ProvisioningInit
  <1>2. AC!ProvisioningInv /\ [AC!Next]_AC!vars => AC!ProvisioningInv'
    BY ProvisioningKept
  <1>3. AC!ProvisioningInv /\ [AC!Next]_AC!vars => [AC!QuotaKeptStep]_AC!vars
    BY QuotaStep
  <1> QED
    BY <1>1, <1>2, <1>3, PTL DEF AC!Spec, AC!QuotaKept

-----------------------------------------------------------------------------
(* Uploads and retries, and the file of a torrent                          *)


\* Cardinality and finiteness are what they are in the component.
LEMMA StagingCounts ==
  ASSUME NEW S
  PROVE  US!Cardinality(S) = Cardinality(S) /\ (US!IsFiniteSet(S) <=> IsFiniteSet(S))
  BY DEF US!Cardinality, Cardinality, US!IsFiniteSet, IsFiniteSet

\* The types of what the pool keeps, and that nobody's work is in it twice.
Pooled ==
  /\ queue \in Seq(US!Caller) /\ running \subseteq US!Caller /\ pending \in 0..MaxPending
  /\ pending = Len(queue) + Cardinality(running) /\ Cardinality(running) <= Workers
  /\ US!Distinct

\* That is the invariant's part about the pool.
LEMMA PoolPart ==
  Pooled <=> /\ queue \in Seq(US!Caller) /\ running \subseteq US!Caller /\ pending \in 0..MaxPending
             /\ US!PoolExact /\ US!Distinct
  <1>1. US!Cardinality(running) = Cardinality(running)
    BY StagingCounts
  <1> QED
    BY <1>1 DEF Pooled, US!PoolExact

\* What is in the pool is finite, and counted.
LEMMA PoolFinite ==
  ASSUME US!Parameters, Pooled
  PROVE  IsFiniteSet(running) /\ Cardinality(running) \in Nat /\ Len(queue) \in Nat
  <1>1. IsFiniteSet(running)
    BY FS_Subset, StagingCounts DEF US!Parameters, Pooled
  <1> QED
    BY <1>1, FS_CardinalityType DEF Pooled

\* Work is accepted while there is a slot for it.
LEMMA PoolAccepts ==
  ASSUME US!Parameters, Pooled, NEW c \in US!Caller, ~US!InPool(c), US!Run(c)
  PROVE  Pooled' /\ \A d \in US!Caller : US!InPool(d)' <=> US!InPool(d) \/ d = c
  <1>1. /\ queue \in Seq(US!Caller) /\ queue' = Append(queue, c) /\ running' = running
        /\ pending' = pending + 1 /\ pending < MaxPending /\ MaxPending \in Nat
    BY DEF US!Run, US!Busy, Pooled, US!Parameters
  <1>2. /\ queue' \in Seq(US!Caller) /\ Len(queue') = Len(queue) + 1 /\ Len(queue) \in Nat
        /\ queue'[Len(queue) + 1] = c /\ \A i \in DOMAIN queue : queue'[i] = queue[i]
        /\ DOMAIN queue' = DOMAIN queue \cup {Len(queue) + 1}
    BY <1>1
  <1>3. c \notin running /\ \A i \in DOMAIN queue : queue[i] # c
    BY DEF US!InPool
  <1>4. US!Distinct'
    BY <1>1, <1>2, <1>3 DEF US!Distinct, Pooled
  <1>5. pending' = Len(queue') + Cardinality(running') /\ Cardinality(running') <= Workers
    BY <1>1, <1>2, PoolFinite DEF Pooled
  <1>6. \A d \in US!Caller : US!InPool(d)' <=> US!InPool(d) \/ d = c
    BY <1>1, <1>2 DEF US!InPool
  <1> QED
    BY <1>1, <1>2, <1>4, <1>5, <1>6 DEF Pooled

\* A thread takes the work that waits longest.
LEMMA PoolStarts ==
  ASSUME US!Parameters, Pooled, US!StartThread
  PROVE  Pooled' /\ \A d \in US!Caller : US!InPool(d)' <=> US!InPool(d)
  <1>1. /\ queue \in Seq(US!Caller) /\ queue # <<>> /\ queue' = Tail(queue) /\ running' = running \cup {Head(queue)}
        /\ pending' = pending /\ Cardinality(running) < Workers /\ Workers \in Nat /\ running \subseteq US!Caller
    <2>1. US!Cardinality(running) = Cardinality(running)
      BY StagingCounts
    <2> QED
      BY <2>1 DEF US!StartThread, Pooled, US!Parameters
  <1>2. /\ Len(queue) \in Nat \ {0} /\ Len(queue') = Len(queue) - 1 /\ queue' \in Seq(US!Caller)
        /\ Head(queue) = queue[1] /\ DOMAIN queue = 1..Len(queue) /\ DOMAIN queue' = 1..(Len(queue) - 1)
        /\ \A i \in 1..(Len(queue) - 1) : queue'[i] = queue[i + 1]
    BY <1>1
  <1>3. 1 \in DOMAIN queue /\ Head(queue) \in US!Caller /\ Head(queue) \notin running
    BY <1>1, <1>2 DEF US!Distinct, Pooled
  <1>4. Cardinality(running') = Cardinality(running) + 1 /\ Cardinality(running) \in Nat
    BY <1>1, <1>3, PoolFinite, FS_AddElement
  <1>5. pending' = Len(queue') + Cardinality(running') /\ Cardinality(running') <= Workers
    BY <1>1, <1>2, <1>4 DEF Pooled
  <1>6. US!Distinct'
    <2>1. ASSUME NEW i \in DOMAIN queue', NEW j \in DOMAIN queue', queue'[i] = queue'[j] PROVE i = j
      <3>1. i + 1 \in DOMAIN queue /\ j + 1 \in DOMAIN queue /\ queue[i + 1] = queue[j + 1] /\ i \in Nat /\ j \in Nat
        BY <1>2, <2>1
      <3>2. i + 1 = j + 1
        BY <3>1 DEF US!Distinct, Pooled
      <3> QED
        BY <3>1, <3>2
    <2>2. ASSUME NEW i \in DOMAIN queue' PROVE queue'[i] \notin running'
      <3>1. i + 1 \in DOMAIN queue /\ queue'[i] = queue[i + 1] /\ i + 1 # 1
        BY <1>2
      <3>2. queue[i + 1] \notin running /\ queue[i + 1] # queue[1]
        BY <1>3, <3>1 DEF US!Distinct, Pooled
      <3> QED
        BY <1>1, <1>2, <3>1, <3>2
    <2> QED
      BY <2>1, <2>2 DEF US!Distinct
  <1>7. ASSUME NEW d \in US!Caller PROVE US!InPool(d)' <=> US!InPool(d)
    <2>1. ASSUME NEW i \in DOMAIN queue, queue[i] = d PROVE d \in running' \/ \E j \in DOMAIN queue' : queue'[j] = d
      <3>1. CASE i = 1
        BY <1>1, <1>2, <2>1, <3>1
      <3>2. CASE i # 1
        <4>1. i - 1 \in DOMAIN queue' /\ queue'[i - 1] = queue[i]
          BY <1>2, <3>2
        <4> QED
          BY <2>1, <4>1
      <3> QED
        BY <3>1, <3>2
    <2>2. ASSUME NEW i \in DOMAIN queue', queue'[i] = d PROVE \E j \in DOMAIN queue : queue[j] = d
      <3>1. i + 1 \in DOMAIN queue /\ queue'[i] = queue[i + 1]
        BY <1>2
      <3> QED
        BY <2>2, <3>1
    <2>3. d \in running' <=> d \in running \/ d = queue[1]
      BY <1>1, <1>2
    <2> QED
      BY <1>3, <2>1, <2>2, <2>3 DEF US!InPool
  <1>8. running' \subseteq US!Caller
    BY <1>1, <1>3
  <1> QED
    BY <1>1, <1>2, <1>5, <1>6, <1>7, <1>8 DEF Pooled

\* A thread is done, and its slot is given back.
LEMMA PoolCompletes ==
  ASSUME US!Parameters, Pooled, NEW c \in US!Caller, US!Completed(c)
  PROVE  Pooled' /\ US!InPool(c) /\ \A d \in US!Caller : US!InPool(d)' <=> US!InPool(d) /\ d # c
  <1>1. c \in running /\ running' = running \ {c} /\ pending' = pending - 1 /\ queue' = queue
    BY DEF US!Completed
  <1>2. /\ Cardinality(running') = Cardinality(running) - 1 /\ Cardinality(running) \in Nat
        /\ Len(queue) \in Nat /\ Cardinality(running') \in Nat
    BY <1>1, PoolFinite, FS_RemoveElement, FS_CardinalityType
  <1>3. pending' = Len(queue') + Cardinality(running') /\ Cardinality(running') <= Workers /\ pending' \in 0..MaxPending
    BY <1>1, <1>2 DEF Pooled, US!Parameters
  <1>4. US!Distinct' /\ \A i \in DOMAIN queue : queue[i] # c
    BY <1>1 DEF US!Distinct, Pooled
  <1>5. \A d \in US!Caller : US!InPool(d)' <=> US!InPool(d) /\ d # c
    BY <1>1, <1>4 DEF US!InPool
  <1>6. US!InPool(c)
    BY <1>1 DEF US!InPool
  <1> QED
    BY <1>1, <1>3, <1>4, <1>5, <1>6 DEF Pooled

\* Closing cancels what waits.
LEMMA PoolCloses ==
  ASSUME US!Parameters, Pooled, US!Close
  PROVE  /\ Pooled' /\ running' = running
         /\ \A d \in US!Caller : US!InPool(d)' <=> d \in running
         /\ \A d \in US!Caller : d \in running => ~\E i \in DOMAIN queue : queue[i] = d
  <1>1. queue' = <<>> /\ running' = running /\ pending' = pending - Len(queue)
    BY DEF US!Close
  <1>2. Len(queue') = 0 /\ DOMAIN queue' = {} /\ queue' \in Seq(US!Caller)
    BY <1>1
  <1>3. pending' = Len(queue') + Cardinality(running') /\ Cardinality(running') <= Workers /\ pending' \in 0..MaxPending
    BY <1>1, <1>2, PoolFinite DEF Pooled, US!Parameters
  <1>4. US!Distinct' /\ \A d \in US!Caller : d \in running => ~\E i \in DOMAIN queue : queue[i] = d
    BY <1>1, <1>2 DEF US!Distinct, Pooled
  <1>5. \A d \in US!Caller : US!InPool(d)' <=> d \in running
    BY <1>1, <1>2 DEF US!InPool
  <1> QED
    BY <1>1, <1>2, <1>3, <1>4, <1>5 DEF Pooled

\* What the invariant says of one request.
LEMMA StagingFacts ==
  ASSUME US!Parameters, US!StagingInv
  PROVE  /\ Pooled /\ US!TypeOK /\ US!RowWithJob
         /\ \A c \in US!Caller : US!Placed(c) /\ phase[c] \in US!Phases /\ c # None
         /\ \A u \in Upload : US!Held(u) /\ US!Kept(u) /\ u \in US!Caller /\ u \notin Retrier /\ u # None
         /\ \A r \in Retrier : r \in US!Caller /\ r \notin Upload /\ r # None
         /\ \A k \in US!Key : US!Filed(k)
         /\ \A u \in Upload : phase[u] \in US!Holding => staged[u].key \in US!Key
         /\ US!Key = Upload /\ rowLock \in Upload \cup {None}
         /\ reads \subseteq Retrier /\ (\A q, r \in reads : q = r) /\ closed \in BOOLEAN
         /\ abandoned \subseteq US!Caller /\ unsure \subseteq US!Key /\ files \in [US!Key -> Upload \cup {None}]
         /\ staged \in [US!Caller -> [key : US!Key \cup {None}, gen : Nat]]
  <1>1. Pooled
    BY PoolPart DEF US!StagingInv, US!TypeOK
  <1>2. \A u \in Upload : US!Held(u) /\ US!Kept(u) /\ u \in US!Caller /\ u \notin Retrier /\ u # None
    BY DEF US!StagingInv, US!Caller, US!Parameters
  <1>3. \A r \in Retrier : r \in US!Caller /\ r \notin Upload /\ r # None
    BY DEF US!Caller, US!Parameters
  <1>4. \A c \in US!Caller : US!Placed(c) /\ phase[c] \in US!Phases /\ c # None
    BY DEF US!StagingInv, US!TypeOK, US!Parameters
  <1>5. \A u \in Upload : phase[u] \in US!Holding => staged[u].key \in US!Key
    BY <1>2 DEF US!Held, US!StagingInv, US!RowWithJob, US!Key
  <1>6. rowLock \in Upload \cup {None}
    BY <1>3 DEF US!StagingInv, US!TypeOK, US!RowWithJob, US!Caller
  <1>7. /\ reads \subseteq Retrier /\ (\A q, r \in reads : q = r) /\ closed \in BOOLEAN
        /\ abandoned \subseteq US!Caller /\ unsure \subseteq US!Key /\ files \in [US!Key -> Upload \cup {None}]
        /\ staged \in [US!Caller -> [key : US!Key \cup {None}, gen : Nat]]
    BY DEF US!StagingInv, US!TypeOK
  <1> QED
    BY <1>1, <1>2, <1>3, <1>4, <1>5, <1>6, <1>7 DEF US!StagingInv, US!Key

\* A step of one request that leaves the row alone and publishes nothing.
LEMMA StagingRequest ==
  ASSUME US!Parameters, US!StagingInv, NEW c \in US!Caller, NEW p \in US!Phases,
         phase' = [phase EXCEPT ![c] = p], UNCHANGED <<row, job, removing, purges>>,
         Pooled', \A d \in US!Caller : d # c => (US!InPool(d)' <=> US!InPool(d)),
         closed' \in BOOLEAN, abandoned' \subseteq US!Caller,
         reads' \subseteq Retrier, \A q, r \in reads' : q = r,
         \A d \in US!Caller : d # c => (d \in reads' <=> d \in reads),
         p \in US!Waiting => US!InPool(c)', US!InPool(c)' => p \in US!Waiting \cup {"done"},
         c \in Upload => p \notin {"reading", "read"},
         c \in Retrier => p \in {"new", "reading", "read", "done"} /\ (US!InPool(c)' <=> c \in reads'),
         rowLock' \in Upload \cup {None}, \A d \in Upload : d # c => (rowLock' = d <=> rowLock = d),
         c \in Upload => (rowLock' = c <=> p \in US!Holding),
         staged' \in [US!Caller -> [key : US!Key \cup {None}, gen : Nat]],
         \A d \in US!Caller : d # c => staged'[d] = staged[d],
         c \in Upload /\ p \in US!Holding =>
           row.state \in {"NONE", "PURGED"} /\ staged'[c].key = IF row.state = "NONE" THEN c ELSE row.key,
         p = "cleanup" => staged'[c].key \in US!Key,
         files' \in [US!Key -> Upload \cup {None}],
         \A k \in US!Key : files'[k] = files[k] \/ files'[k] = None,
         unsure' \subseteq US!Key, unsure \subseteq unsure',
         \A k \in US!Key : files'[k] = c =>
           /\ staged'[c].key = k
           /\ \/ p \in US!Publishing
              \/ p = "done" /\ (row.key = k \/ k \in unsure'),
         c \in Upload /\ p \in {"staged", "body"} => files'[staged'[c].key] \in {c, None},
         c \in Upload /\ p = "cleanup" /\ files'[staged'[c].key] = c /\ row.key = staged'[c].key =>
           row.state \in {"NONE", "PURGED"}
  PROVE  US!StagingInv'
  <1>1. phase' \in [US!Caller -> US!Phases] /\ phase'[c] = p /\ \A d \in US!Caller : d # c => phase'[d] = phase[d]
    BY DEF US!StagingInv, US!TypeOK
  <1>2. US!TypeOK' /\ US!PoolExact' /\ US!Distinct'
    <2>1. /\ queue' \in Seq(US!Caller) /\ running' \subseteq US!Caller /\ pending' \in 0..MaxPending
          /\ US!PoolExact' /\ US!Distinct'
      <3>1. US!Cardinality(running') = Cardinality(running')
        BY StagingCounts
      <3> QED
        BY <3>1 DEF Pooled, US!PoolExact
    <2>2. rowLock' \in US!Caller \cup {None}
      BY DEF US!Caller
    <2> QED
      BY <1>1, <2>1, <2>2 DEF US!StagingInv, US!TypeOK
  <1>3. US!RowWithJob'
    BY DEF US!StagingInv, US!RowWithJob, US!Parameters, US!Caller
  <1>4. ASSUME NEW d \in US!Caller PROVE US!Placed(d)'
    <2>1. CASE d = c
      BY <1>1, <2>1 DEF US!Placed
    <2>2. CASE d # c
      <3>1. US!Placed(d) /\ phase'[d] = phase[d] /\ (US!InPool(d)' <=> US!InPool(d)) /\ (d \in reads' <=> d \in reads)
        BY <1>1, <2>2 DEF US!StagingInv
      <3> QED
        BY <3>1 DEF US!Placed
    <2> QED
      BY <2>1, <2>2
  <1>5. ASSUME NEW u \in Upload PROVE US!Held(u)' /\ US!Kept(u)'
    <2>1. CASE u = c
      BY <1>1, <2>1 DEF US!Held, US!Kept
    <2>2. CASE u # c
      <3>1. US!Held(u) /\ US!Kept(u) /\ phase'[u] = phase[u] /\ staged'[u] = staged[u] /\ (rowLock' = u <=> rowLock = u)
            /\ u # None /\ (phase[u] \in US!Holding => staged[u].key \in US!Key)
        BY <1>1, <2>2, StagingFacts
      <3>2. US!Held(u)'
        BY <3>1 DEF US!Held
      <3>3. US!Kept(u)'
        <4>1. CASE phase[u] \in {"staged", "body"}
          <5>1. staged[u].key \in US!Key
            BY <3>1, <4>1 DEF US!Holding
          <5> QED
            BY <3>1, <4>1, <5>1 DEF US!Kept
        <4>2. CASE phase[u] = "cleanup"
          <5>1. staged[u].key \in US!Key
            BY <3>1, <4>2 DEF US!Held
          <5> QED
            BY <3>1, <4>2, <5>1 DEF US!Kept
        <4> QED
          BY <3>1, <4>1, <4>2 DEF US!Kept
      <3> QED
        BY <3>2, <3>3
    <2> QED
      BY <2>1, <2>2
  <1>6. ASSUME NEW k \in US!Key PROVE US!Filed(k)'
    <2>1. CASE files'[k] = None
      BY <2>1 DEF US!Filed
    <2>2. CASE files'[k] = c
      BY <1>1, <2>2 DEF US!Filed
    <2>3. CASE files'[k] # None /\ files'[k] # c
      <3>1. files'[k] = files[k] /\ files[k] \in US!Caller /\ US!Filed(k)
        BY <2>3, StagingFacts DEF US!TypeOK
      <3>2. phase'[files[k]] = phase[files[k]] /\ staged'[files[k]] = staged[files[k]]
        BY <1>1, <2>3, <3>1
      <3> QED
        BY <2>3, <3>1, <3>2 DEF US!Filed
    <2> QED
      BY <2>1, <2>2, <2>3
  <1> QED
    BY <1>2, <1>3, <1>4, <1>5, <1>6 DEF US!StagingInv

\* The phases an upload passes are those.
LEMMA StagingPhases ==
  /\ US!Waiting \subseteq US!Phases /\ US!Holding \subseteq US!Phases /\ US!Publishing \subseteq US!Phases
  /\ "done" \in US!Phases /\ "valid" \in US!Phases /\ "new" \in US!Phases /\ "read" \in US!Phases
  /\ "done" \notin US!Holding \cup US!Waiting \cup US!Publishing
  BY DEF US!Phases, US!Holding, US!Waiting, US!Publishing

\* A step of one upload that neither publishes nor removes a file.
LEMMA StagingUpload ==
  ASSUME US!Parameters, US!StagingInv, NEW u \in Upload, NEW p \in US!Phases \ {"reading", "read"},
         phase' = [phase EXCEPT ![u] = p], UNCHANGED <<reads, files, row, job, staged, removing, purges, unsure>>,
         Pooled', \A d \in US!Caller : d # u => (US!InPool(d)' <=> US!InPool(d)),
         p \in US!Waiting => US!InPool(u)', US!InPool(u)' => p \in US!Waiting \cup {"done"},
         closed' \in BOOLEAN, abandoned' \subseteq US!Caller,
         rowLock' = IF p \in US!Holding \/ rowLock # u THEN rowLock ELSE None,
         p \in US!Holding => phase[u] \in US!Holding,
         phase[u] \in US!Publishing => p \in US!Publishing, phase[u] = "done" => p = "done",
         p \in {"staged", "body"} => phase[u] = "staged" \/ files[staged[u].key] = u,
         p = "cleanup" => phase[u] = "staged"
  PROVE  US!StagingInv'
  <1>1. /\ US!Held(u) /\ US!Kept(u) /\ u \in US!Caller /\ u \notin Retrier /\ u # None
        /\ rowLock \in Upload \cup {None}
    BY StagingFacts
  <1>2. /\ rowLock' \in Upload \cup {None} /\ (rowLock' = u <=> p \in US!Holding)
        /\ \A d \in Upload : d # u => (rowLock' = d <=> rowLock = d)
    BY <1>1, StagingFacts DEF US!Held
  <1>3. p \in US!Holding => /\ row.state \in {"NONE", "PURGED"}
                            /\ staged'[u].key = IF row.state = "NONE" THEN u ELSE row.key
    BY <1>1 DEF US!Held
  <1>4. p = "cleanup" => staged'[u].key \in US!Key /\ row.state \in {"NONE", "PURGED"}
    BY <1>1, StagingFacts DEF US!Held, US!Holding
  <1>5. \A k \in US!Key : files'[k] = u =>
           /\ staged'[u].key = k
           /\ p \in US!Publishing \/ (p = "done" /\ (row.key = k \/ k \in unsure'))
    BY <1>1, StagingFacts DEF US!Filed
  <1>6. p \in {"staged", "body"} => files'[staged'[u].key] \in {u, None}
    BY <1>1 DEF US!Kept
  <1>7. /\ reads' \subseteq Retrier /\ (\A q, r \in reads' : q = r) /\ unsure' \subseteq US!Key
        /\ files' \in [US!Key -> Upload \cup {None}]
        /\ staged' \in [US!Caller -> [key : US!Key \cup {None}, gen : Nat]]
    BY StagingFacts
  <1> QED
    <2>1. /\ UNCHANGED <<row, job, removing, purges>> /\ p \in US!Phases /\ p \notin {"reading", "read"}
          /\ \A d \in US!Caller : d # u => (d \in reads' <=> d \in reads)
          /\ \A d \in US!Caller : d # u => staged'[d] = staged[d]
          /\ \A k \in US!Key : files'[k] = files[k] \/ files'[k] = None
          /\ unsure \subseteq unsure'
      OBVIOUS
    <2> QED
      BY <1>1, <1>2, <1>3, <1>4, <1>5, <1>6, <1>7, <2>1, StagingRequest, ZenonT(60)

\* Requests that are refused, leave the pool alone, or go on without the row.
LEMMA StagingRefuses ==
  ASSUME US!Parameters, US!StagingInv, NEW c \in US!Caller, US!Refuse(c)
  PROVE  US!StagingInv'
  <1>1. /\ US!Placed(c) /\ c # None /\ phase[c] \in {"new", "valid", "read", "locked"}
        /\ phase' = [phase EXCEPT ![c] = "done"] /\ rowLock' = IF rowLock = c THEN None ELSE rowLock
        /\ UNCHANGED <<queue, running, pending, closed, abandoned, reads, files, row, job, staged, removing, purges, unsure>>
    BY StagingFacts DEF US!Refuse, US!Goes, US!pool
  <1>2. ~US!InPool(c)
    BY <1>1 DEF US!Placed, US!Waiting
  <1>3. Pooled' /\ \A d \in US!Caller : (US!InPool(d)' <=> US!InPool(d))
    BY <1>1, StagingFacts DEF Pooled, US!Distinct, US!InPool
  <1>4. US!TypeOK /\ US!RowWithJob
    BY StagingFacts
  <1>5. rowLock' \in Upload \cup {None} /\ rowLock' # c /\ \A d \in Upload : d # c => (rowLock' = d <=> rowLock = d)
    BY <1>1, <1>4 DEF US!TypeOK, US!RowWithJob, US!Caller, US!Parameters
  <1>6. \A k \in US!Key : files[k] # c
    BY <1>1, StagingFacts DEF US!Filed, US!Publishing, US!Holding
  <1>7. "done" \in US!Phases /\ "done" \notin US!Holding /\ "done" \notin US!Waiting
    BY DEF US!Phases, US!Holding, US!Waiting
  <1>8. reads \subseteq Retrier /\ \A q, r \in reads : q = r
    BY <1>4 DEF US!TypeOK, US!StagingInv
  <1>9. closed \in BOOLEAN /\ abandoned \subseteq US!Caller /\ unsure \subseteq US!Key
        /\ staged \in [US!Caller -> [key : US!Key \cup {None}, gen : Nat]] /\ files \in [US!Key -> Upload \cup {None}]
    BY <1>4 DEF US!TypeOK
  <1>10. c \in Retrier => (US!InPool(c)' <=> c \in reads')
    BY <1>1, <1>2, <1>3 DEF US!Placed
  <1> QED
    BY <1>1, <1>2, <1>3, <1>5, <1>6, <1>7, <1>8, <1>9, <1>10, StagingRequest, ZenonT(60)

\* Sending an upload for validation, and its validation.
LEMMA StagingValidates ==
  ASSUME US!Parameters, US!StagingInv, NEW u \in Upload, US!Validate(u) \/ US!Validated(u)
  PROVE  US!StagingInv'
  <1>1. /\ US!Held(u) /\ US!Placed(u) /\ u \in US!Caller /\ u # None /\ Pooled
        /\ closed \in BOOLEAN /\ abandoned \subseteq US!Caller
    BY StagingFacts
  <1>2. CASE US!Validate(u)
    <2>1. /\ phase[u] = "new" /\ US!Run(u) /\ phase' = [phase EXCEPT ![u] = "validating"]
          /\ UNCHANGED <<closed, abandoned, reads, files, row, job, rowLock, staged, removing, purges, unsure>>
      BY <1>2 DEF US!Validate, US!Run, US!Goes, US!db
    <2>2. ~US!InPool(u) /\ rowLock # u
      BY <1>1, <2>1 DEF US!Placed, US!Waiting, US!Held, US!Holding
    <2>3. Pooled' /\ \A d \in US!Caller : US!InPool(d)' <=> US!InPool(d) \/ d = u
      BY <1>1, <2>1, <2>2, PoolAccepts
    <2>4. /\ "validating" \in US!Waiting /\ "validating" \notin US!Holding /\ phase[u] \notin US!Publishing
          /\ "validating" \in US!Phases \ {"reading", "read"}
      BY <2>1 DEF US!Waiting, US!Holding, US!Publishing, US!Phases
    <2> QED
      BY <1>1, <2>1, <2>2, <2>3, <2>4, StagingUpload, ZenonT(60)
  <1>3. CASE US!Validated(u)
    <2>1. PICK p \in {"valid", "done"} :
             /\ phase' = [phase EXCEPT ![u] = p] /\ US!Completed(u) /\ phase[u] \in {"validating", "done"}
             /\ (phase[u] = "done" => p = "done")
             /\ UNCHANGED <<closed, abandoned, reads, files, row, job, rowLock, staged, removing, purges, unsure>>
      BY <1>3 DEF US!Validated, US!Completed, US!Goes, US!db
    <2>2. rowLock # u
      BY <1>1, <2>1 DEF US!Held, US!Holding
    <2>3. Pooled' /\ \A d \in US!Caller : US!InPool(d)' <=> US!InPool(d) /\ d # u
      BY <1>1, <2>1, PoolCompletes
    <2>4. /\ p \notin US!Waiting /\ p \notin US!Holding /\ phase[u] \notin US!Publishing
          /\ p \in US!Phases \ {"reading", "read"} /\ p \notin {"staged", "body", "cleanup"}
      BY <2>1 DEF US!Waiting, US!Holding, US!Publishing, US!Phases
    <2> QED
      BY <1>1, <2>1, <2>2, <2>3, <2>4, StagingUpload, ZenonT(60)
  <1> QED
    BY <1>2, <1>3

\* The row is locked for an upload that needs a payload.
LEMMA StagingAdmits ==
  ASSUME US!Parameters, US!StagingInv, NEW u \in Upload, US!Admit(u)
  PROVE  US!StagingInv'
  <1>1. /\ US!Held(u) /\ US!Placed(u) /\ u \in US!Caller /\ u \notin Retrier /\ u # None /\ US!RowWithJob /\ US!TypeOK
        /\ US!Key = Upload /\ phase[u] = "valid" /\ rowLock = None
        /\ UNCHANGED <<queue, running, pending, closed, abandoned, reads, files, row, job, removing, purges, unsure>>
    BY StagingFacts DEF US!Admit, US!pool
  <1>2. Pooled' /\ (\A d \in US!Caller : (US!InPool(d)' <=> US!InPool(d))) /\ ~US!InPool(u)
    BY <1>1, StagingFacts DEF Pooled, US!Distinct, US!InPool, US!Placed, US!Waiting
  <1>3. \A k \in US!Key : files[k] # u
    BY <1>1, StagingFacts DEF US!Filed, US!Publishing, US!Holding
  <1>4. CASE /\ row.state \in {"NONE", "PURGED"} /\ phase' = [phase EXCEPT ![u] = "locked"] /\ rowLock' = u
             /\ staged' = [staged EXCEPT ![u] = [key |-> IF row.state = "NONE" THEN u ELSE row.key, gen |-> row.gen]]
    <2>1. (IF row.state = "NONE" THEN u ELSE row.key) \in US!Key /\ row.gen \in Nat
      BY <1>1 DEF US!RowWithJob, US!TypeOK
    <2>2. /\ staged' \in [US!Caller -> [key : US!Key \cup {None}, gen : Nat]]
          /\ staged'[u].key = (IF row.state = "NONE" THEN u ELSE row.key)
          /\ \A d \in US!Caller : d # u => staged'[d] = staged[d]
      BY <1>1, <1>4, <2>1, StagingFacts
    <2>3. "locked" \in US!Phases /\ "locked" \in US!Holding /\ "locked" \notin US!Waiting
      BY DEF US!Phases, US!Holding, US!Waiting
    <2> QED
      <3>1. /\ UNCHANGED <<row, job, removing, purges>> /\ "locked" \notin {"reading", "read", "cleanup", "staged", "body"}
            /\ \A d \in US!Caller : d # u => (d \in reads' <=> d \in reads)
            /\ \A k \in US!Key : (files'[k] = files[k] \/ files'[k] = None) /\ files'[k] # u
            /\ unsure \subseteq unsure' /\ (~US!InPool(u))'
        BY <1>1, <1>2, <1>3
      <3>2. /\ \A d \in Upload : d # u => (rowLock' = d <=> rowLock = d)
            /\ reads' \subseteq Retrier /\ (\A q, r \in reads' : q = r) /\ closed' \in BOOLEAN
            /\ abandoned' \subseteq US!Caller /\ unsure' \subseteq US!Key /\ files' \in [US!Key -> Upload \cup {None}]
        BY <1>1, <1>4, StagingFacts
      <3> QED
        BY <1>1, <1>2, <1>4, <2>2, <2>3, <3>1, <3>2, StagingRequest, ZenonT(60)
  <1>5. CASE phase' = [phase EXCEPT ![u] = "done"] /\ UNCHANGED <<rowLock, staged>>
    <2>1. "done" \in US!Phases \ {"reading", "read"} /\ "done" \notin US!Holding \cup US!Waiting \cup US!Publishing
      BY StagingPhases
    <2>2. phase[u] \notin US!Publishing
      BY <1>1 DEF US!Publishing, US!Holding
    <2> QED
      BY <1>1, <1>2, <1>5, <2>1, <2>2, StagingFacts, StagingUpload, ZenonT(60)
  <1> QED
    BY <1>4, <1>5 DEF US!Admit, US!Goes

\* Its payload is sent to the disk, written, and the transaction goes on.
LEMMA StagingStages ==
  ASSUME US!Parameters, US!StagingInv, NEW u \in Upload, US!Stage(u) \/ US!Staged(u) \/ US!BodyFinished(u)
  PROVE  US!StagingInv'
  <1>1. /\ US!Held(u) /\ US!Placed(u) /\ u \in US!Caller /\ u # None /\ Pooled
        /\ closed \in BOOLEAN /\ abandoned \subseteq US!Caller
    BY StagingFacts
  <1>2. CASE US!Stage(u)
    <2>1. /\ phase[u] = "locked" /\ US!Run(u) /\ phase' = [phase EXCEPT ![u] = "staging"]
          /\ UNCHANGED <<closed, abandoned, reads, files, row, job, rowLock, staged, removing, purges, unsure>>
      BY <1>2 DEF US!Stage, US!Run, US!Goes, US!db
    <2>2. ~US!InPool(u)
      BY <1>1, <2>1 DEF US!Placed, US!Waiting
    <2>3. Pooled' /\ \A d \in US!Caller : US!InPool(d)' <=> US!InPool(d) \/ d = u
      BY <1>1, <2>1, <2>2, PoolAccepts
    <2>4. /\ "staging" \in US!Waiting /\ "staging" \in US!Holding /\ phase[u] \in US!Holding
          /\ "staging" \in US!Publishing /\ "staging" \in US!Phases \ {"reading", "read"}
      BY <2>1 DEF US!Waiting, US!Holding, US!Publishing, US!Phases
    <2> QED
      BY <1>1, <2>1, <2>2, <2>3, <2>4, StagingUpload, ZenonT(60)
  <1>3. CASE US!Staged(u)
    <2>1. PICK p \in {"staged", "settled"} :
             /\ phase' = [phase EXCEPT ![u] = p] /\ US!Completed(u) /\ phase[u] \in {"staging", "settling"}
             /\ files[staged[u].key] = u
             /\ UNCHANGED <<closed, abandoned, reads, files, row, job, rowLock, staged, removing, purges, unsure>>
      BY <1>3 DEF US!Staged, US!Completed, US!Goes, US!db
    <2>2. Pooled' /\ \A d \in US!Caller : US!InPool(d)' <=> US!InPool(d) /\ d # u
      BY <1>1, <2>1, PoolCompletes
    <2>3. /\ p \notin US!Waiting /\ p \in US!Holding /\ phase[u] \in US!Holding /\ p \in US!Publishing
          /\ p \in US!Phases \ {"reading", "read"} /\ p # "cleanup"
      BY <2>1 DEF US!Waiting, US!Holding, US!Publishing, US!Phases
    <2> QED
      BY <1>1, <2>1, <2>2, <2>3, StagingUpload, ZenonT(60)
  <1>4. CASE US!BodyFinished(u)
    <2>1. /\ phase[u] = "staged" /\ phase' = [phase EXCEPT ![u] = "body"]
          /\ UNCHANGED <<queue, running, pending, closed, abandoned, reads, files, row, job, rowLock, staged,
                         removing, purges, unsure>>
      BY <1>4 DEF US!BodyFinished, US!Goes, US!db, US!pool
    <2>2. Pooled' /\ (\A d \in US!Caller : (US!InPool(d)' <=> US!InPool(d))) /\ ~US!InPool(u)
      BY <1>1, <2>1 DEF Pooled, US!Distinct, US!InPool, US!Placed, US!Waiting
    <2>3. /\ "body" \notin US!Waiting /\ "body" \in US!Holding /\ phase[u] \in US!Holding /\ "body" \in US!Publishing
          /\ "body" \in US!Phases \ {"reading", "read"}
      BY <2>1 DEF US!Waiting, US!Holding, US!Publishing, US!Phases
    <2> QED
      BY <1>1, <2>1, <2>2, <2>3, StagingUpload, ZenonT(60)
  <1> QED
    BY <1>2, <1>3, <1>4

\* The client leaves, or the transaction fails.
LEMMA StagingLeaves ==
  ASSUME US!Parameters, US!StagingInv, NEW u \in Upload, US!Leave(u)
  PROVE  US!StagingInv'
  <1> DEFINE p == CASE phase[u] = "staging" -> "settling" [] phase[u] = "staged" -> "cleanup" [] OTHER -> "done"
  <1>1. /\ US!Held(u) /\ US!Placed(u) /\ u \in US!Caller /\ u # None /\ Pooled
        /\ closed \in BOOLEAN /\ abandoned \subseteq US!Caller /\ rowLock \in Upload \cup {None}
    BY StagingFacts
  <1>2. /\ phase[u] \in {"validating", "valid", "locked", "staging", "staged"} /\ phase' = [phase EXCEPT ![u] = p]
        /\ rowLock' = (IF rowLock = u /\ phase[u] # "staging" THEN None ELSE rowLock)
        /\ abandoned' = (IF phase[u] = "validating" THEN abandoned \cup {u} ELSE abandoned)
        /\ UNCHANGED <<queue, running, pending, closed, reads, files, row, job, staged, removing, purges, unsure>>
    BY DEF US!Leave, US!Goes
  <1>3. Pooled' /\ (\A d \in US!Caller : (US!InPool(d)' <=> US!InPool(d))) /\ abandoned' \subseteq US!Caller
    BY <1>1, <1>2 DEF Pooled, US!Distinct, US!InPool
  <1>4. /\ phase[u] = "staging" => p = "settling"
        /\ phase[u] = "staged" => p = "cleanup"
        /\ phase[u] \notin {"staging", "staged"} => p = "done"
    OBVIOUS
  <1> HIDE DEF p
  <1>5. /\ p \in US!Phases \ {"reading", "read"} /\ (p \in US!Holding => phase[u] \in US!Holding)
        /\ (p \in US!Waiting => phase[u] = "staging") /\ (phase[u] \in US!Publishing => p \in US!Publishing)
        /\ (p \in US!Holding <=> phase[u] = "staging")
    BY <1>2, <1>4 DEF US!Waiting, US!Holding, US!Publishing, US!Phases
  <1>6. (p \in US!Waiting => US!InPool(u)) /\ (US!InPool(u) => p \in US!Waiting \cup {"done"})
    BY <1>1, <1>2, <1>4, <1>5 DEF US!Placed, US!Waiting
  <1>7. /\ rowLock' = (IF p \in US!Holding \/ rowLock # u THEN rowLock ELSE None)
        /\ (phase[u] = "done" => p = "done") /\ p \notin {"staged", "body"} /\ (p = "cleanup" => phase[u] = "staged")
    BY <1>1, <1>2, <1>4, <1>5
  <1>8. PICK q \in US!Phases \ {"reading", "read"} : q = p
    BY <1>5
  <1> QED
    BY <1>1, <1>2, <1>3, <1>5, <1>6, <1>7, <1>8, StagingUpload, ZenonT(60)

\* An upload that fails or has left removes its own file, if it is still there.
LEMMA StagingRemoves ==
  ASSUME US!Parameters, US!StagingInv, NEW u \in Upload, US!StageFails(u) \/ US!Settle(u) \/ US!Cleanup(u)
  PROVE  US!StagingInv' /\ staged[u].key \in US!Key
         /\ \A k \in US!Key : files'[k] = files[k] \/ (files[k] = u /\ k = staged[u].key)
  <1>1. /\ US!Held(u) /\ US!Placed(u) /\ u \in US!Caller /\ u \notin Retrier /\ u # None /\ Pooled
        /\ (phase[u] \in US!Holding => staged[u].key \in US!Key) /\ rowLock \in Upload \cup {None}
    BY StagingFacts
  <1>2. phase[u] \in {"staging", "settling", "settled", "cleanup"} /\ US!RemoveOwned(u)
        /\ UNCHANGED <<closed, abandoned, reads, row, job, staged, removing, purges>>
    BY DEF US!StageFails, US!Settle, US!Cleanup, US!Completed, US!db, US!pool
  <1>3. staged[u].key \in US!Key
    BY <1>1, <1>2 DEF US!Held, US!Holding
  <1>4. /\ files' \in [US!Key -> Upload \cup {None}]
        /\ \A k \in US!Key : files'[k] = files[k] \/ (files[k] = u /\ k = staged[u].key /\ files'[k] = None)
        /\ unsure \subseteq unsure' /\ unsure' \subseteq US!Key
        /\ files'[staged[u].key] = u => staged[u].key \in unsure'
    <2>1. files \in [US!Key -> Upload \cup {None}] /\ unsure \subseteq US!Key
      BY StagingFacts
    <2>2. CASE /\ files' = [files EXCEPT ![staged[u].key] = IF files[staged[u].key] = u THEN None
                                                          ELSE files[staged[u].key]]
               /\ UNCHANGED unsure
      BY <1>1, <1>3, <2>1, <2>2
    <2>3. CASE unsure' = unsure \cup {staged[u].key} /\ UNCHANGED files
      BY <1>3, <2>1, <2>3
    <2> QED
      BY <1>2, <2>2, <2>3 DEF US!RemoveOwned
  <1>5. /\ \A k \in US!Key : files'[k] = files[k] \/ files'[k] = None
        /\ \A k \in US!Key : files'[k] = files[k] \/ (files[k] = u /\ k = staged[u].key)
    BY <1>4
  <1>6. \A k \in US!Key : files'[k] = u => staged'[u].key = k /\ k \in unsure'
    <2>1. \A k \in US!Key : files[k] = u => k = staged[u].key
      BY <1>1, StagingFacts DEF US!Filed
    <2>2. staged' = staged
      BY <1>2
    <2> QED
      BY <1>1, <1>4, <2>1, <2>2
  <1>7. /\ \A d \in US!Caller : d # u => (d \in reads' <=> d \in reads)
        /\ \A d \in US!Caller : d # u => staged'[d] = staged[d]
        /\ UNCHANGED <<row, job, removing, purges>>
        /\ reads' \subseteq Retrier /\ (\A q, r \in reads' : q = r) /\ closed' \in BOOLEAN
        /\ abandoned' \subseteq US!Caller /\ unsure' \subseteq US!Key
        /\ staged' \in [US!Caller -> [key : US!Key \cup {None}, gen : Nat]]
    BY <1>2, <1>4, StagingFacts
  <1>8. \A d \in Upload : d # None
    BY StagingFacts
  <1>9. CASE US!StageFails(u)
    <2>1. US!Completed(u) /\ phase[u] \in {"staging", "settling"} /\ phase' = [phase EXCEPT ![u] = "settled"]
          /\ rowLock' = rowLock
      BY <1>9 DEF US!StageFails, US!Goes, US!db
    <2>2. Pooled' /\ \A d \in US!Caller : US!InPool(d)' <=> US!InPool(d) /\ d # u
      BY <1>1, <2>1, PoolCompletes
    <2>3. /\ "settled" \in US!Phases /\ "settled" \in US!Holding /\ "settled" \notin US!Waiting
          /\ "settled" \in US!Publishing /\ phase[u] \in US!Holding /\ "settled" \notin {"reading", "read", "cleanup", "staged", "body"}
      BY <2>1 DEF US!Phases, US!Holding, US!Publishing, US!Waiting
    <2>4. /\ row.state \in {"NONE", "PURGED"} /\ staged'[u].key = (IF row.state = "NONE" THEN u ELSE row.key)
          /\ rowLock' = u
      BY <1>1, <1>2, <2>1, <2>3 DEF US!Held
    <2>5. PICK p \in US!Phases : p = "settled"
      BY <2>3
    <2>6. /\ p \in US!Holding /\ p \notin US!Waiting /\ p \in US!Publishing
          /\ p \notin {"reading", "read"} /\ p # "cleanup" /\ p \notin {"staged", "body"}
          /\ phase' = [phase EXCEPT ![u] = p]
      BY <2>1, <2>3, <2>5
    <2>7. \A k \in US!Key : files'[k] = u => staged'[u].key = k
      BY <1>6
    <2>8. /\ rowLock' \in Upload \cup {None} /\ \A d \in Upload : d # u => (rowLock' = d <=> rowLock = d)
          /\ US!InPool(u)' = FALSE
      BY <1>1, <2>1, <2>2
    <2> QED
      BY <1>1, <1>3, <1>4, <1>5, <1>7, <2>2, <2>4, <2>6, <2>7, <2>8, StagingRequest, ZenonT(60)
  <1>10. CASE US!Settle(u) \/ US!Cleanup(u)
    <2>1. /\ phase[u] \in {"settled", "cleanup"} /\ phase' = [phase EXCEPT ![u] = "done"]
          /\ UNCHANGED <<queue, running, pending>>
          /\ (rowLock' = None \/ (phase[u] = "cleanup" /\ rowLock' = rowLock))
      BY <1>10 DEF US!Settle, US!Cleanup, US!Goes, US!db, US!pool
    <2>2. Pooled' /\ (\A d \in US!Caller : (US!InPool(d)' <=> US!InPool(d))) /\ ~US!InPool(u)
      BY <1>1, <2>1 DEF Pooled, US!Distinct, US!InPool, US!Placed, US!Waiting
    <2>3. "done" \in US!Phases /\ "done" \notin US!Holding \cup US!Waiting \cup US!Publishing
      BY StagingPhases
    <2>4. rowLock' \in Upload \cup {None} /\ rowLock' # u
          /\ \A d \in Upload : d # u => (rowLock' = d <=> rowLock = d)
      <3>1. CASE phase[u] = "settled"
        BY <1>1, <1>8, <1>10, <2>1, <3>1 DEF US!Held, US!Holding
      <3>2. CASE phase[u] = "cleanup"
        <4>1. rowLock # u /\ ~US!Settle(u)
          BY <1>1, <3>2 DEF US!Held, US!Holding, US!Settle
        <4>2. rowLock' = rowLock
          BY <1>10, <4>1 DEF US!Cleanup, US!db
        <4> QED
          BY <1>1, <4>1, <4>2
      <3> QED
        BY <2>1, <3>1, <3>2
    <2>a. \A k \in US!Key : files'[k] = u => staged'[u].key = k /\ "done" = "done" /\ (row.key = k \/ k \in unsure')
      BY <1>6
    <2>5. US!StagingInv'
      BY <1>1, <1>4, <1>5, <1>6, <1>7, <2>1, <2>2, <2>3, <2>4, <2>a, StagingRequest, ZenonT(60)
    <2> QED
      BY <1>3, <1>5, <2>5
  <1> QED
    BY <1>9, <1>10

\* A retry reads the payload, alone, and goes on or leaves.
LEMMA StagingReads ==
  ASSUME US!Parameters, US!StagingInv, NEW r \in Retrier,
         US!RetryRead(r) \/ US!RetryReadDone(r) \/ US!RetryLeave(r)
  PROVE  US!StagingInv'
  <1>1. /\ US!Placed(r) /\ r \in US!Caller /\ r \notin Upload /\ r # None /\ Pooled /\ US!TypeOK /\ US!RowWithJob
        /\ US!Key = Upload /\ rowLock \in Upload \cup {None} /\ files \in [US!Key -> Upload \cup {None}]
        /\ reads \subseteq Retrier /\ (\A p, q \in reads : p = q) /\ closed \in BOOLEAN
        /\ abandoned \subseteq US!Caller /\ unsure \subseteq US!Key
        /\ staged \in [US!Caller -> [key : US!Key \cup {None}, gen : Nat]]
    BY StagingFacts
  <1>2. UNCHANGED <<closed, abandoned, files, row, job, rowLock, removing, purges, unsure>>
    BY DEF US!RetryRead, US!RetryReadDone, US!RetryLeave, US!Run, US!Completed, US!db, US!pool
  <1>3. \A k \in US!Key : files'[k] = files[k] /\ files'[k] # r
    BY <1>1, <1>2
  <1>4. \A d \in Upload : d # r => (rowLock' = d <=> rowLock = d)
    BY <1>2
  <1>5. CASE US!RetryRead(r)
    <2>1. /\ phase[r] = "new" /\ row.state = "ERROR" /\ reads = {} /\ US!Run(r) /\ reads' = {r}
          /\ phase' = [phase EXCEPT ![r] = "reading"]
          /\ staged' = [staged EXCEPT ![r] = [key |-> row.key, gen |-> row.gen]]
      BY <1>5 DEF US!RetryRead, US!Goes
    <2>2. ~US!InPool(r)
      BY <1>1, <2>1 DEF US!Placed, US!Waiting
    <2>3. Pooled' /\ \A d \in US!Caller : US!InPool(d)' <=> US!InPool(d) \/ d = r
      BY <1>1, <2>1, <2>2, PoolAccepts
    <2>4. row.key \in US!Key /\ row.gen \in Nat
      BY <1>1, <2>1 DEF US!RowWithJob, US!TypeOK
    <2>5. /\ staged' \in [US!Caller -> [key : US!Key \cup {None}, gen : Nat]]
          /\ \A d \in US!Caller : d # r => staged'[d] = staged[d]
      BY <1>1, <2>1, <2>4
    <2>6. "reading" \in US!Phases /\ "reading" \in US!Waiting
      BY DEF US!Phases, US!Waiting
    <2>7. reads' \subseteq Retrier /\ (\A p, q \in reads' : p = q) /\ \A d \in US!Caller : d # r => (d \in reads' <=> d \in reads)
      BY <2>1
    <2> QED
      BY <1>1, <1>2, <1>3, <1>4, <2>1, <2>3, <2>5, <2>6, <2>7, StagingRequest, ZenonT(60)
  <1>6. CASE US!RetryReadDone(r)
    <2>1. PICK p \in {"read", "done"} : phase' = [phase EXCEPT ![r] = p] /\ US!Completed(r) /\ reads' = reads \ {r} /\ staged' = staged
      BY <1>6 DEF US!RetryReadDone, US!Goes
    <2>2. Pooled' /\ \A d \in US!Caller : US!InPool(d)' <=> US!InPool(d) /\ d # r
      BY <1>1, <2>1, PoolCompletes
    <2>3. p \in US!Phases /\ p \notin US!Waiting /\ p # "cleanup"
      BY <2>1 DEF US!Phases, US!Waiting
    <2>4. /\ reads' \subseteq Retrier /\ (\A i, q \in reads' : i = q) /\ r \notin reads'
          /\ \A d \in US!Caller : d # r => (d \in reads' <=> d \in reads)
      BY <1>1, <2>1
    <2> QED
      BY <1>1, <1>2, <1>3, <1>4, <2>1, <2>2, <2>3, <2>4, StagingRequest, ZenonT(60)
  <1>7. CASE US!RetryLeave(r)
    <2>1. phase' = [phase EXCEPT ![r] = "done"] /\ UNCHANGED <<queue, running, pending, reads, staged>>
      BY <1>7 DEF US!RetryLeave, US!Goes, US!pool
    <2>2. Pooled' /\ (\A d \in US!Caller : (US!InPool(d)' <=> US!InPool(d)))
      BY <1>1, <2>1 DEF Pooled, US!Distinct, US!InPool
    <2>3. "done" \in US!Phases /\ "done" \notin US!Waiting
      BY StagingPhases
    <2>4. US!InPool(r)' <=> r \in reads'
      BY <1>1, <2>1, <2>2 DEF US!Placed
    <2> QED
      BY <1>1, <1>2, <1>3, <1>4, <2>1, <2>2, <2>3, <2>4, StagingRequest, ZenonT(60)
  <1> QED
    BY <1>5, <1>6, <1>7

\* A commit that takes place: the row gets the key it had, or the upload's own.
LEMMA StagingCommits ==
  ASSUME US!Parameters, US!StagingInv, NEW u \in Upload, phase[u] = "body", US!Committed(u), rowLock' = None,
         phase' = [phase EXCEPT ![u] = "done"], unsure' \in {unsure, unsure \cup {staged[u].key}},
         UNCHANGED <<queue, running, pending, closed, abandoned, reads, files, staged, removing, purges>>
  PROVE  US!StagingInv'
  <1>1. /\ US!Held(u) /\ US!Kept(u) /\ US!Placed(u) /\ u \in US!Caller /\ u \notin Retrier /\ u # None
        /\ US!TypeOK /\ US!RowWithJob /\ Pooled /\ US!Key = Upload /\ unsure \subseteq US!Key
    BY StagingFacts
  <1>2. /\ rowLock = u /\ row.state \in {"NONE", "PURGED"} /\ staged[u].key \in US!Key
        /\ (row.state # "NONE" => row.key = staged[u].key) /\ files[staged[u].key] \in {u, None}
    BY <1>1, StagingFacts DEF US!Held, US!Kept, US!Holding
  <1>3. row' = [state |-> "PENDING", key |-> staged[u].key, gen |-> row.gen + 1] /\ job' = "queued"
    BY DEF US!Committed
  <1>4. row'.state = "PENDING" /\ row'.key = staged[u].key /\ row' \in [state : US!RowStates, key : US!Key \cup {None}, gen : Nat]
    BY <1>1, <1>2, <1>3 DEF US!TypeOK, US!RowStates
  <1>5. phase' \in [US!Caller -> US!Phases] /\ phase'[u] = "done" /\ \A d \in US!Caller : d # u => phase'[d] = phase[d]
    BY <1>1, StagingPhases DEF US!TypeOK
  <1>6. US!TypeOK' /\ US!PoolExact' /\ US!Distinct' /\ US!RowWithJob'
    <2>1. job' \in US!JobStates /\ unsure' \subseteq US!Key /\ rowLock' \in US!Caller \cup {None} /\ None \notin Retrier
      BY <1>1, <1>2, <1>3 DEF US!JobStates, US!Parameters, US!Caller
    <2>2. US!TypeOK'
      BY <1>1, <1>4, <1>5, <2>1 DEF US!TypeOK
    <2>3. US!RowWithJob'
      BY <1>2, <1>3, <1>4, <2>1 DEF US!RowWithJob
    <2> QED
      BY <2>2, <2>3 DEF US!StagingInv, US!PoolExact, US!Distinct
  <1>7. ASSUME NEW d \in US!Caller PROVE US!Placed(d)'
    <2>1. US!Placed(d) /\ (US!InPool(d)' <=> US!InPool(d)) /\ ~US!InPool(u)
      BY <1>1, StagingFacts DEF US!InPool, US!Placed, US!Waiting
    <2>2. "done" \notin US!Waiting
      BY StagingPhases
    <2> QED
      BY <1>1, <1>5, <2>1, <2>2 DEF US!Placed
  <1>8. ASSUME NEW d \in Upload PROVE US!Held(d)' /\ US!Kept(d)'
    <2>1. US!Held(d) /\ d # None /\ d \in US!Caller
      BY StagingFacts
    <2>2. phase'[d] \notin US!Holding /\ rowLock' # d
      BY <1>2, <1>5, <2>1, StagingPhases DEF US!Held
    <2>3. phase'[d] = "cleanup" => d # u /\ phase[d] = "cleanup" /\ staged[d].key \in US!Key
      BY <1>5, <2>1 DEF US!Held
    <2>4. phase'[d] = "cleanup" => ~(files[staged[d].key] = d /\ row'.key = staged[d].key)
      BY <1>2, <1>4, <2>1, <2>3
    <2> QED
      BY <2>2, <2>3, <2>4 DEF US!Held, US!Kept, US!Holding
  <1>9. ASSUME NEW k \in US!Key PROVE US!Filed(k)'
    <2>1. US!Filed(k) /\ files[k] \in Upload \cup {None} /\ k # None
      BY <1>1, StagingFacts DEF US!TypeOK
    <2>2. CASE files[k] = u
      BY <1>4, <1>5, <2>1, <2>2, <1>1 DEF US!Filed
    <2>3. CASE files[k] # u /\ files[k] # None
      <3>1. phase'[files[k]] = phase[files[k]]
        BY <1>5, <2>1, <2>3, StagingFacts
      <3>2. row.key = k => row'.key = k
        BY <1>1, <1>2, <1>4, <2>1 DEF US!RowWithJob
      <3> QED
        BY <2>1, <2>3, <3>1, <3>2 DEF US!Filed
    <2> QED
      BY <2>2, <2>3 DEF US!Filed
  <1> QED
    BY <1>6, <1>7, <1>8, <1>9 DEF US!StagingInv

\* A commit, and one whose outcome is not known.
LEMMA StagingEnds ==
  ASSUME US!Parameters, US!StagingInv, NEW u \in Upload, US!Commit(u) \/ US!CommitUnknown(u)
  PROVE  US!StagingInv'
  <1>1. /\ phase[u] = "body" /\ rowLock' = None /\ phase' = [phase EXCEPT ![u] = "done"]
        /\ unsure' \in {unsure, unsure \cup {staged[u].key}}
        /\ UNCHANGED <<queue, running, pending, closed, abandoned, reads, files, staged, removing, purges>>
    BY DEF US!Commit, US!CommitUnknown, US!Goes, US!pool
  <1>2. CASE US!Committed(u)
    BY <1>1, <1>2, StagingCommits
  <1>3. CASE UNCHANGED <<row, job>> /\ unsure' = unsure \cup {staged[u].key}
    <2>1. /\ US!Held(u) /\ US!Placed(u) /\ u \in US!Caller /\ u \notin Retrier /\ u # None /\ Pooled /\ US!Key = Upload
          /\ reads \subseteq Retrier /\ (\A q, r \in reads : q = r) /\ closed \in BOOLEAN
          /\ abandoned \subseteq US!Caller /\ unsure \subseteq US!Key /\ files \in [US!Key -> Upload \cup {None}]
          /\ staged \in [US!Caller -> [key : US!Key \cup {None}, gen : Nat]]
      BY StagingFacts
    <2>2. /\ rowLock = u /\ row.state \in {"NONE", "PURGED"}
          /\ staged[u].key = (IF row.state = "NONE" THEN u ELSE row.key)
      BY <1>1, <2>1 DEF US!Held, US!Holding
    <2>3. \A k \in US!Key : files[k] = u => staged[u].key = k
      BY <2>1, StagingFacts DEF US!Filed
    <2>4. \A k \in US!Key : files'[k] = u => staged'[u].key = k /\ (row.key = k \/ k \in unsure')
      BY <1>1, <1>3, <2>2, <2>3
    <2>5. Pooled' /\ (\A d \in US!Caller : (US!InPool(d)' <=> US!InPool(d))) /\ ~US!InPool(u)
      BY <1>1, <2>1 DEF Pooled, US!Distinct, US!InPool, US!Placed, US!Waiting
    <2>6. "done" \in US!Phases /\ "done" \notin US!Holding \cup US!Waiting \cup US!Publishing
      BY StagingPhases
    <2>7. rowLock' # u /\ \A d \in Upload : d # u => (rowLock' = d <=> rowLock = d)
      BY <1>1, <2>1, <2>2, StagingFacts
    <2>9. staged[u].key \in US!Key
      BY <1>1, <2>1, StagingFacts DEF US!Holding
    <2>8. /\ \A d \in US!Caller : d # u => (d \in reads' <=> d \in reads)
          /\ \A d \in US!Caller : d # u => staged'[d] = staged[d]
          /\ \A k \in US!Key : files'[k] = files[k] \/ files'[k] = None
          /\ unsure \subseteq unsure' /\ unsure' \subseteq US!Key /\ UNCHANGED <<row, job, removing, purges>>
      BY <1>1, <1>3, <2>1, <2>9
    <2> QED
      BY <1>1, <2>1, <2>4, <2>5, <2>6, <2>7, <2>8, StagingRequest, ZenonT(60)
  <1> QED
    BY <1>2, <1>3 DEF US!Commit, US!CommitUnknown

\* A step of the worker, of a purge or of a retry: nobody holds the row, or it stays as it is.
LEMMA StagingWorks ==
  ASSUME US!Parameters, US!StagingInv,
         UNCHANGED <<queue, running, pending, closed, abandoned, reads, files, rowLock, staged, unsure>>,
         phase' = phase \/ \E r \in Retrier : phase[r] = "read" /\ phase' = [phase EXCEPT ![r] = "done"],
         row' \in [state : US!RowStates, key : US!Key \cup {None}, gen : Nat], job' \in US!JobStates,
         row'.key = row.key, US!RowWithJob', removing' \subseteq US!Key, purges' \in 0..MaxPurges,
         row' = row \/ (rowLock = None /\ row.state \notin {"NONE", "PURGED"})
  PROVE  US!StagingInv'
  <1>1. /\ phase' \in [US!Caller -> US!Phases] /\ \A u \in Upload : phase'[u] = phase[u]
        /\ \A c \in US!Caller : phase'[c] = phase[c] \/ (c \in Retrier /\ phase[c] = "read" /\ phase'[c] = "done")
    <2>1. phase \in [US!Caller -> US!Phases] /\ \A u \in Upload : u \in US!Caller /\ u \notin Retrier
      BY StagingFacts DEF US!TypeOK
    <2>2. CASE phase' = phase
      BY <2>1, <2>2
    <2>3. ASSUME NEW r \in Retrier, phase[r] = "read", phase' = [phase EXCEPT ![r] = "done"]
          PROVE  <1>1!1
      <3>1. r \in US!Caller /\ "done" \in US!Phases
        BY StagingFacts, StagingPhases
      <3> QED
        BY <2>1, <2>3, <3>1
    <2> QED
      BY <2>2, <2>3
  <1>2. US!TypeOK' /\ US!PoolExact' /\ US!Distinct'
    BY <1>1 DEF US!StagingInv, US!TypeOK, US!PoolExact, US!Distinct
  <1>3. ASSUME NEW c \in US!Caller PROVE US!Placed(c)'
    <2>1. US!Placed(c) /\ (US!InPool(c)' <=> US!InPool(c)) /\ (c \in Upload => c \notin Retrier)
      BY StagingFacts DEF US!InPool
    <2>2. "done" \notin US!Waiting /\ "read" \notin US!Waiting
      BY DEF US!Waiting
    <2> QED
      BY <1>1, <2>1, <2>2 DEF US!Placed
  <1>4. ASSUME NEW u \in Upload PROVE US!Held(u)' /\ US!Kept(u)'
    <2>1. US!Held(u) /\ US!Kept(u) /\ u # None
      BY StagingFacts
    <2>2. CASE row' = row
      BY <1>1, <2>1, <2>2 DEF US!Held, US!Kept
    <2>3. CASE rowLock = None /\ row.state \notin {"NONE", "PURGED"}
      BY <1>1, <2>1, <2>3 DEF US!Held, US!Kept
    <2> QED
      BY <2>2, <2>3
  <1>5. ASSUME NEW k \in US!Key PROVE US!Filed(k)'
    <2>1. US!Filed(k) /\ files[k] \in Upload \cup {None}
      BY StagingFacts
    <2> QED
      BY <1>1, <2>1 DEF US!Filed
  <1> QED
    BY <1>2, <1>3, <1>4, <1>5 DEF US!StagingInv

\* The worker, the purge and the retry keep the job and the row together.
LEMMA StagingJobs ==
  ASSUME US!Parameters, US!StagingInv,
         US!AddClaimed \/ US!AddSucceeds \/ US!AddFails \/ US!Purge \/ \E r \in Retrier : US!Retry(r)
  PROVE  US!StagingInv' /\ files' = files
  <1>1. /\ US!TypeOK /\ US!RowWithJob /\ row \in [state : US!RowStates, key : US!Key \cup {None}, gen : Nat]
        /\ removing \subseteq US!Key /\ purges \in 0..MaxPurges /\ MaxPurges \in Nat /\ rowLock \notin Retrier
    BY StagingFacts DEF US!TypeOK, US!RowWithJob, US!Parameters
  <1>2. UNCHANGED <<queue, running, pending, closed, abandoned, reads, files, rowLock, staged, unsure>>
    BY DEF US!AddClaimed, US!AddSucceeds, US!AddFails, US!Purge, US!Retry, US!pool
  <1>3. CASE US!AddClaimed
    <2>1. job = "queued" /\ job' = "running" /\ UNCHANGED <<phase, row, removing, purges>>
      BY <1>3 DEF US!AddClaimed
    <2>2. US!RowWithJob' /\ job' \in US!JobStates
      BY <1>1, <1>2, <2>1 DEF US!RowWithJob, US!JobStates
    <2> QED
      BY <1>1, <1>2, <2>1, <2>2, StagingWorks
  <1>4. CASE US!AddSucceeds
    <2>1. /\ rowLock = None /\ row.state = "PENDING" /\ row' = [row EXCEPT !.state = "ADDED"] /\ job' = "completed"
          /\ removing' = removing \cup {row.key} /\ UNCHANGED <<phase, purges>>
      BY <1>4 DEF US!AddSucceeds
    <2>2. /\ row' \in [state : US!RowStates, key : US!Key \cup {None}, gen : Nat] /\ row'.key = row.key
          /\ row'.state = "ADDED" /\ row.key \in US!Key
      BY <1>1, <2>1 DEF US!RowStates, US!RowWithJob
    <2>3. US!RowWithJob' /\ job' \in US!JobStates
      BY <1>1, <1>2, <2>1, <2>2 DEF US!RowWithJob, US!JobStates
    <2> QED
      BY <1>1, <1>2, <2>1, <2>2, <2>3, StagingWorks
  <1>5. CASE US!AddFails
    <2>1. /\ rowLock = None /\ job = "running" /\ row' = [row EXCEPT !.state = "ERROR"] /\ job' = "failed"
          /\ UNCHANGED <<phase, removing, purges>>
      BY <1>5 DEF US!AddFails
    <2>2. row.state = "PENDING"
      BY <1>1, <2>1 DEF US!RowWithJob
    <2>3. /\ row' \in [state : US!RowStates, key : US!Key \cup {None}, gen : Nat] /\ row'.key = row.key
          /\ row'.state = "ERROR" /\ row.key \in US!Key
      BY <1>1, <2>1, <2>2 DEF US!RowStates, US!RowWithJob
    <2>4. US!RowWithJob' /\ job' \in US!JobStates
      BY <1>1, <1>2, <2>1, <2>3 DEF US!RowWithJob, US!JobStates
    <2> QED
      BY <1>1, <1>2, <2>1, <2>2, <2>3, <2>4, StagingWorks
  <1>6. CASE US!Purge
    <2>1. /\ row.state \in {"ADDED", "ERROR"} /\ rowLock = None /\ row' = [row EXCEPT !.state = "PURGED"]
          /\ purges < MaxPurges /\ purges' = purges + 1 /\ UNCHANGED <<phase, job, removing>>
      BY <1>6 DEF US!Purge
    <2>2. /\ row' \in [state : US!RowStates, key : US!Key \cup {None}, gen : Nat] /\ row'.key = row.key
          /\ row'.state = "PURGED" /\ row.key \in US!Key /\ purges' \in 0..MaxPurges
      BY <1>1, <2>1 DEF US!RowStates, US!RowWithJob
    <2>3. US!RowWithJob' /\ job' \in US!JobStates
      BY <1>1, <1>2, <2>1, <2>2 DEF US!RowWithJob, US!TypeOK
    <2> QED
      BY <1>1, <1>2, <2>1, <2>2, <2>3, StagingWorks
  <1>7. ASSUME NEW r \in Retrier, US!Retry(r) PROVE US!StagingInv'
    <2>1. /\ phase[r] = "read" /\ phase' = [phase EXCEPT ![r] = "done"] /\ rowLock = None /\ row.state = "ERROR"
          /\ row' = [row EXCEPT !.state = "PENDING", !.gen = row.gen + 1] /\ job' = "queued"
          /\ UNCHANGED <<removing, purges>>
      BY <1>7 DEF US!Retry, US!Goes
    <2>2. /\ row' \in [state : US!RowStates, key : US!Key \cup {None}, gen : Nat] /\ row'.key = row.key
          /\ row'.state = "PENDING" /\ row.key \in US!Key
      <3>1. row.gen + 1 \in Nat /\ row.key \in US!Key /\ "PENDING" \in US!RowStates
        BY <1>1, <2>1 DEF US!RowStates, US!RowWithJob
      <3>2. row' = [state |-> "PENDING", key |-> row.key, gen |-> row.gen + 1]
        BY <1>1, <2>1
      <3> QED
        BY <3>1, <3>2
    <2>3. US!RowWithJob' /\ job' \in US!JobStates
      BY <1>1, <1>2, <2>1, <2>2 DEF US!RowWithJob, US!JobStates
    <2> QED
      BY <1>1, <1>2, <2>1, <2>2, <2>3, StagingWorks
  <1> QED
    BY <1>2, <1>3, <1>4, <1>5, <1>6, <1>7

\* A thread takes waiting work: the request is where it was.
LEMMA StagingThreads ==
  ASSUME US!Parameters, US!StagingInv, US!StartThread
  PROVE  US!StagingInv' /\ files' = files
  <1>1. /\ Pooled' /\ \A d \in US!Caller : US!InPool(d)' <=> US!InPool(d)
        /\ UNCHANGED <<phase, closed, abandoned, reads, files, row, job, rowLock, staged, removing, purges, unsure>>
    BY PoolStarts, StagingFacts DEF US!StartThread, US!db
  <1>2. US!TypeOK' /\ US!PoolExact' /\ US!Distinct' /\ US!RowWithJob'
    <2>1. US!Cardinality(running') = Cardinality(running')
      BY StagingCounts
    <2> QED
      BY <1>1, <2>1 DEF US!StagingInv, US!TypeOK, US!PoolExact, US!RowWithJob, Pooled
  <1>3. \A c \in US!Caller : US!Placed(c)'
    BY <1>1 DEF US!StagingInv, US!Placed
  <1>4. /\ \A u \in Upload : US!Held(u)' /\ US!Kept(u)'
        /\ \A k \in US!Key : US!Filed(k)'
        /\ \A q, r \in reads' : q = r
    BY <1>1 DEF US!StagingInv, US!Held, US!Kept, US!Filed
  <1> QED
    BY <1>1, <1>2, <1>3, <1>4 DEF US!StagingInv

\* The pool is closed: waiting requests are cancelled, and one that holds the row has only to settle.
LEMMA StagingCloses ==
  ASSUME US!Parameters, US!StagingInv, US!Close
  PROVE  US!StagingInv' /\ files' = files
  <1> DEFINE Queued(c) == \E i \in DOMAIN queue : queue[i] = c
  <1>1. /\ Pooled' /\ running' = running /\ \A d \in US!Caller : US!InPool(d)' <=> d \in running
        /\ \A d \in US!Caller : d \in running => ~Queued(d)
    BY PoolCloses, StagingFacts
  <1>2. /\ UNCHANGED <<abandoned, files, row, job, rowLock, staged, removing, purges, unsure>> /\ closed' = TRUE
        /\ reads' = {c \in reads : ~Queued(c)}
        /\ phase' = [c \in US!Caller |-> IF Queued(c) /\ phase[c] # "done"
                                         THEN IF phase[c] \in {"staging", "settling"} THEN "settled" ELSE "done"
                                         ELSE phase[c]]
    BY DEF US!Close, US!db
  <1> HIDE DEF Queued
  <1>3. ASSUME NEW c \in US!Caller
        PROVE  /\ US!Placed(c) /\ phase[c] \in US!Phases
               /\ Queued(c) => phase[c] \in US!Waiting \cup {"done"}
               /\ US!InPool(c) <=> c \in running \/ Queued(c)
               /\ phase'[c] = (IF Queued(c) /\ phase[c] # "done"
                              THEN IF phase[c] \in {"staging", "settling"} THEN "settled" ELSE "done"
                              ELSE phase[c])
    BY <1>2, StagingFacts DEF US!Placed, US!InPool, Queued
  <1>4. phase' \in [US!Caller -> US!Phases]
    BY <1>2, <1>3 DEF US!Phases
  <1>5. US!TypeOK' /\ US!PoolExact' /\ US!Distinct' /\ US!RowWithJob'
    <2>1. US!Cardinality(running') = Cardinality(running') /\ reads' \subseteq Retrier
      BY <1>2, StagingCounts, StagingFacts
    <2> QED
      BY <1>1, <1>2, <1>4, <2>1 DEF US!StagingInv, US!TypeOK, US!PoolExact, US!RowWithJob, Pooled
  <1>6. ASSUME NEW c \in US!Caller PROVE US!Placed(c)'
    <2>1. CASE Queued(c)
      <3>1. /\ phase'[c] \in {"settled", "done"} /\ ~US!InPool(c)' /\ c \notin reads'
            /\ (phase'[c] = "settled" => phase[c] \in {"staging", "settling"})
        BY <1>1, <1>2, <1>3, <2>1
      <3>2. c \in Retrier => phase'[c] = "done"
        BY <1>3, <3>1 DEF US!Placed
      <3> QED
        BY <3>1, <3>2 DEF US!Placed, US!Waiting
    <2>2. CASE ~Queued(c)
      <3>1. phase'[c] = phase[c] /\ (US!InPool(c)' <=> US!InPool(c)) /\ (c \in reads' <=> c \in reads)
        BY <1>1, <1>2, <1>3, <2>2
      <3> QED
        BY <1>3, <3>1 DEF US!Placed
    <2> QED
      BY <2>1, <2>2
  <1>7. ASSUME NEW u \in Upload
        PROVE  /\ phase'[u] \in US!Holding <=> phase[u] \in US!Holding
               /\ phase'[u] \in {"staged", "body", "cleanup"} => phase'[u] = phase[u]
               /\ phase[u] \in US!Publishing => phase'[u] \in US!Publishing
               /\ phase[u] = "done" => phase'[u] = "done"
    <2>1. u \in US!Caller
      BY StagingFacts
    <2> QED
      BY <1>3, <2>1 DEF US!Holding, US!Publishing, US!Waiting
  <1>8. ASSUME NEW u \in Upload PROVE US!Held(u)' /\ US!Kept(u)'
    <2>1. US!Held(u) /\ US!Kept(u)
      BY StagingFacts
    <2> QED
      BY <1>2, <1>7, <2>1 DEF US!Held, US!Kept
  <1>9. ASSUME NEW k \in US!Key PROVE US!Filed(k)'
    <2>1. US!Filed(k) /\ files[k] \in Upload \cup {None}
      BY StagingFacts
    <2> QED
      BY <1>2, <1>7, <2>1 DEF US!Filed
  <1>10. \A q, r \in reads' : q = r
    BY <1>2, StagingFacts
  <1> QED
    BY <1>2, <1>5, <1>6, <1>8, <1>9, <1>10 DEF US!StagingInv

\* A thread publishes the file of the upload that holds the row.
LEMMA StagingPublishes ==
  ASSUME US!Parameters, US!StagingInv, NEW u \in Upload, US!Publish(u)
  PROVE  US!StagingInv' /\ \A k \in US!Key : files'[k] \in {files[k], u}
  <1>1. /\ US!Held(u) /\ phase[u] \in {"staging", "settling"} /\ u # None /\ staged[u].key \in US!Key
        /\ rowLock = u /\ files' = [files EXCEPT ![staged[u].key] = u] /\ US!Key = Upload
        /\ UNCHANGED <<phase, queue, running, pending, closed, abandoned, reads, row, job, rowLock, purges, staged,
                       removing, unsure>>
    BY StagingFacts DEF US!Publish, US!Held, US!Holding, US!pool, US!db
  <1>2. /\ files' \in [US!Key -> Upload \cup {None}] /\ files'[staged[u].key] = u
        /\ \A k \in US!Key : k # staged[u].key => files'[k] = files[k]
    BY <1>1, StagingFacts
  <1>3. US!TypeOK' /\ US!PoolExact' /\ US!Distinct' /\ US!RowWithJob'
    BY <1>1, <1>2 DEF US!StagingInv, US!TypeOK, US!PoolExact, US!Distinct, US!RowWithJob
  <1>4. \A c \in US!Caller : US!Placed(c)'
    BY <1>1 DEF US!StagingInv, US!Placed, US!InPool
  <1>5. ASSUME NEW d \in Upload PROVE US!Held(d)' /\ US!Kept(d)'
    <2>1. US!Held(d) /\ US!Kept(d)
      BY StagingFacts
    <2>2. phase[d] \notin {"staged", "body"}
      BY <1>1, <2>1 DEF US!Held, US!Holding
    <2>3. phase[d] = "cleanup" => d # u /\ staged[d].key \in US!Key
      BY <1>1, <2>1 DEF US!Held
    <2>4. phase[d] = "cleanup" /\ files'[staged[d].key] = d => files[staged[d].key] = d
      BY <1>2, <2>3
    <2> QED
      BY <1>1, <2>1, <2>2, <2>4 DEF US!Held, US!Kept
  <1>6. ASSUME NEW k \in US!Key PROVE US!Filed(k)'
    <2>1. US!Filed(k) /\ phase[u] \in US!Publishing
      BY <1>1, StagingFacts DEF US!Publishing, US!Holding
    <2> QED
      BY <1>1, <1>2, <2>1 DEF US!Filed
  <1>7. \A q, r \in reads' : q = r
    BY <1>1, StagingFacts
  <1> QED
    BY <1>2, <1>3, <1>4, <1>5, <1>6, <1>7 DEF US!StagingInv

\* The worker removes the payload of a torrent it has added.
LEMMA StagingRemovesAdded ==
  ASSUME US!Parameters, US!StagingInv, NEW k \in US!Key, US!RemovePayload(k)
  PROVE  US!StagingInv' /\ k \in removing /\ \A d \in US!Key : d # k => files'[d] = files[d]
  <1>1. /\ k \in removing /\ files' = [files EXCEPT ![k] = None] /\ removing' = removing \ {k} /\ US!Key = Upload
        /\ UNCHANGED <<phase, queue, running, pending, closed, abandoned, reads, row, job, rowLock, purges, staged, unsure>>
    BY StagingFacts DEF US!RemovePayload, US!pool, US!db
  <1>2. files' \in [US!Key -> Upload \cup {None}] /\ \A d \in US!Key : files'[d] = IF d = k THEN None ELSE files[d]
    BY <1>1, StagingFacts
  <1>3. US!TypeOK' /\ US!PoolExact' /\ US!Distinct' /\ US!RowWithJob'
    BY <1>1, <1>2 DEF US!StagingInv, US!TypeOK, US!PoolExact, US!Distinct, US!RowWithJob
  <1>4. \A c \in US!Caller : US!Placed(c)'
    BY <1>1 DEF US!StagingInv, US!Placed, US!InPool
  <1>5. ASSUME NEW d \in Upload PROVE US!Held(d)' /\ US!Kept(d)'
    <2>1. US!Held(d) /\ US!Kept(d) /\ d # None
      BY StagingFacts
    <2>2. phase[d] \in {"staged", "body", "cleanup"} => staged[d].key \in US!Key
      BY <2>1, StagingFacts DEF US!Held, US!Holding
    <2> QED
      BY <1>1, <1>2, <2>1, <2>2 DEF US!Held, US!Kept
  <1>6. ASSUME NEW d \in US!Key PROVE US!Filed(d)'
    <2>1. US!Filed(d)
      BY StagingFacts
    <2> QED
      BY <1>1, <1>2, <2>1 DEF US!Filed
  <1>7. \A q, r \in reads' : q = r
    BY <1>1, StagingFacts
  <1> QED
    BY <1>1, <1>2, <1>3, <1>4, <1>5, <1>6, <1>7 DEF US!StagingInv

\* Nothing is under way at the start.
LEMMA StagingInit ==
  ASSUME US!Parameters, US!Init
  PROVE  US!StagingInv
  <1>1. US!Cardinality(running) = 0 /\ running = {} /\ queue = <<>>
    BY StagingCounts, FS_EmptySet DEF US!Init
  <1>2. DOMAIN queue = {} /\ Len(queue) = 0
    BY <1>1
  <1>3. US!TypeOK
    <2>1. /\ phase \in [US!Caller -> US!Phases] /\ files \in [US!Key -> Upload \cup {None}]
          /\ staged \in [US!Caller -> [key : US!Key \cup {None}, gen : Nat]]
      BY DEF US!Init, US!Phases, US!NoStage
    <2>2. row \in [state : US!RowStates, key : US!Key \cup {None}, gen : Nat] /\ job \in US!JobStates
      BY DEF US!Init, US!RowStates, US!JobStates
    <2>3. queue \in Seq(US!Caller) /\ pending \in 0..MaxPending /\ purges \in 0..MaxPurges
      BY DEF US!Init, US!Parameters
    <2> QED
      BY <2>1, <2>2, <2>3 DEF US!Init, US!TypeOK
  <1>4. US!PoolExact /\ US!Distinct
    BY <1>1, <1>2 DEF US!Init, US!PoolExact, US!Distinct, US!Parameters
  <1>5. US!RowWithJob
    BY DEF US!Init, US!RowWithJob, US!Parameters, US!Caller
  <1>6. \A c \in US!Caller : phase[c] = "new" /\ ~US!InPool(c) /\ c # None
    BY <1>1, <1>2 DEF US!Init, US!InPool, US!Parameters
  <1>7. "new" \notin US!Waiting \cup US!Holding
    BY DEF US!Waiting, US!Holding
  <1>8. /\ \A c \in US!Caller : US!Placed(c)
        /\ \A u \in Upload : US!Held(u) /\ US!Kept(u)
    BY <1>6, <1>7 DEF US!Placed, US!Held, US!Kept, US!Init, US!Caller
  <1> QED
    BY <1>3, <1>4, <1>5, <1>8 DEF US!StagingInv, US!Filed, US!Init

\* Each step keeps it, and only two take a file away: an upload takes its own, the worker an added torrent's.
LEMMA StagingKept ==
  ASSUME US!Parameters, US!StagingInv, [US!Next]_US!vars
  PROVE  /\ US!StagingInv'
         /\ \/ \A k \in US!Key : files[k] # None => files'[k] # None
            \/ \E k \in removing : \A d \in US!Key : d # k => files'[d] = files[d]
            \/ \E u \in Upload : /\ phase[u] \in US!Holding \cup {"cleanup"}
                               /\ \A k \in US!Key : files'[k] = files[k] \/ (files[k] = u /\ k = staged[u].key)
  <1>1. CASE UNCHANGED US!vars
    BY <1>1 DEF US!vars, US!StagingInv, US!TypeOK, US!PoolExact, US!Distinct, US!RowWithJob, US!Placed, US!InPool,
                US!Held, US!Kept, US!Filed
  <1>2. ASSUME NEW u \in Upload,
               US!Validate(u) \/ US!Validated(u) \/ US!Admit(u) \/ US!Stage(u) \/ US!Staged(u) \/ US!BodyFinished(u)
               \/ US!Commit(u) \/ US!CommitUnknown(u) \/ US!Leave(u)
        PROVE  US!StagingInv' /\ files' = files
    <2>1. files' = files
      BY <1>2 DEF US!Validate, US!Validated, US!Admit, US!Stage, US!Staged, US!BodyFinished, US!Commit,
                  US!CommitUnknown, US!Leave
    <2> QED
      BY <1>2, <2>1, StagingValidates, StagingAdmits, StagingStages, StagingEnds, StagingLeaves
  <1>3. ASSUME NEW u \in Upload, US!StageFails(u) \/ US!Settle(u) \/ US!Cleanup(u)
        PROVE  /\ US!StagingInv' /\ phase[u] \in US!Holding \cup {"cleanup"}
               /\ \A k \in US!Key : files'[k] = files[k] \/ (files[k] = u /\ k = staged[u].key)
    <2>1. phase[u] \in US!Holding \cup {"cleanup"}
      BY <1>3 DEF US!StageFails, US!Settle, US!Cleanup, US!Holding
    <2> QED
      BY <1>3, <2>1, StagingRemoves
  <1>4. ASSUME NEW u \in Upload, US!Publish(u)
        PROVE  US!StagingInv' /\ \A k \in US!Key : files[k] # None => files'[k] # None
    BY <1>4, StagingPublishes, StagingFacts
  <1>5. ASSUME NEW c \in US!Caller, US!Refuse(c) PROVE US!StagingInv' /\ files' = files
    BY <1>5, StagingRefuses DEF US!Refuse
  <1>6. ASSUME NEW r \in Retrier, US!RetryRead(r) \/ US!RetryReadDone(r) \/ US!RetryLeave(r)
        PROVE  US!StagingInv' /\ files' = files
    <2>1. files' = files
      BY <1>6 DEF US!RetryRead, US!RetryReadDone, US!RetryLeave
    <2> QED
      BY <1>6, <2>1, StagingReads
  <1>7. ASSUME US!AddClaimed \/ US!AddSucceeds \/ US!AddFails \/ US!Purge \/ \E r \in Retrier : US!Retry(r)
        PROVE  US!StagingInv' /\ files' = files
    BY <1>7, StagingJobs
  <1>8. ASSUME US!StartThread \/ US!Close PROVE US!StagingInv' /\ files' = files
    BY <1>8, StagingThreads, StagingCloses
  <1>9. ASSUME NEW k \in US!Key, US!RemovePayload(k)
        PROVE  US!StagingInv' /\ k \in removing /\ \A d \in US!Key : d # k => files'[d] = files[d]
    BY <1>9, StagingRemovesAdded
  <1>10. CASE US!Requests
    BY <1>2, <1>3, <1>5, <1>6, <1>7, <1>10 DEF US!Requests
  <1>11. CASE US!Threads
    BY <1>2, <1>3, <1>4, <1>6, <1>8, <1>11 DEF US!Threads
  <1>12. CASE US!Worker
    BY <1>7, <1>9, <1>12 DEF US!Worker
  <1> QED
    BY <1>1, <1>7, <1>8, <1>10, <1>11, <1>12 DEF US!Next

\* For any number of uploads and retries, threads and purges, the inductive invariant always holds.
THEOREM UploadsStand ==
  ASSUME US!Parameters
  PROVE  US!Spec => []US!StagingInv
  <1>1. US!Init => US!StagingInv
    BY StagingInit
  <1>2. US!StagingInv /\ [US!Next]_US!vars => US!StagingInv'
    BY StagingKept
  <1> QED
    BY <1>1, <1>2, PTL DEF US!Spec

\* The pool's slots are those of the work that waits or runs, one request at most reads a payload, and a
\* file nobody will use is left by a commit of unknown outcome alone.
THEOREM UploadsExact ==
  ASSUME US!Parameters
  PROVE  US!Spec => [](US!PoolExact /\ US!OneReadPerKey /\ US!NoOrphanFile)
  <1>1. US!StagingInv => US!PoolExact
    BY DEF US!StagingInv
  <1>2. US!StagingInv => US!OneReadPerKey
    <2> SUFFICES ASSUME US!StagingInv PROVE US!OneReadPerKey
      OBVIOUS
    <2>1. \A q, r \in reads : q = r
      BY StagingFacts
    <2>2. Cardinality(reads) <= 1
      <3>1. CASE reads = {}
        BY <3>1, FS_EmptySet
      <3>2. ASSUME NEW r \in reads PROVE Cardinality(reads) <= 1
        <4>1. reads = {r}
          BY <2>1, <3>2
        <4> QED
          BY <4>1, FS_Singleton
      <3> QED
        BY <3>1, <3>2
    <2>3. ASSUME NEW r \in Retrier, r \in running PROVE r \in reads
      <3>1. US!Placed(r) /\ US!InPool(r)
        BY <2>3, StagingFacts DEF US!InPool
      <3> QED
        BY <3>1 DEF US!Placed
    <2>4. US!Cardinality(reads) = Cardinality(reads)
      BY StagingCounts
    <2> QED
      BY <2>2, <2>3, <2>4 DEF US!OneReadPerKey
  <1>3. US!StagingInv => US!NoOrphanFile
    <2> SUFFICES ASSUME US!StagingInv, NEW k \in US!Key, files[k] # None, row.key # k,
                        \A u \in Upload : phase[u] \in {"new", "validating", "valid", "done"}
                 PROVE  k \in unsure
      BY DEF US!NoOrphanFile
    <2>1. US!Filed(k) /\ files[k] \in Upload
      BY StagingFacts
    <2>2. phase[files[k]] \notin US!Publishing
      BY <2>1 DEF US!Publishing, US!Holding
    <2> QED
      BY <2>1, <2>2 DEF US!Filed
  <1> QED
    BY <1>1, <1>2, <1>3, UploadsStand, PTL

\* The file of a committed job is not taken away by an upload, only by the worker that has added the torrent.
THEOREM PayloadsKept ==
  ASSUME US!Parameters
  PROVE  US!Spec => US!UploadsKeepPayload
  <1>1. US!StagingInv /\ [US!Next]_US!vars => US!UploadsKeepPayloadStep
    <2> SUFFICES ASSUME US!StagingInv, [US!Next]_US!vars, NEW k \in US!Key, US!Needed(k), files[k] # None,
                        k \notin removing
                 PROVE  files'[k] # None
      BY DEF US!UploadsKeepPayloadStep
    <2>1. row.key = k /\ row.state = "PENDING"
      BY DEF US!Needed
    <2>2. ASSUME NEW u \in Upload, phase[u] \in US!Holding \cup {"cleanup"}, files[k] = u, k = staged[u].key
          PROVE  FALSE
      <3>1. US!Held(u) /\ US!Kept(u)
        BY StagingFacts
      <3> QED
        BY <2>1, <2>2, <3>1 DEF US!Held, US!Kept
    <2> QED
      BY <2>2, StagingKept
  <1> QED
    BY <1>1, UploadsStand, PTL DEF US!Spec, US!UploadsKeepPayload
=============================================================================
