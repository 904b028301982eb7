----------------------------- MODULE LoginLimits -----------------------------
(***************************************************************************)
(* LoginIpRateLimiter (auth/rate_limit.py): a window of logins per network,*)
(* a fixed number of overflow windows when there are too many networks,    *)
(* windows of the names that came through the overflow, and one window for *)
(* everybody.  A window is what is left of it and what it has admitted.    *)
(***************************************************************************)
EXTENDS Integers, FiniteSets, FiniteSetsExt

CONSTANTS
    Network, Name, Bucket,
    NetworkIndex, NameIndex,   \* _index: the overflow bucket of each
    Maximum, FallbackMaximum, GlobalMaximum,
    MaxKeys,                   \* networks with a window of their own
    WindowSeconds              \* in ticks

VARIABLES
    windows,   \* _windows
    overflow,  \* _overflow_ips
    accounts,  \* _overflow_identities
    total,     \* _global
    recent     \* logins admitted in each of the last ticks

vars == <<windows, overflow, accounts, total, recent>>

None == [left |-> 0, count |-> 0]
Live(w) == w.left > 0
Fresh(w) == IF Live(w) THEN w ELSE [left |-> WindowSeconds, count |-> 0]
Spent(w) == [Fresh(w) EXCEPT !.count = @ + 1]

WindowType(max) == [left : 0..WindowSeconds, count : 0..max]
TypeOK ==
    /\ windows \in [Network -> WindowType(Maximum)]
    /\ Cardinality({n \in Network : Live(windows[n])}) <= MaxKeys
    /\ overflow \in [Bucket -> WindowType(Maximum)]
    /\ accounts \in [Bucket -> WindowType(FallbackMaximum)]
    /\ total \in WindowType(GlobalMaximum)

Init ==
    /\ windows = [n \in Network |-> None]
    /\ overflow = [b \in Bucket |-> None] /\ accounts = [b \in Bucket |-> None]
    /\ total = None
    /\ recent = [n \in Network |-> [i \in 1..WindowSeconds |-> 0]]

\* Mutated form: a network leaves the overflow as soon as there is room.
ThroughOverflowFull(n) ==
    /\ ~Live(windows[n])
    /\ Cardinality({m \in Network : Live(windows[m])}) >= MaxKeys

\* The overflow is sticky: room for a window of its own does not help a network
\* whose overflow window is live.
ThroughOverflow(n) ==
    /\ ~Live(windows[n])
    /\ \/ Live(overflow[NetworkIndex[n]])
       \/ Cardinality({m \in Network : Live(windows[m])}) >= MaxKeys

OpenToAll == Live(total) => total.count < GlobalMaximum

\* consume: nothing is spent by a refusal.
Consume(n, name) ==
    LET over == ThroughOverflow(n)
        bucket == NetworkIndex[n]
        entry == NameIndex[name]
        window == IF over THEN overflow[bucket] ELSE windows[n]
        named == over \/ Live(accounts[entry])
    IN
    /\ OpenToAll
    /\ Fresh(window).count < Maximum
    /\ named => Fresh(accounts[entry]).count < FallbackMaximum
    /\ IF over
       THEN overflow' = [overflow EXCEPT ![bucket] = Spent(window)] /\ UNCHANGED windows
       ELSE windows' = [windows EXCEPT ![n] = Spent(window)] /\ UNCHANGED overflow
    /\ accounts' = IF named THEN [accounts EXCEPT ![entry] = Spent(@)] ELSE accounts
    /\ total' = Spent(total)
    /\ recent' = [recent EXCEPT ![n][1] = @ + 1]

Older(w) == IF w.left > 1 THEN [w EXCEPT !.left = @ - 1] ELSE None
Tick ==
    /\ windows' = [n \in Network |-> Older(windows[n])]
    /\ overflow' = [b \in Bucket |-> Older(overflow[b])]
    /\ accounts' = [b \in Bucket |-> Older(accounts[b])]
    /\ total' = Older(total)
    /\ recent' = [n \in Network |-> [i \in 1..WindowSeconds |-> IF i = 1 THEN 0 ELSE recent[n][i - 1]]]

Next == Tick \/ \E n \in Network, name \in Name : Consume(n, name)

Spec == Init /\ [][Next]_vars

-----------------------------------------------------------------------------
(* Properties                                                              *)

\* In any stretch as long as a window a network is admitted at most twice the
\* maximum, and all together twice theirs, although networks move between
\* windows of their own and the overflow.
Sum(f) == MapThenSumSet(LAMBDA i : f[i], 1..WindowSeconds)
NetworksBounded ==
    /\ \A n \in Network : Sum(recent[n]) <= 2 * Maximum
    /\ MapThenSumSet(LAMBDA n : Sum(recent[n]), Network) <= 2 * GlobalMaximum
=============================================================================
