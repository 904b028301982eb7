------------------------------ MODULE ApiLimits ------------------------------
(***************************************************************************)
(* ExternalApiRateLimiter (api/external/rate_limit.py) as the external API *)
(* uses it: a request spends from the budget of its address and of all     *)
(* addresses, then from that of its client.  A budget is the ages of the   *)
(* requests it admitted, oldest first.                                     *)
(***************************************************************************)
EXTENDS Integers, Sequences, FiniteSets, SequencesExt

CONSTANTS
    Address, Client,
    Maximum, GlobalMaximum, MaxKeys,
    WindowSeconds            \* in ticks

Key == Address \cup Client

VARIABLES
    order,    \* the keys of _events, by their last admitted request
    events,   \* _events
    everyone, \* _global_events
    recent    \* requests of each key admitted in the last ticks, for the properties

vars == <<order, events, everyone, recent>>

Recent(s) == SelectSeq(s, LAMBDA age : age < WindowSeconds)

TypeOK ==
    /\ order \in Seq(Key) /\ Len(order) <= MaxKeys /\ IsInjective(order)
    /\ \A k \in Key : Len(events[k]) <= Maximum
    /\ Len(everyone) <= GlobalMaximum

Init ==
    /\ order = <<>> /\ events = [k \in Key |-> <<>>] /\ everyone = <<>>
    /\ recent = [k \in Key |-> <<>>]

\* Keys are dropped from the front while their last request has left the window.
Prune(o, e) ==
    LET kept == {i \in DOMAIN o : \E j \in 1..i : Last(e[o[j]]) < WindowSeconds}
    IN IF kept = {} THEN <<>> ELSE SubSeq(o, CHOOSE i \in kept : \A j \in kept : i <= j, Len(o))

\* Mutated form: the oldest key makes room for a new one.
RoomEvicting(o, k) == IF ~Contains(o, k) /\ Len(o) >= MaxKeys THEN Tail(o) ELSE o
Room(o, k) == o

\* One call of consume in the state left by those before it.
MaySpend(o, e, g, k) ==
    LET live == Room(Prune(o, e), k) IN
    /\ k \in Address => Len(Recent(g)) < GlobalMaximum
    /\ Contains(live, k) \/ Len(live) < MaxKeys
    /\ Contains(live, k) => Len(Recent(e[k])) < Maximum

Order(o, e, k) == Append(SelectSeq(Room(Prune(o, e), k), LAMBDA x : x # k), k)
Events(o, e, k) ==
    [x \in Key |-> IF x = k THEN Append(IF Contains(Prune(o, e), k) THEN Recent(e[k]) ELSE <<>>, 0)
                   ELSE IF Contains(Room(Prune(o, e), k), x) THEN e[x] ELSE <<>>]

\* authenticate_external_client: the address first, then the client if its key
\* is known; the first budget stays spent when the second refuses.
Authenticate(a, c) ==
    LET o1 == Order(order, events, a)
        e1 == Events(order, events, a)
    IN
    /\ MaySpend(order, events, everyone, a)
    /\ everyone' = Append(Recent(everyone), 0)
    /\ IF c \in Client /\ MaySpend(o1, e1, everyone', c)
       THEN /\ order' = Order(o1, e1, c) /\ events' = Events(o1, e1, c)
            /\ recent' = [recent EXCEPT ![a] = Append(@, 0), ![c] = Append(@, 0)]
       ELSE /\ order' = o1 /\ events' = e1
            /\ recent' = [recent EXCEPT ![a] = Append(@, 0)]

Older(s) == [i \in DOMAIN s |-> IF s[i] < WindowSeconds THEN s[i] + 1 ELSE s[i]]
Tick ==
    /\ events' = [k \in Key |-> Older(events[k])]
    /\ everyone' = Older(everyone)
    /\ recent' = [k \in Key |-> Recent(Older(recent[k]))]
    /\ UNCHANGED order

Unknown == "unknown"   \* a key of no client
Next == Tick \/ \E a \in Address, c \in Client \cup {Unknown} : Authenticate(a, c)

Spec == Init /\ [][Next]_vars

-----------------------------------------------------------------------------
(* Properties                                                              *)

\* In any window an address and a client spend at most their budget and all
\* addresses theirs: no live budget is lost to make room for another key.
BudgetsRoll ==
    /\ \A k \in Key : Len(recent[k]) <= Maximum
    /\ FoldSet(LAMBDA k, n : Len(recent[k]) + n, 0, Address) <= GlobalMaximum
=============================================================================
