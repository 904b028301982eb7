-------------------------- MODULE DownloadTraffic --------------------------
(***************************************************************************)
(* Streams of files (torrents/traffic.py, torrents/downloads.py and        *)
(* http_downloads.py): the byte range of a request, the fast and the slow  *)
(* lane with promotion and an adaptive limit, and the rate limiter whose   *)
(* reservations a stream waits for before it reads and sends a chunk.      *)
(*                                                                         *)
(* Bytes are counted in the slow lane's chunks, time in the ticks one such *)
(* chunk takes.  Every time of the code is kept as what is left of it.     *)
(***************************************************************************)
EXTENDS Integers, Sequences, FiniteSets, FiniteSetsExt

CONSTANTS
    Stream, User, Owner,
    Size,           \* of the file
    Headers,        \* the Range headers each stream may ask for
    Chunk,          \* WOS_HTTP_STREAM_CHUNK_BYTES
    UserCost,       \* ticks per unit of the user's rate, 0 for none
    GlobalCost,     \* the same for all users together
    InitialFast, MaxFast, WaitingPerUser,
    Bonus           \* of a nearly finished stream, in ticks of waiting

VARIABLES
    phase,   \* where each response is
    header,  \* what it was asked for
    sent,    \* units accepted by the client
    want,    \* units of the chunk in hand
    delay,   \* before the chunk may be read
    fast, order, pause,   \* _Transfer: fast, sequence, next_slow_at
    age, since,           \* joined_at before the latest join, and time since that
    fastLimit,
    userNext, globalNext, streamNext   \* DownloadRateLimiter

lanes == <<fast, order, age, since, pause, fastLimit>>
limiter == <<userNext, globalNext, streamNext>>
vars == <<phase, header, sent, want, delay, fast, order, age, since, pause, fastLimit,
          userNext, globalNext, streamNext>>

MaxGap == Bonus + 1     \* bound: joins further apart are not told apart
OldestAge == 2 * MaxGap
MaxTime == 2 * Chunk * Max({UserCost, GlobalCost, 1})   \* bound: reservations ahead

-----------------------------------------------------------------------------
(* Byte ranges: a header is <<"all">>, <<"from", first>>, <<"span", first, *)
(* last>> or <<"suffix", n>>                                               *)

\* Mutated form: the last byte is not part of the range.
ParseRangeOpen(h) ==
    CASE h[1] = "all" -> [start |-> 0, length |-> Size]
      [] h[1] = "suffix" -> [start |-> Max({Size - h[2], 0}), length |-> Min({h[2], Size})]
      [] h[1] = "from" -> [start |-> h[2], length |-> Size - h[2]]
      [] h[1] = "span" -> [start |-> h[2], length |-> Min({h[3], Size}) - h[2]]

\* parse_range_header; a missing header asks for the whole file.
ParseRange(h) ==
    CASE h[1] = "all" -> [start |-> 0, length |-> Size]
      [] h[1] = "suffix" -> [start |-> Max({Size - h[2], 0}), length |-> Min({h[2], Size})]
      [] h[1] = "from" -> [start |-> h[2], length |-> Size - h[2]]
      [] h[1] = "span" -> [start |-> h[2], length |-> Min({h[3], Size - 1}) - h[2] + 1]

\* RangeNotSatisfiableError.
Satisfiable(h) ==
    CASE h[1] = "all" -> TRUE
      [] h[1] = "suffix" -> Size > 0 /\ h[2] > 0
      [] h[1] = "from" -> Size > 0 /\ h[2] < Size
      [] h[1] = "span" -> Size > 0 /\ h[2] < Size /\ h[2] <= h[3]

Length(s) == ParseRange(header[s]).length
Remaining(s) == Length(s) - sent[s]

-----------------------------------------------------------------------------
(* State                                                                   *)

TypeOK ==
    /\ phase \in [Stream -> {"new", "ask", "delay", "closing"}]
    /\ \A s \in Stream : header[s] \in Headers[s] \cup {<<"all">>}
    /\ sent \in [Stream -> 0..Size] /\ want \in [Stream -> 0..Chunk]
    /\ delay \in [Stream -> 0..MaxTime]
    /\ fast \subseteq Stream /\ order \in Seq(Stream)
    /\ age \in [Stream -> 0..OldestAge] /\ since \in 0..MaxGap /\ pause \in [Stream -> 0..1]
    /\ fastLimit \in InitialFast..MaxFast
    /\ userNext \in [User -> 0..MaxTime] /\ globalNext \in 0..MaxTime
    /\ streamNext \in [Stream -> 0..MaxTime]

Init ==
    /\ phase = [s \in Stream |-> "new"]
    /\ header = [s \in Stream |-> <<"all">>]
    /\ sent = [s \in Stream |-> 0] /\ want = [s \in Stream |-> 0]
    /\ delay = [s \in Stream |-> 0]
    /\ fast = {} /\ order = <<>>
    /\ age = [s \in Stream |-> 0] /\ since = 0 /\ pause = [s \in Stream |-> 0]
    /\ fastLimit = InitialFast
    /\ userNext = [u \in User |-> 0] /\ globalNext = 0
    /\ streamNext = [s \in Stream |-> 0]

Goes(s, p) == phase' = [phase EXCEPT ![s] = p]

-----------------------------------------------------------------------------
(* Lanes                                                                   *)

Registered == {order[i] : i \in DOMAIN order}
Slow == Registered \ fast
Before(s, t) == \E i, j \in DOMAIN order : i < j /\ order[i] = s /\ order[j] = t
\* Mutated form: small files first, however long the others wait.
PriorityBySize(s) == IF Remaining(s) <= 1 THEN Bonus + OldestAge ELSE 0

\* Short files get a bounded head start, then waiting time dominates.
Priority(s) == age[s] + (IF Remaining(s) <= 1 THEN Bonus ELSE 0)
Ahead(s, t) == Priority(s) > Priority(t) \/ (Priority(s) = Priority(t) /\ Before(s, t))

\* _fill_fast_slots among the streams W, with n of them fast already.
Promoted(W, n, limit) ==
    {s \in W : Cardinality({t \in W : Ahead(t, s)}) < limit - n}

MayWait(s) == Cardinality({t \in Slow : Owner[t] = Owner[s]}) < WaitingPerUser

\* The route: range, then register, which refuses or admits the stream.
Register(s) ==
    /\ phase[s] = "new"
    /\ \E h \in Headers[s] :
          /\ Satisfiable(h)
          /\ LET moved == Promoted(Slow, Cardinality(fast), fastLimit)
                 lane == Cardinality(fast \cup moved) < fastLimit
             IN
             /\ lane \/ MayWait(s)
             /\ fast' = fast \cup moved \cup (IF lane THEN {s} ELSE {})
          /\ header' = [header EXCEPT ![s] = h]
    /\ order' = Append(order, s)
    /\ Goes(s, IF ParseRange(header'[s]).length > 0 THEN "ask" ELSE "closing")
    /\ age' = [t \in Stream |->
                 IF t = s \/ t \notin Registered THEN 0 ELSE Min({age[t] + since, OldestAge})]
    /\ since' = 0
    /\ UNCHANGED <<sent, want, delay, pause, fastLimit, limiter>>

\* What belonged to the lease of an ended response.
Forget(s) ==
    /\ Goes(s, "new") /\ header' = [header EXCEPT ![s] = <<"all">>]
    /\ sent' = [sent EXCEPT ![s] = 0] /\ want' = [want EXCEPT ![s] = 0]
    /\ delay' = [delay EXCEPT ![s] = 0] /\ age' = [age EXCEPT ![s] = 0]
    /\ pause' = [pause EXCEPT ![s] = 0] /\ streamNext' = [streamNext EXCEPT ![s] = 0]

\* Mutated form: a lane that becomes free is not given to anybody.
UnregisterIdle(s) ==
    /\ phase[s] = "closing"
    /\ order' = SelectSeq(order, LAMBDA t : t # s)
    /\ fast' = fast \ {s}
    /\ Forget(s)
    /\ UNCHANGED <<since, fastLimit, userNext, globalNext>>

\* finish_download of the response.
Unregister(s) ==
    /\ phase[s] = "closing"
    /\ order' = SelectSeq(order, LAMBDA t : t # s)
    /\ fast' = IF s \in fast
               THEN (fast \ {s}) \cup Promoted(Slow, Cardinality(fast) - 1, fastLimit)
               ELSE fast
    /\ Forget(s)
    /\ UNCHANGED <<since, fastLimit, userNext, globalNext>>

Ceil(a, b) == (a + b - 1) \div b

\* observe_upload: a low sample adds lanes while somebody waits, a high one
\* takes lanes from future streams only.
Observe ==
    /\ \/ /\ Slow # {} /\ fastLimit < MaxFast
          /\ fastLimit' = Min({MaxFast, fastLimit + Ceil(fastLimit, 4)})
          /\ fast' = fast \cup Promoted(Slow, Cardinality(fast), fastLimit')
       \/ /\ fastLimit > InitialFast
          /\ fastLimit' = Max({InitialFast, fastLimit - Ceil(fastLimit, 5)})
          /\ UNCHANGED fast
    /\ UNCHANGED <<phase, header, sent, want, delay, order, age, since, pause, limiter>>

-----------------------------------------------------------------------------
(* One chunk                                                               *)

\* DownloadRateLimiter.reserve of n units from `ready` on.
Reserved(s, n, ready, slow) ==
    /\ want' = [want EXCEPT ![s] = n] /\ delay' = [delay EXCEPT ![s] = ready]
    /\ userNext' = [userNext EXCEPT ![Owner[s]] = IF UserCost > 0 THEN ready + n * UserCost ELSE @]
    /\ globalNext' = IF GlobalCost > 0 THEN ready + n * GlobalCost ELSE globalNext
    /\ streamNext' = [streamNext EXCEPT ![s] = IF slow THEN ready + n ELSE @]

\* Mutated form: a reservation counts from now, not from when it is ready.
ReserveFromNow(s, n, slow) ==
    /\ want' = [want EXCEPT ![s] = n]
    /\ delay' = [delay EXCEPT ![s] = Max({userNext[Owner[s]], globalNext})]
    /\ userNext' = [userNext EXCEPT ![Owner[s]] = n * UserCost]
    /\ globalNext' = n * GlobalCost
    /\ UNCHANGED streamNext

\* A rate that is not set leaves its time at 0; the slow lane has a rate too.
Reserve(s, n, slow) ==
    /\ Max({userNext[Owner[s]], globalNext}) + n * Max({UserCost, GlobalCost}) <= MaxTime
    /\ Reserved(s, n, Max({userNext[Owner[s]], globalNext, IF slow THEN streamNext[s] ELSE 0}), slow)

\* next_chunk and reserve, without an await between them that suspends: a fast
\* stream takes a whole chunk, a slow one a small one when its pause is over.
NextChunk(s) ==
    /\ phase[s] = "ask"
    /\ \/ /\ s \in fast
          /\ Reserve(s, Min({Remaining(s), Chunk}), FALSE)
          /\ UNCHANGED pause
       \/ /\ s \notin fast /\ pause[s] = 0
          /\ Reserve(s, 1, TRUE)
          /\ pause' = [pause EXCEPT ![s] = 1]
    /\ Goes(s, "delay")
    /\ UNCHANGED <<header, sent, fast, order, age, since, fastLimit>>

\* The chunk, or less of it, is read, accepted by the client and reported; the
\* response ends with its last byte.
Send(s) ==
    /\ phase[s] = "delay" /\ delay[s] = 0
    /\ \E n \in 1..want[s] :
          /\ sent' = [sent EXCEPT ![s] = @ + n]
          /\ Goes(s, IF n = Remaining(s) THEN "closing" ELSE "ask")
    /\ want' = [want EXCEPT ![s] = 0]
    /\ UNCHANGED <<header, delay, lanes, limiter>>

\* The client leaves or stalls, the file is shorter than its manifest says, or
\* the lease is lost.  What was reserved is not given back.
Interrupt(s) ==
    /\ phase[s] \in {"ask", "delay"}
    /\ Goes(s, "closing")
    /\ want' = [want EXCEPT ![s] = 0] /\ delay' = [delay EXCEPT ![s] = 0]
    /\ UNCHANGED <<header, sent, lanes, limiter>>

Less(n) == IF n > 0 THEN n - 1 ELSE 0
Tick ==
    /\ since' = Min({since + 1, MaxGap})
    /\ pause' = [s \in Stream |-> Less(pause[s])]
    /\ delay' = [s \in Stream |-> Less(delay[s])]
    /\ userNext' = [u \in User |-> Less(userNext[u])]
    /\ globalNext' = Less(globalNext)
    /\ streamNext' = [s \in Stream |-> Less(streamNext[s])]
    /\ UNCHANGED <<phase, header, sent, want, fast, order, age, fastLimit>>

Next ==
    \/ \E s \in Stream :
          \/ Register(s) \/ Unregister(s) \/ NextChunk(s)
          \/ Send(s) \/ Interrupt(s)
    \/ Observe \/ Tick

\* Time passes, and the event loop resumes a fast stream that can go on: its
\* client takes the chunk in time or is cut off.  Nothing is assumed of slow ones.
Proceed(s) == NextChunk(s) \/ Send(s) \/ Unregister(s)
Moves(s) == s \in fast /\ Proceed(s)

Fairness ==
    /\ WF_vars(Tick)
    /\ \A s \in Stream : WF_vars(Moves(s))

Spec == Init /\ [][Next]_vars /\ Fairness

-----------------------------------------------------------------------------
(* Properties                                                              *)

\* No lane is left idle while somebody waits, whatever order streams end, are
\* promoted and the limit moves in; and nobody waits with more than his share.
LanesUsed ==
    /\ Slow # {} => Cardinality(fast) >= fastLimit
    /\ \A u \in User : Cardinality({s \in Slow : Owner[s] = u}) <= WaitingPerUser

\* Chunks of a user, and of all users, that wait for their reservation are
\* spaced by what they cost: the rate holds over any window.
Spaced(s, t, cost) ==
    delay[s] + want[s] * cost <= delay[t] \/ delay[t] + want[t] * cost <= delay[s]
RateHolds ==
    \A s, t \in {x \in Stream : phase[x] = "delay" /\ delay[x] > 0} :
        s # t => /\ UserCost > 0 /\ Owner[s] = Owner[t] => Spaced(s, t, UserCost)
                 /\ GlobalCost > 0 => Spaced(s, t, GlobalCost)

\* What the header asks for, byte by byte.
Wanted(h) ==
    {b \in 0..(Size - 1) :
        CASE h[1] = "all" -> TRUE
          [] h[1] = "from" -> b >= h[2]
          [] h[1] = "span" -> h[2] <= b /\ b <= h[3]
          [] h[1] = "suffix" -> b + h[2] >= Size}
\* A response sends bytes of the file that were asked for, and a complete one
\* has sent them all, through short reads and changes of lane.
BytesExact ==
    \A s \in Registered :
        LET start == ParseRange(header[s]).start
            body == start..(start + sent[s] - 1)
        IN body \subseteq Wanted(header[s]) /\ (Remaining(s) = 0 => body = Wanted(header[s]))

Waits(s) == s \in Slow

\* A stream that waits is not displaced for ever by streams that come later,
\* however short they are and although it makes no progress of its own.
NotDisplaced == \A s \in Stream : []<>~Waits(s)
=============================================================================
