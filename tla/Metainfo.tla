------------------------------ MODULE Metainfo ------------------------------
(***************************************************************************)
(* Parsing and rewriting a torrent file.  A torrent is known by the hash   *)
(* of the bytes of its info dictionary: the upload is rewritten once to be *)
(* staged without credentials and once more to be submitted with them, and *)
(* both must keep these bytes.  The model reads every input made of a few  *)
(* tokens with the parser's own rules.                                     *)
(***************************************************************************)
EXTENDS Naturals, Sequences, SequencesExt, TLC

CONSTANTS
  Token,       \* sequences of bytes the inputs are made of
  MaxTokens,   \* tokens in an input: a bound on the instance
  MaxDepth     \* MAX_BENCODE_DEPTH

VARIABLES content, tokens

vars == <<content, tokens>>

-----------------------------------------------------------------------------
(* Bytes: a byte is a one-character string *)

Ascii == <<"-", "0", "1", ":", "d", "e", "i", "l">>
Code(b) == CHOOSE i \in 1..Len(Ascii) : Ascii[i] = b
Digit == {"0", "1"}

Number(digits) == FoldLeft(LAMBDA n, b : 10 * n + (IF b = "1" THEN 1 ELSE 0), 0, digits)

RECURSIVE Text(_)
Text(n) == IF n < 10 THEN <<IF n = 1 THEN "1" ELSE "0">>
           ELSE Append(Text(n \div 10), IF n % 10 = 1 THEN "1" ELSE "0")

\* The order of Python's bytes.
RECURSIVE Less(_, _)
Less(s, t) ==
  /\ t # <<>>
  /\ \/ s = <<>>
     \/ s # <<>> /\ Code(Head(s)) < Code(Head(t))
     \/ s # <<>> /\ Head(s) = Head(t) /\ Less(Tail(s), Tail(t))

Find(c, b, from) ==
  IF \E i \in from..Len(c) : c[i] = b
  THEN CHOOSE i \in from..Len(c) : c[i] = b /\ \A j \in from..(i - 1) : c[j] # b
  ELSE 0

-----------------------------------------------------------------------------
(* The parser: a result is [st, pos, val], st "ok", "short" (the input ends) or "bad" *)

Result(st, pos, val) == [st |-> st, pos |-> pos, val |-> val]
Failed(st) == Result(st, 0, <<"none">>)

AllDigits(s) == s # <<>> /\ \A i \in 1..Len(s) : s[i] \in Digit

Plain(digits) == AllDigits(digits) /\ (Head(digits) = "0" => Len(digits) = 1)

Negative(raw) == raw # <<>> /\ Head(raw) = "-"

Integer(c, p) ==
  LET end == Find(c, "e", p + 1)
      raw == SubSeq(c, p + 1, end - 1)
  IN CASE end = 0 -> Failed("short")
       [] end # 0 /\ ~Negative(raw) /\ Plain(raw) -> Result("ok", end + 1, <<"int", FALSE, Number(raw)>>)
       [] end # 0 /\ Negative(raw) /\ Plain(Tail(raw)) /\ raw[2] # "0" ->
            Result("ok", end + 1, <<"int", TRUE, Number(Tail(raw))>>)
       [] OTHER -> Failed("bad")

Bytes(c, p) ==
  LET colon == Find(c, ":", p)
      raw == SubSeq(c, p, colon - 1)
      end == colon + Number(raw)
  IN CASE colon = 0 -> Failed("short")
       [] colon # 0 /\ ~Plain(raw) -> Failed("bad")
       [] colon # 0 /\ Plain(raw) /\ end > Len(c) -> Failed("short")
       [] OTHER -> Result("ok", end + 1, <<"bytes", SubSeq(c, colon + 1, end)>>)

\* A Python dictionary in the order of its keys' insertion: a new value replaces an old one.
Put(pairs, key, val) ==
  IF \E i \in 1..Len(pairs) : pairs[i][1] = key
  THEN [i \in 1..Len(pairs) |-> IF pairs[i][1] = key THEN <<key, val>> ELSE pairs[i]]
  ELSE Append(pairs, <<key, val>>)

\* Mutated form: a key may come again.
KeyFollowsLoose(key, pairs) == pairs = <<>> \/ ~Less(key, Last(pairs)[1])

\* A key of a dictionary is new and after the previous one.
KeyFollows(key, pairs) ==
  /\ \A i \in 1..Len(pairs) : pairs[i][1] # key
  /\ pairs = <<>> \/ ~Less(key, Last(pairs)[1])

RECURSIVE Parse(_, _, _), Items(_, _, _, _), Pairs(_, _, _, _)
Parse(c, p, depth) ==
  CASE depth > MaxDepth -> Failed("bad")
    [] depth <= MaxDepth /\ p > Len(c) -> Failed("short")
    [] depth <= MaxDepth /\ p <= Len(c) /\ c[p] = "i" -> Integer(c, p)
    [] depth <= MaxDepth /\ p <= Len(c) /\ c[p] = "l" -> Items(c, p + 1, depth, <<>>)
    [] depth <= MaxDepth /\ p <= Len(c) /\ c[p] = "d" -> Pairs(c, p + 1, depth, <<>>)
    [] depth <= MaxDepth /\ p <= Len(c) /\ c[p] \in Digit -> Bytes(c, p)
    [] OTHER -> Failed("bad")

Items(c, p, depth, done) ==
  IF p > Len(c) THEN Failed("short")
  ELSE IF c[p] = "e" THEN Result("ok", p + 1, <<"list", done>>)
  ELSE LET item == Parse(c, p, depth + 1)
       IN IF item.st # "ok" THEN item ELSE Items(c, item.pos, depth, Append(done, item.val))

Pairs(c, p, depth, done) ==
  IF p > Len(c) THEN Failed("short")
  ELSE IF c[p] = "e" THEN Result("ok", p + 1, <<"dict", done>>)
  ELSE LET key == Bytes(c, p)
           item == Parse(c, key.pos, depth + 1)
       IN CASE key.st # "ok" -> key
            [] key.st = "ok" /\ ~KeyFollows(key.val[2], done) -> Failed("bad")
            [] key.st = "ok" /\ KeyFollows(key.val[2], done) /\ item.st # "ok" -> item
            [] OTHER -> Pairs(c, item.pos, depth, Put(done, key.val[2], item.val))

AtEnd(c, r) == IF r.st = "ok" /\ r.pos # Len(c) + 1 THEN Failed("bad") ELSE r

Whole(c) == AtEnd(c, Parse(c, 1, 0))

RECURSIVE Encode(_)
Encode(v) ==
  CASE v[1] = "int" -> <<"i">> \o (IF v[2] THEN <<"-">> ELSE <<>>) \o Text(v[3]) \o <<"e">>
    [] v[1] = "bytes" -> Text(Len(v[2])) \o <<":">> \o v[2]
    [] v[1] = "list" -> <<"l">> \o FlattenSeq([i \in 1..Len(v[2]) |-> Encode(v[2][i])]) \o <<"e">>
    [] v[1] = "dict" ->
         LET sorted == SortSeq(v[2], LAMBDA q, r : Less(q[1], r[1]))
         IN <<"d">> \o FlattenSeq([i \in 1..Len(sorted) |->
                         Encode(<<"bytes", sorted[i][1]>>) \o Encode(sorted[i][2])]) \o <<"e">>
    [] v[1] = "raw" -> v[2]

-----------------------------------------------------------------------------
(* Rewriting: keys of one byte stand for the real ones *)

Comment == <<>>              \* one of _PEER_DISCOVERY_FIELDS
Announce == <<"0">>
Info == <<"1">>
Tracker == <<"bytes", <<"1">>>>   \* the normalised tracker URL

Has(pairs, key) == \E i \in 1..Len(pairs) : pairs[i][1] = key
At(pairs, key) == pairs[CHOOSE i \in 1..Len(pairs) : pairs[i][1] = key][2]

\* The second pass over the input: the bytes between the key info and the next key.
RECURSIVE InfoFrom(_, _)
InfoItem(c, from, key, to) ==
  IF key = Info THEN SubSeq(c, from, to - 1) ELSE InfoFrom(c, to)
InfoKey(c, key) == InfoItem(c, key.pos, key.val[2], Parse(c, key.pos, 1).pos)
InfoFrom(c, p) == InfoKey(c, Bytes(c, p))

InfoRaw(c) == InfoFrom(c, 2)

HasType(pairs, key, type) == Has(pairs, key) /\ At(pairs, key)[1] = type

ValidValue(r) ==
  /\ r.st = "ok" /\ r.val[1] = "dict"
  /\ HasType(r.val[2], Info, "dict") /\ HasType(r.val[2], Announce, "bytes")

Valid(c) == ValidValue(Whole(c))

\* Mutated form: the fields that find peers are also dropped inside info.
InfoKeptFiltered(c) ==
  Encode(<<"dict", SelectSeq(At(Whole(c).val[2], Info)[2], LAMBDA q : q[1] # Comment)>>)

InfoKept(c) == InfoRaw(c)

NewValue(q, info) ==
  CASE q[1] = Info -> <<"raw", info>>
    [] q[1] = Announce -> Tracker
    [] OTHER -> q[2]

NewPairs(pairs, info) ==
  [i \in 1..Len(pairs) |-> <<pairs[i][1], NewValue(pairs[i], info)>>]

Rewrite(c) ==
  Encode(<<"dict", NewPairs(SelectSeq(Whole(c).val[2], LAMBDA q : q[1] # Comment), InfoKept(c))>>)

-----------------------------------------------------------------------------
(* The inputs: tokens are added while the input may still become valid *)

Init == content = <<>> /\ tokens = 0

Extend ==
  /\ tokens < MaxTokens /\ Whole(content).st = "short"
  /\ \E t \in Token : content' = content \o t
  /\ tokens' = tokens + 1

Next == Extend

Spec == Init /\ [][Next]_vars

-----------------------------------------------------------------------------
(* Properties *)

TypeOK == content \in Seq({Ascii[i] : i \in 1..Len(Ascii)}) /\ tokens \in 0..MaxTokens

\* A file the parser accepts is the only encoding of what it read: encoding the value gives
\* the same bytes, so equal values never hide behind different info hashes (_Parser, _encode).
Canonical == Whole(content).st = "ok" => Encode(Whole(content).val) = content

\* What a rewriting keeps, and another one does not change.
KeepsInfo(c, staged) ==
  /\ Valid(staged) /\ InfoRaw(staged) = InfoRaw(c)
  /\ Rewrite(staged) = staged

\* The file that is staged, and the one that is submitted after a second rewriting, are
\* valid and keep the bytes of info the upload came with (_rewrite_torrent).
SameInfo == Valid(content) => KeepsInfo(content, Rewrite(content))

=============================================================================
