--------------------------- MODULE OptionRegistry ---------------------------
(***************************************************************************)
(* The options kept in PostgreSQL.  Services initialise the rows that the  *)
(* code's registry declares, administrators change several at a time from  *)
(* the page they loaded earlier, and an operator may edit a row by hand.   *)
(* An update locks every row, in key order, because the rules relate       *)
(* options that the update does not change.                                *)
(*                                                                         *)
(* An option's value is a number; 0 stands for zero, for "unlimited" and   *)
(* for an empty text.  A row keeps its value and its version.              *)
(***************************************************************************)
EXTENDS Naturals, Sequences, SequencesExt, FiniteSets

CONSTANTS
  Admin, Service,    \* who calls update and who calls initialize
  Order,             \* the option keys in key order
  Bounds, Default,   \* [key -> {allowed numbers}], [key -> default]
  Strict, Ordered, Capped,  \* pairs of keys compared by validate_cross_options
  Account,           \* pairs <<number key, passkey key>> of the C411 slots
  Rate, Floor,       \* options that are 0 or at least Floor when written
  Fits, Reserve, Full,      \* pairs checked when written: a <= b, a + b <= Full
  Changes,           \* the change sets administrators submit: a bound on the instance
  Present,           \* keys that exist at the start: the others are new in this release
  MaxVersion, MaxManual     \* bounds on the instance

VARIABLES
  rows,     \* [key -> [value, version]], Missing for a row that does not exist
  audit,    \* [key -> sequence of audit events]
  tx,       \* [caller -> the transaction under way]
  page,     \* [admin -> the rows shown by the overview loaded last]
  manual    \* number of edits by hand

vars == <<rows, audit, tx, page, manual>>

Key == Range(Order)
Caller == Admin \cup Service
Missing == [value |-> 0, version |-> 0]
NoTx == [at |-> "idle", changes |-> <<>>, guarded |-> FALSE, seen |-> <<>>, have |-> {},
         locked |-> {}, new |-> <<>>]

Exists(k) == rows[k].version > 0
Values(r) == [k \in Key |-> r[k].value]
Holder(k) == {p \in Caller : k \in tx[p].locked}
\* Rows another transaction has inserted and not committed: an insert of the same key waits.
Inserting(k) == {p \in Caller : k \in DOMAIN tx[p].new \ tx[p].have}

Init ==
  /\ rows = [k \in Key |-> IF k \in Present THEN [value |-> Default[k], version |-> 1] ELSE Missing]
  /\ audit = [k \in Key |-> IF k \in Present
                            THEN <<[version |-> 1, old |-> 0, new |-> Default[k]]>> ELSE <<>>]
  /\ tx = [p \in Caller |-> NoTx]
  /\ page = [p \in Admin |-> rows]
  /\ manual = 0

-----------------------------------------------------------------------------
(* The rules *)

\* normalize_option_value: the type, the bounds or the choices of one option.
Normal(k, v) == v \in Bounds[k]

Paired(v, slots) ==
  /\ \A a \in slots : (v[a[1]] = 0) <=> (v[a[2]] = 0)
  /\ \A a, b \in slots : a # b /\ v[a[1]] # 0 => v[a[1]] # v[b[1]] /\ v[a[2]] # v[b[2]]

\* validate_cross_options: applied to every state that is read and to every state written.
Consistent(v) ==
  /\ \A p \in Strict : v[p[1]] < v[p[2]]
  /\ \A p \in Ordered : v[p[1]] <= v[p[2]]
  /\ \A p \in Capped : v[p[2]] # 0 => v[p[1]] <= v[p[2]]
  /\ Paired(v, Account)

\* validate_written_options: a guard looks at the new state when one of its options changes.
Sane(v, changed) ==
  /\ \A k \in Rate \cap changed : v[k] = 0 \/ v[k] >= Floor
  /\ \A p \in Fits : {p[1], p[2]} \cap changed # {} => v[p[1]] <= v[p[2]]
  /\ \A p \in Reserve : {p[1], p[2]} \cap changed # {} => v[p[1]] + v[p[2]] <= Full

\* _validated_values: what every reader of the options requires.
Valid(v) == (\A k \in Key : Normal(k, v[k])) /\ Consistent(v)

-----------------------------------------------------------------------------
(* Row locks: SELECT ... ORDER BY key FOR UPDATE *)

\* The rows a locking statement returns are those that existed when it started.
Locking(t) == [t EXCEPT !.at = "locking", !.have = {k \in Key : Exists(k)}, !.locked = {}]

Place(k) == SelectInSeq(Order, LAMBDA x : x = k)
NextRow(p) == LET left == tx[p].have \ tx[p].locked IN {k \in left : \A j \in left : Place(k) <= Place(j)}

LockRow(p) == \E k \in NextRow(p) :
  /\ tx[p].at = "locking"
  /\ Holder(k) = {}
  /\ tx' = [tx EXCEPT ![p].locked = @ \cup {k}]
  /\ UNCHANGED <<rows, audit, page, manual>>

Abort(p) == tx' = [tx EXCEPT ![p] = NoTx] /\ UNCHANGED <<rows, audit, page, manual>>

-----------------------------------------------------------------------------
(* Administrators *)

\* GET /overview: one statement reads every row.
Overview(p) ==
  /\ tx[p].at = "idle" /\ \A k \in Key : Exists(k)
  /\ page' = [page EXCEPT ![p] = rows]
  /\ UNCHANGED <<rows, audit, tx, manual>>

\* PATCH /options: the page's versions are sent or left out.
Submit(p) == \E c \in Changes, guarded \in BOOLEAN :
  /\ tx[p].at = "idle"
  /\ tx' = [tx EXCEPT ![p] = Locking([NoTx EXCEPT !.changes = c, !.guarded = guarded, !.seen = page[p]])]
  /\ UNCHANGED <<rows, audit, page, manual>>

\* Mutated form: the versions are compared when the request arrives, before the locks.
VersionsMatchEarly(t) == TRUE

\* An option this update changes still has the version the administrator saw.
VersionsMatch(t) == t.guarded => \A k \in DOMAIN t.changes : rows[k].version = t.seen[k].version

\* Mutated form: only the options that the update changes are validated, each alone.
AcceptsAlone(t) == \A k \in DOMAIN t.changes : Normal(k, t.changes[k])

\* The state that the changes give, against the bounds, the rules and the guards.  A state that
\* is already inconsistent may be corrected, so the other options' bounds are not checked.
Accepts(t) ==
  LET v == [k \in Key |-> IF k \in DOMAIN t.changes THEN t.changes[k] ELSE rows[k].value] IN
    /\ \A k \in DOMAIN t.changes : Normal(k, t.changes[k])
    /\ Consistent(v)
    /\ Sane(v, {k \in DOMAIN t.changes : rows[k].value # v[k]})

Differing(t) == {k \in DOMAIN t.changes : rows[k].value # t.changes[k]}

\* update, once it holds the rows: refused when a row is missing, stale or the result is wrong.
Update(p) ==
  /\ p \in Admin /\ tx[p].at = "locking" /\ tx[p].have = tx[p].locked
  /\ \A k \in DOMAIN tx[p].changes : rows[k].version < MaxVersion
  /\ IF tx[p].have = Key /\ VersionsMatch(tx[p]) /\ Accepts(tx[p])
     THEN /\ tx' = [tx EXCEPT ![p].at = "flushed",
                              ![p].new = [k \in Differing(tx[p]) |-> tx[p].changes[k]]]
          /\ UNCHANGED <<rows, audit, page, manual>>
     ELSE Abort(p)

-----------------------------------------------------------------------------
(* Services *)

\* initialize: when every row exists nothing is locked or written.
Check(p) ==
  /\ tx[p].at = "idle"
  /\ \E k \in Key : ~Exists(k)
  /\ tx' = [tx EXCEPT ![p] = Locking(NoTx)]
  /\ UNCHANGED <<rows, audit, page, manual>>

\* The rows it did not find are inserted with their defaults.  A row that was inserted
\* meanwhile breaks the primary key, and the whole initialisation fails.
Bootstrap(p) ==
  /\ p \in Service /\ tx[p].at = "locking" /\ tx[p].have = tx[p].locked
  /\ LET absent == Key \ tx[p].have
         v == [k \in Key |-> IF k \in absent THEN Default[k] ELSE rows[k].value] IN
       /\ \A k \in absent : Inserting(k) = {}
       /\ IF Valid(v) /\ \A k \in absent : ~Exists(k)
          THEN /\ tx' = [tx EXCEPT ![p].at = "flushed", ![p].new = [k \in absent |-> Default[k]]]
               /\ UNCHANGED <<rows, audit, page, manual>>
          ELSE Abort(p)

-----------------------------------------------------------------------------
(* Both *)

\* Mutated form: the audit event keeps the value of the page that the change was made from.
EventFromPage(t, k) ==
  [version |-> rows[k].version + 1,
   old |-> IF t.seen = <<>> THEN rows[k].value ELSE t.seen[k].value, new |-> t.new[k]]

Event(t, k) == [version |-> rows[k].version + 1, old |-> rows[k].value, new |-> t.new[k]]

Commit(p) ==
  /\ tx[p].at = "flushed"
  /\ rows' = [k \in Key |-> IF k \in DOMAIN tx[p].new
                            THEN [value |-> tx[p].new[k], version |-> rows[k].version + 1] ELSE rows[k]]
  /\ audit' = [k \in Key |-> IF k \in DOMAIN tx[p].new
                             THEN Append(audit[k], Event(tx[p], k)) ELSE audit[k]]
  /\ page' = IF p \in Admin THEN [page EXCEPT ![p] = rows'] ELSE page
  /\ tx' = [tx EXCEPT ![p] = NoTx]
  /\ UNCHANGED manual

\* The connection is lost before the commit.
Lost(p) == tx[p].at # "idle" /\ Abort(p)

\* An operator's UPDATE of one row, outside the application.
EditByHand == \E k \in Key, v \in UNION {Bounds[j] : j \in Key} :
  /\ manual < MaxManual /\ Exists(k) /\ Holder(k) = {}
  /\ rows' = [rows EXCEPT ![k].value = v]
  /\ manual' = manual + 1
  /\ UNCHANGED <<audit, tx, page>>

Next ==
  \/ \E p \in Caller : LockRow(p) \/ Commit(p) \/ Lost(p)
  \/ \E p \in Admin : Overview(p) \/ Submit(p) \/ Update(p)
  \/ \E p \in Service : Check(p) \/ Bootstrap(p)
  \/ EditByHand

Spec == Init /\ [][Next]_vars

-----------------------------------------------------------------------------
(* Properties *)

\* Types of the rows, of the audit and of the transactions, whose locks are exclusive.
TypeOK ==
  /\ \A k \in Key : rows[k].version \in 0..MaxVersion /\ rows[k].value \in Nat
  /\ \A p \in Caller : tx[p].at \in {"idle", "locking", "flushed"} /\ tx[p].locked \subseteq tx[p].have
  /\ \A p, q \in Caller : p # q => tx[p].locked \cap tx[q].locked = {}
  /\ manual \in 0..MaxManual

\* Whatever administrators and services do at the same time, every reader of the options finds a
\* valid state: only an edit by hand can make the application unable to read them.
ReadersServed == manual = 0 /\ (\A k \in Key : Exists(k)) => Valid(Values(rows))

\* An administrator who sends the versions of the page never overwrites a value that is not the
\* one the page showed.
NoLostUpdateStep ==
  \A p \in Admin : tx[p].at = "flushed" /\ tx[p].guarded /\ rows' # rows /\ tx'[p] = NoTx /\ manual = 0 =>
    \A k \in DOMAIN tx[p].new : rows[k].value = tx[p].seen[k].value
NoLostUpdate == [][NoLostUpdateStep]_vars

\* The audit of an option is its whole history: versions without a gap, each event starting from
\* the value the one before left, the last one being the row.
AuditExact == manual = 0 => \A k \in Key :
  /\ Len(audit[k]) = rows[k].version
  /\ \A i \in 1..Len(audit[k]) : audit[k][i].version = i
  /\ \A i \in 1..(Len(audit[k]) - 1) : audit[k][i].new = audit[k][i + 1].old
  /\ Exists(k) => Last(audit[k]).new = rows[k].value

-----------------------------------------------------------------------------
(* Why they hold: whoever writes has locked every row there is, so what it  *)
(* compared and validated is what its changes meet; of two services that    *)
(* insert, one waits for the other.                                         *)

\* The defaults of the registry obey its rules, and changes are of its options.
Parameters ==
  /\ Admin \cap Service = {} /\ MaxVersion \in Nat \ {0} /\ MaxManual \in Nat
  /\ \A k \in Key : Default[k] \in Nat /\ Bounds[k] \subseteq Nat
  /\ Valid([k \in Key |-> Default[k]])
  /\ \A c \in Changes : DOMAIN c \subseteq Key

Value == {0} \cup {Default[k] : k \in Key} \cup UNION {Bounds[k] : k \in Key}
Row == [value : Value, version : 0..MaxVersion]
Transaction ==
  [at : {"idle", "locking", "flushed"}, changes : Changes \cup {<<>>}, guarded : BOOLEAN,
   seen : [Key -> Row] \cup {<<>>}, have : SUBSET Key, locked : SUBSET Key,
   new : {<<>>} \cup UNION {[some -> Value] : some \in SUBSET Key}]

Shapes ==
  /\ rows \in [Key -> Row] /\ page \in [Admin -> [Key -> Row]] /\ tx \in [Caller -> Transaction]
  /\ audit \in [Key -> Seq([version : Nat, old : Value, new : Value])] /\ manual \in 0..MaxManual

\* What was read is of earlier versions, or is what there is.
Older(r) == \A k \in Key :
  /\ r[k].version <= rows[k].version
  /\ r[k].version = rows[k].version => r[k].value = rows[k].value

\* The options as a transaction leaves them.
Result(t) == [k \in Key |-> IF k \in DOMAIN t.new THEN t.new[k] ELSE rows[k].value]

\* What a transaction knows of the rows it has locked.
Knows(p, t) ==
  /\ t.locked \subseteq t.have /\ \A k \in t.have : Exists(k)
  /\ t.at # "flushed" => DOMAIN t.new = {}
  /\ p \in Admin /\ t.at # "idle" => t.seen \in [Key -> Row] /\ (manual = 0 => Older(t.seen))
  /\ t.at = "flushed" =>
       /\ t.locked = t.have /\ \A k \in DOMAIN t.new : k \in Key /\ rows[k].version < MaxVersion
       /\ manual = 0 => Valid(Result(t))
       /\ p \in Admin => /\ t.have = Key
                         /\ t.guarded /\ manual = 0 =>
                              \A k \in DOMAIN t.new : rows[k].value = t.seen[k].value
       /\ p \in Service => DOMAIN t.new = Key \ t.have /\ \A k \in DOMAIN t.new : ~Exists(k)

\* Two transactions lock different rows and insert different rows.
Apart(t, u) == t.locked \cap u.locked = {} /\ (DOMAIN t.new \ t.have) \cap (DOMAIN u.new \ u.have) = {}

\* The inductive invariant: what a transaction has validated still holds when it commits, and what
\* a page shows of a version is what that version had.
OptionsInv ==
  /\ Shapes /\ ReadersServed /\ AuditExact
  /\ \A p \in Caller : Knows(p, tx[p])
  /\ \A p, q \in Caller : p # q => Apart(tx[p], tx[q])
  /\ manual = 0 => \A p \in Admin : Older(page[p])
=============================================================================
