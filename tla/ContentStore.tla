---------------------------- MODULE ContentStore ----------------------------
(***************************************************************************)
(* Removing the content of a torrent from the shared disk.  The purge      *)
(* walks the tree by directory descriptors, looks at every entry before it *)
(* touches it, and gives up at the first surprise or when it has met       *)
(* max_entries entries: the job is then retried.  qBittorrent may still be *)
(* writing, and an entry may have been replaced by a link.                 *)
(***************************************************************************)
EXTENDS Naturals, Sequences, FiniteSets, SequencesExt

CONSTANTS
  Name,         \* names of entries: positive integers
  MaxEntries,   \* entries an attempt may meet
  MaxChanges,   \* files written and directories replaced meanwhile: a bound on the instance
  MaxFaults     \* attempts that are interrupted: a bound on the instance

\* The managed directory is <<>>; <<0>> is a directory elsewhere, which links point to.
Elsewhere == <<0>>
Path == {<<>>} \cup {<<n>> : n \in Name} \cup {<<n, m>> : n \in Name, m \in Name}
Disk == Path \cup {Elsewhere} \cup {<<0, n>> : n \in Name}
Kinds == {"none", "file", "dir", "link"}

VARIABLES
  kind,      \* [Disk -> what is there]
  stack,     \* directories an attempt has open: [dir, todo, removed, budget]
  seen,      \* what the last look at the next entry said
  changes, faults

vars == <<kind, stack, seen, changes, faults>>

Parent(p) == Front(p)
Children(k, d) == {n \in Name : k[Append(d, n)] # "none"}
Empty(d) == Children(kind, d) = {}

\* Any tree of two levels below the managed directory.
Init ==
  /\ \E tree \in [Path \ {<<>>} -> {"none", "file", "dir"}] :
       /\ \A p \in Path \ {<<>>} :
            /\ Len(p) = 2 => tree[p] # "dir"
            /\ (Len(p) = 2 /\ tree[p] # "none") => tree[Parent(p)] = "dir"
       /\ kind = [p \in Disk |-> IF p \in DOMAIN tree THEN tree[p]
                                 ELSE IF p \in {<<>>, Elsewhere} THEN "dir" ELSE "file"]
  /\ stack = <<>> /\ seen = "none" /\ changes = 0 /\ faults = 0

-----------------------------------------------------------------------------
(* One attempt of the purge *)

Opened(d, budget) ==
  [dir |-> d, todo |-> SetToSortSeq(Children(kind, d), <), removed |-> 0, budget |-> budget]

Top == Last(stack)
Entry == Append(Top.dir, Head(Top.todo))
Put(frame) == Append(Front(stack), frame)
GiveUp == stack' = <<>> /\ seen' = "none" /\ kind' = kind

Begin ==
  /\ stack = <<>> /\ kind[<<>>] = "dir"
  /\ stack' = <<Opened(<<>>, MaxEntries)>> /\ seen' = "none"
  /\ UNCHANGED <<kind, changes, faults>>

AtEntry == stack # <<>> /\ Top.todo # <<>>

\* Mutated form: a directory below starts with the whole budget.
BudgetBelowFull(frame) == MaxEntries

BudgetBelow(frame) == frame.budget - frame.removed

\* Mutated form: a directory with more entries than the budget is left as it is.
ExhaustedListed(frame) == frame.removed + Len(frame.todo) > frame.budget

Exhausted(frame) == frame.removed + 1 > frame.budget

\* The entry is counted, then looked at without following a link.
Look ==
  /\ AtEntry /\ seen = "none"
  /\ IF Exhausted(Top) \/ kind[Entry] = "none" THEN GiveUp
     ELSE /\ stack' = Put([Top EXCEPT !.removed = @ + 1])
          /\ seen' = kind[Entry] /\ kind' = kind
  /\ UNCHANGED <<changes, faults>>

Unlink ==
  /\ AtEntry /\ seen \in {"file", "link"}
  /\ IF kind[Entry] \in {"none", "dir"} THEN GiveUp
     ELSE /\ kind' = [kind EXCEPT ![Entry] = "none"]
          /\ stack' = Put([Top EXCEPT !.todo = Tail(@)]) /\ seen' = "none"
  /\ UNCHANGED <<changes, faults>>

\* Mutated form: the directory is opened through a link.
OpensFollowing(p) == IF kind[p] = "link" THEN {Elsewhere} ELSE IF kind[p] = "dir" THEN {p} ELSE {}

\* _open_directory with O_DIRECTORY and O_NOFOLLOW.
Opens(p) == IF kind[p] = "dir" THEN {p} ELSE {}

Descend ==
  /\ AtEntry /\ seen = "dir"
  /\ IF Opens(Entry) = {} THEN GiveUp
     ELSE \E d \in Opens(Entry) :
            /\ stack' = Append(stack, Opened(d, BudgetBelow(Top)))
            /\ seen' = "none" /\ kind' = kind
  /\ UNCHANGED <<changes, faults>>

\* The open directory is done: it is removed from the one above, whose count takes its own.
Ascend ==
  /\ Len(stack) = 2 /\ Top.todo = <<>>
  /\ LET above == stack[1]
         entry == Append(above.dir, Head(above.todo))
     IN IF kind[entry] # "dir" \/ ~Empty(entry) THEN GiveUp
        ELSE /\ kind' = [kind EXCEPT ![entry] = "none"]
             /\ stack' = <<[above EXCEPT !.todo = Tail(@), !.removed = @ + Top.removed]>>
             /\ seen' = "none"
  /\ UNCHANGED <<changes, faults>>

Finish ==
  /\ Len(stack) = 1 /\ Top.todo = <<>>
  /\ kind' = IF Empty(<<>>) THEN [kind EXCEPT ![<<>>] = "none"] ELSE kind
  /\ stack' = <<>> /\ seen' = "none"
  /\ UNCHANGED <<changes, faults>>

\* The worker dies or the disk fails.
Interrupt ==
  /\ stack # <<>> /\ faults < MaxFaults /\ faults' = faults + 1
  /\ GiveUp /\ UNCHANGED changes

-----------------------------------------------------------------------------
(* Meanwhile *)

Write(p) ==
  /\ changes < MaxChanges /\ changes' = changes + 1
  /\ p # <<>> /\ kind[p] = "none" /\ kind[Parent(p)] = "dir"
  /\ kind' = [kind EXCEPT ![p] = "file"]
  /\ UNCHANGED <<stack, seen, faults>>

\* A directory that no attempt has open is replaced by a link.
Replace(n) ==
  /\ changes < MaxChanges /\ changes' = changes + 1
  /\ kind[<<n>>] = "dir" /\ \A i \in 1..Len(stack) : stack[i].dir # <<n>>
  /\ kind' = [p \in Disk |-> IF p = <<n>> THEN "link"
                             ELSE IF p \in {<<n, m>> : m \in Name} THEN "none" ELSE kind[p]]
  /\ UNCHANGED <<stack, seen, faults>>

Attempt == Begin \/ Look \/ Unlink \/ Descend \/ Ascend \/ Finish

Next ==
  \/ Attempt \/ Interrupt
  \/ \E p \in Path : Write(p)
  \/ \E n \in Name : Replace(n)

Spec == Init /\ [][Next]_vars /\ WF_vars(Attempt)

-----------------------------------------------------------------------------
(* Properties *)

TypeOK ==
  /\ kind \in [Disk -> Kinds] /\ Len(stack) <= 2
  /\ \A i \in 1..Len(stack) :
       /\ stack[i].dir \in Disk /\ stack[i].todo \in Seq(Name)
       /\ stack[i].removed \in Nat /\ stack[i].budget \in Nat
  /\ seen \in Kinds /\ changes \in 0..MaxChanges /\ faults \in 0..MaxFaults

\* An attempt never touches what is outside the managed directory, even when an entry is
\* replaced between the look and the call (_purge_directory, _open_directory).
ElsewhereKept == \A p \in Disk \ Path : kind[p] # "none"

\* The entries an attempt meets, in all the directories together, are at most max_entries
\* (_purge_directory's max_entries - removed).
WithinBudget ==
  /\ Len(stack) = 1 => stack[1].removed <= MaxEntries
  /\ Len(stack) = 2 => stack[1].removed + stack[2].removed <= MaxEntries

Gone == kind[<<>>] = "none"

\* As long as the purge is tried again the directory goes away in the end, although an
\* attempt removes no more than its budget and any of them may be interrupted: entries
\* are removed as they are met.
PurgeEnds == []<>Gone

=============================================================================
