---------------------------- MODULE TorrentPaths ----------------------------
(***************************************************************************)
(* The paths of the files of a torrent.  Names that only differ in case or *)
(* normalisation are the same on some disks: the validation keeps a tree   *)
(* of folded names and refuses a file that would be another file, or lie   *)
(* below one, or stand where a directory is.                               *)
(***************************************************************************)
EXTENDS Naturals, Sequences, SequencesExt

CONSTANTS
  Name,       \* components as they are written
  Fold,       \* [Name -> the folded component]
  MaxParts,   \* components of a path: a bound on the instance
  MaxFiles    \* files of a torrent: a bound on the instance

VARIABLES
  files,     \* the paths accepted so far
  nodes,     \* folded paths of the nodes below the root
  leaves,    \* those that are files
  refused    \* the path that ended the validation, or <<>>

vars == <<files, nodes, leaves, refused>>

Paths == UNION {[1..n -> Name] : n \in 1..MaxParts}

\* _path_collision_key
Key(path) == [i \in 1..Len(path) |-> Fold[path[i]]]

Init == files = <<>> /\ nodes = {} /\ leaves = {} /\ refused = <<>>

NodesOf(key) == {SubSeq(key, 1, n) : n \in 1..Len(key)}

HasChildren(key) == \E n \in nodes : Len(n) = Len(key) + 1 /\ IsPrefix(key, n)

\* Mutated form: only the last node is looked at.
BlockedBelow(key) == FALSE

\* Walking down the tree stops at a file.
Blocked(key) == \E n \in NodesOf(key) \ {key} : n \in leaves

\* _PathNode.add_file
AddFile(path) ==
  LET key == Key(path)
      ok == ~Blocked(key) /\ key \notin leaves /\ ~HasChildren(key)
  IN /\ refused = <<>> /\ Len(files) < MaxFiles
     /\ nodes' = IF ok THEN nodes \cup NodesOf(key) ELSE nodes
     /\ leaves' = IF ok THEN leaves \cup {key} ELSE leaves
     /\ files' = IF ok THEN Append(files, path) ELSE files
     /\ refused' = IF ok THEN <<>> ELSE path

Next == \E path \in Paths : AddFile(path)

Spec == Init /\ [][Next]_vars

-----------------------------------------------------------------------------
(* Properties *)

TypeOK ==
  /\ files \in Seq(Paths) /\ refused \in Paths \cup {<<>>}
  /\ leaves \subseteq nodes

Collide(p, q) == IsPrefix(Key(p), Key(q)) \/ IsPrefix(Key(q), Key(p))

\* The files of a torrent that is accepted can all exist on one disk, also one that folds
\* names, and a torrent is refused only for a file that cannot (_torrent_files, add_file).
PathsExact ==
  /\ \A i, j \in 1..Len(files) : i # j => ~Collide(files[i], files[j])
  /\ refused # <<>> => \E i \in 1..Len(files) : Collide(files[i], refused)

=============================================================================
