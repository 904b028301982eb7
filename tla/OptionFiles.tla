---------------------------- MODULE OptionFiles ----------------------------
(***************************************************************************)
(* The two settings files of the V1 host: .options (OptionsStore) and the  *)
(* config.ini of NewGreedy (NewGreedyConfigStore).  Both are read, changed *)
(* and replaced by a rename under a lock of the process, while an operator *)
(* may edit them with an editor that rewrites the file or replaces it.     *)
(*                                                                         *)
(* .options is compared, before it is replaced, with the device, inode,    *)
(* size and time of what was read, and the old text is kept as a backup;   *)
(* config.ini only with its own inode at the start of the write.           *)
(***************************************************************************)
EXTENDS Naturals, FiniteSets

CONSTANTS
  Kind,       \* "options" or "config"
  Thread,     \* threads of the application serving administrators
  Field,      \* the settings of the file
  MaxWrites, MaxEdits, MaxCrashes   \* bounds on the instance

VARIABLES
  file,     \* [ino, stamp, text, whole]: stamp stands for the size and the time
  backup,   \* text of .options.backup
  call,     \* [thread -> the update under way]
  holder,   \* the thread that has the store's lock, or None
  editing,  \* an editor is rewriting the file in place
  writes, edits, crashes

vars == <<file, backup, call, holder, editing, writes, edits, crashes>>

None == "none"
Idle == [at |-> "idle", base |-> <<>>, ino |-> 0, stamp |-> 0, field |-> None,
         early |-> FALSE]
Defaults == [f \in Field |-> 0]
Fresh == writes + edits + 1    \* a text, an inode or a time that was not used before

Init ==
  /\ file = [ino |-> 0, stamp |-> 0, text |-> Defaults, whole |-> TRUE]
  /\ backup = file.text /\ call = [t \in Thread |-> Idle] /\ holder = None
  /\ editing = FALSE /\ writes = 0 /\ edits = 0 /\ crashes = 0

Leave(t) == call' = [call EXCEPT ![t] = Idle] /\ holder' = None

-----------------------------------------------------------------------------
(* update *)

\* Mutated form: the lock is taken for the write only.
Excluded == holder # None /\ call[holder].at \in {"checked", "saved"}

Locked == holder # None

\* A .options that is cut after a whole line reads as a shorter one, whose missing settings have
\* their defaults; cut elsewhere it is refused as malformed.
OptionsTexts == IF file.whole THEN {file.text} ELSE {Defaults}

\* A config.ini without one of the settings to change is refused.
ConfigTexts == IF file.whole THEN {file.text} ELSE {}

\* The file is read, under the lock, with what identifies it.
Read(t) == \E f \in Field, text \in (IF Kind = "options" THEN OptionsTexts ELSE ConfigTexts) :
  /\ call[t].at = "idle" /\ ~Locked /\ writes < MaxWrites
  /\ holder' = t
  /\ call' = [call EXCEPT ![t] = [at |-> "read", base |-> text, ino |-> file.ino,
                                  stamp |-> file.stamp, field |-> f, early |-> FALSE]]
  /\ UNCHANGED <<file, backup, editing, writes, edits, crashes>>

\* NewGreedyConfigStore._atomic_write: the inode it will compare with is read only now.
Stat(t) ==
  /\ Kind = "config" /\ call[t].at = "read"
  /\ call' = [call EXCEPT ![t].at = "stated", ![t].ino = file.ino]
  /\ UNCHANGED <<file, backup, holder, editing, writes, edits, crashes>>

\* Mutated form: the size and the time are not part of the identity.
SameInode(c) == file.ino = c.ino

Same(c) == file.ino = c.ino /\ (Kind = "options" => file.stamp = c.stamp)

Compare(t) ==
  /\ call[t].at = IF Kind = "options" THEN "read" ELSE "stated"
  /\ IF Same(call[t]) THEN call' = [call EXCEPT ![t].at = "checked"] /\ UNCHANGED holder ELSE Leave(t)
  /\ UNCHANGED <<file, backup, editing, writes, edits, crashes>>

\* Mutated form: the backup is the file as it is now, read again.
SaveCurrent(t) ==
  /\ Kind = "options" /\ call[t].at = "checked"
  /\ backup' = [call[t].base EXCEPT ![call[t].field] = writes + edits + 1]
  /\ call' = [call EXCEPT ![t].at = "saved"]
  /\ UNCHANGED <<file, holder, editing, writes, edits, crashes>>

\* The backup is replaced, by a rename too, before the file.
Save(t) ==
  /\ Kind = "options" /\ call[t].at = "checked"
  /\ backup' = call[t].base /\ call' = [call EXCEPT ![t].at = "saved"]
  /\ UNCHANGED <<file, holder, editing, writes, edits, crashes>>

\* The text with one setting changed and the others as they were read.
Changed(base, f) == [base EXCEPT ![f] = Fresh]

\* Mutated form: the text is written in place.
RenamedInPlace(text) == [file EXCEPT !.text = text, !.stamp = Fresh, !.whole = ~file.whole]

Renamed(text) == [ino |-> Fresh, stamp |-> Fresh, text |-> text, whole |-> TRUE]

\* os.replace puts the complete temporary file in the place of whatever is there.
Replace(t) ==
  /\ call[t].at = IF Kind = "options" THEN "saved" ELSE "checked"
  /\ file' = Renamed(Changed(call[t].base, call[t].field))
  /\ editing' = FALSE
  /\ writes' = writes + 1
  /\ Leave(t)
  /\ UNCHANGED <<backup, edits, crashes>>

\* A disk error or an unsafe permission: the temporary file is removed.
Fail(t) == call[t].at # "idle" /\ Leave(t) /\ UNCHANGED <<file, backup, editing, writes, edits, crashes>>

-----------------------------------------------------------------------------
(* The rest of the world *)

\* Updates under way that will compare the file after this edit.
Warned == [t \in Thread |-> [call[t] EXCEPT !.early = @ \/ call[t].at \in {"read", "stated"}]]

\* An editor that writes another file and renames it.
EditByRename == \E f \in Field :
  /\ edits < MaxEdits /\ ~editing
  /\ file' = [ino |-> Fresh, stamp |-> Fresh, text |-> [file.text EXCEPT ![f] = Fresh], whole |-> TRUE]
  /\ edits' = edits + 1 /\ call' = Warned
  /\ UNCHANGED <<backup, holder, editing, writes, crashes>>

\* An editor that truncates the file and writes it again.
EditInPlace ==
  /\ edits + 1 < MaxEdits /\ ~editing
  /\ file' = [file EXCEPT !.whole = FALSE, !.stamp = Fresh]
  /\ editing' = TRUE /\ edits' = edits + 1 /\ call' = Warned
  /\ UNCHANGED <<backup, holder, writes, crashes>>

EditEnds == \E f \in Field :
  /\ editing
  /\ file' = [file EXCEPT !.whole = TRUE, !.text[f] = Fresh, !.stamp = Fresh]
  /\ editing' = FALSE /\ edits' = edits + 1 /\ call' = Warned
  /\ UNCHANGED <<backup, holder, writes, crashes>>

\* The process stops: temporary files stay behind, under names of their own.
Crash ==
  /\ crashes < MaxCrashes
  /\ call' = [t \in Thread |-> Idle] /\ holder' = None /\ crashes' = crashes + 1
  /\ UNCHANGED <<file, backup, editing, writes, edits>>

Next ==
  \/ \E t \in Thread : Read(t) \/ Stat(t) \/ Compare(t) \/ Save(t) \/ Replace(t) \/ Fail(t)
  \/ EditByRename \/ EditInPlace \/ EditEnds \/ Crash

Spec == Init /\ [][Next]_vars

-----------------------------------------------------------------------------
(* Properties *)

\* Types; only the thread that has the lock is between its read and its replacement.
TypeOK ==
  /\ holder \in Thread \cup {None}
  /\ \A t \in Thread : call[t].at \in {"idle", "read", "stated", "checked", "saved"}
  /\ writes \in 0..MaxWrites /\ edits \in 0..MaxEdits /\ crashes \in 0..MaxCrashes

\* Whoever reads the file, and whenever the process stops, finds a whole text: only an editor's
\* own rewriting shows a part of one.
Whole == ~editing => file.whole

\* A thread never undoes what another thread saved: without an edit by hand, what is replaced is
\* the text the update started from.
ThreadsSerialStep ==
  \A t \in Thread : edits = 0 /\ writes' = writes + 1 /\ call[t] # Idle /\ call'[t] = Idle =>
    call[t].base = file.text
ThreadsSerial == [][ThreadsSerialStep]_vars

\* What an operator changed in .options between the store's read and its comparison is never
\* overwritten: the update is refused.
EditKeptStep ==
  Kind = "options" /\ writes' = writes + 1 => \A t \in Thread : call'[t] # call[t] => ~call[t].early
EditKept == [][EditKeptStep]_vars

\* Until somebody edits .options by hand or the process stops, the backup is the text before the
\* current one.
BackupPreviousStep ==
  Kind = "options" /\ edits = 0 /\ crashes = 0 /\ writes' = writes + 1 => backup = file.text
BackupPrevious == [][BackupPreviousStep]_vars

-----------------------------------------------------------------------------
(* Why they hold *)

\* What the theorems assume of the instance.
Parameters ==
  /\ Kind \in {"options", "config"} /\ None \notin Thread
  /\ {MaxWrites, MaxEdits, MaxCrashes} \subseteq Nat

File == [ino : Nat, stamp : Nat, text : [Field -> Nat], whole : BOOLEAN]
Call == [at : {"idle", "read", "stated", "checked", "saved"}, base : [Field -> Nat] \cup {<<>>},
         ino : Nat, stamp : Nat, field : Field \cup {None}, early : BOOLEAN]

\* What the thread that has the lock knows: as long as nobody edited the file by hand it is the
\* text that was read, and an edit that the comparison of .options is to find changed the stamp.
Known(c) ==
  /\ c.base \in [Field -> Nat] /\ c.field \in Field /\ c.stamp <= file.stamp
  /\ writes < MaxWrites
  /\ edits = 0 => c.base = file.text
  /\ Kind = "options" => c.at # "stated" /\ (c.early => c.at = "read" /\ c.stamp < file.stamp)
  /\ c.at = "saved" => backup = c.base

\* The inductive invariant: only the thread that has the lock is at work, and it knows what it read.
FilesInv ==
  /\ TypeOK /\ Whole
  /\ file \in File /\ editing \in BOOLEAN /\ call \in [Thread -> Call]
  /\ file.stamp <= writes + edits /\ (editing => edits \in 1 .. MaxEdits - 1)
  /\ \A t \in Thread : IF call[t].at = "idle" THEN call[t] = Idle ELSE holder = t /\ Known(call[t])
=============================================================================
