----------------------------- MODULE HostBackup -----------------------------
(***************************************************************************)
(* The backup of the whole host and its restoration.  The content itself   *)
(* is kept by an external snapshot, whose identifier the operator hands to *)
(* the script; the script copies the state of qBittorrent and NewGreedy    *)
(* and the dump, seals them with a manifest, encrypts the archive under    *)
(* the name of its snapshot and writes a checksum beside it.  Several runs *)
(* may overlap, be killed between two steps or fail, a file may be         *)
(* damaged, and the operator may restore with any identifier.  The state   *)
(* of the content's consumers is a version that grows while they run.      *)
(***************************************************************************)
EXTENDS Naturals, FiniteSets

CONSTANTS
  Snapshot,    \* identifiers, each of which names an archive
  Runner,      \* processes that run the backup
  MaxVersion, MaxFaults

VARIABLES
  up,          \* the consumers of the content run
  version,     \* of the content and of their state
  taken,       \* [snapshot -> the version it holds, 0 when there is none]
  run,         \* [runner -> [pc, snap, qb, ng, sum]]
  file,        \* [snapshot -> the archive: Absent, Partial, Damaged, or its payload]
  sidecar,     \* [snapshot -> the archive that its checksum is of, or Absent]
  restore,     \* [pc, snap, id]: the archive being restored, and the identifier asked for
  staged,      \* what the last restoration left in its target, with the identifier asked for
  faults

vars == <<up, version, taken, run, file, sidecar, restore, staged, faults>>

Absent == [kind |-> "absent"]
Partial == [kind |-> "partial"]
Damaged == [kind |-> "damaged"]
Payload == [kind : {"whole"}, snap : Snapshot, qb : 1..MaxVersion, ng : 1..MaxVersion]
Ready == [pc |-> "idle", snap |-> "none", qb |-> 0, ng |-> 0, sum |-> Absent]
NoRestore == [pc |-> "idle", snap |-> "none", id |-> "none"]

Init ==
  /\ up = TRUE /\ version = 1 /\ faults = 0
  /\ taken = [s \in Snapshot |-> 0] /\ run = [r \in Runner |-> Ready]
  /\ file = [s \in Snapshot |-> Absent] /\ sidecar = [s \in Snapshot |-> Absent]
  /\ restore = NoRestore /\ staged = Absent

Fault == faults < MaxFaults /\ faults' = faults + 1
Goto(r, pc) == run' = [run EXCEPT ![r].pc = pc]
Content(r) == [kind |-> "whole", snap |-> run[r].snap, qb |-> run[r].qb, ng |-> run[r].ng]

-----------------------------------------------------------------------------
(* The operator and the services *)

Stop == up /\ up' = FALSE /\ UNCHANGED <<version, taken, run, file, sidecar, restore, staged, faults>>
Start == ~up /\ up' = TRUE /\ UNCHANGED <<version, taken, run, file, sidecar, restore, staged, faults>>

Work ==
  /\ up /\ version < MaxVersion /\ version' = version + 1
  /\ UNCHANGED <<up, taken, run, file, sidecar, restore, staged, faults>>

Take(s) ==
  /\ taken[s] = 0 /\ taken' = [taken EXCEPT ![s] = version]
  /\ UNCHANGED <<up, version, run, file, sidecar, restore, staged, faults>>

\* An archive or a checksum of that name is never replaced knowingly.
FreeTarget(s) == file[s] = Absent /\ sidecar[s] = Absent

\* The backup starts when the consumers are stopped and the target is free, as seen this once.
Begin(r, s) ==
  /\ run[r].pc = "idle" /\ taken[s] # 0 /\ ~up /\ FreeTarget(s)
  /\ run' = [run EXCEPT ![r] = [Ready EXCEPT !.pc = "qb", !.snap = s]]
  /\ UNCHANGED <<up, version, taken, file, sidecar, restore, staged, faults>>

\* Configurations, dump and qBittorrent's state are copied, then NewGreedy's files.
CopyQb(r) ==
  /\ run[r].pc = "qb" /\ run' = [run EXCEPT ![r].pc = "ng", ![r].qb = version]
  /\ UNCHANGED <<up, version, taken, file, sidecar, restore, staged, faults>>

CopyNg(r) ==
  /\ run[r].pc = "ng" /\ run' = [run EXCEPT ![r].pc = "encrypt", ![r].ng = version]
  /\ UNCHANGED <<up, version, taken, file, sidecar, restore, staged, faults>>

\* A failing copy ends the run; nothing has been written yet.
CopyFails(r) ==
  /\ run[r].pc \in {"qb", "ng"} /\ Fault /\ run' = [run EXCEPT ![r] = Ready]
  /\ UNCHANGED <<up, version, taken, file, sidecar, restore, staged>>

\* age writes the archive in place.
Encrypt(r) ==
  /\ run[r].pc = "encrypt" /\ Goto(r, "encrypting")
  /\ file' = [file EXCEPT ![run[r].snap] = Partial]
  /\ UNCHANGED <<up, version, taken, sidecar, restore, staged, faults>>

\* It ends, or fails: then whatever has that name is removed.
Encrypted(r) ==
  /\ run[r].pc = "encrypting"
  /\ \/ Goto(r, "sum") /\ file' = [file EXCEPT ![run[r].snap] = Content(r)] /\ UNCHANGED faults
     \/ Fault /\ run' = [run EXCEPT ![r] = Ready] /\ file' = [file EXCEPT ![run[r].snap] = Absent]
  /\ UNCHANGED <<up, version, taken, sidecar, restore, staged>>

Sum(r) ==
  /\ run[r].pc = "sum"
  /\ run' = IF file[run[r].snap] = Absent THEN [run EXCEPT ![r] = Ready]
            ELSE [run EXCEPT ![r].pc = "seal", ![r].sum = file[run[r].snap]]
  /\ UNCHANGED <<up, version, taken, file, sidecar, restore, staged, faults>>

Seal(r) ==
  /\ run[r].pc = "seal" /\ sidecar' = [sidecar EXCEPT ![run[r].snap] = run[r].sum]
  /\ run' = [run EXCEPT ![r] = Ready]
  /\ UNCHANGED <<up, version, taken, file, restore, staged, faults>>

Kill(r) ==
  /\ run[r].pc # "idle" /\ Fault /\ run' = [run EXCEPT ![r] = Ready]
  /\ UNCHANGED <<up, version, taken, file, sidecar, restore, staged>>

Damage(s) ==
  /\ file[s] \in Payload /\ Fault /\ file' = [file EXCEPT ![s] = Damaged]
  /\ UNCHANGED <<up, version, taken, run, sidecar, restore, staged>>

\* The operator clears what an interrupted run left.
Clear(s) ==
  /\ file[s] \in {Partial, Damaged} /\ file' = [file EXCEPT ![s] = Absent]
  /\ sidecar' = [sidecar EXCEPT ![s] = Absent]
  /\ UNCHANGED <<up, version, taken, run, restore, staged, faults>>

-----------------------------------------------------------------------------
(* Restoration *)

\* verify_checksum.
Sealed(s) == file[s] # Absent /\ sidecar[s] = file[s]

\* Mutated form: the identifier in the manifest is not compared.
SoundUnbound(f, id) == f \in Payload

\* What decryption and validate_payload accept: a whole archive, bound to the identifier.
Sound(f, id) == f \in Payload /\ f.snap = id

Verify(s, id) ==
  /\ restore.pc = "idle" /\ staged = Absent /\ Sealed(s)
  /\ restore' = [pc |-> "verified", snap |-> s, id |-> id]
  /\ UNCHANGED <<up, version, taken, run, file, sidecar, staged, faults>>

\* The private directory is renamed to the target only once its payload is valid.
Deliver(f, id) == IF Sound(f, id) THEN [payload |-> f, id |-> id] ELSE staged

\* The archive is read again, decrypted, extracted and validated.
Stage ==
  /\ restore.pc = "verified" /\ restore' = NoRestore
  /\ staged' = Deliver(file[restore.snap], restore.id)
  /\ UNCHANGED <<up, version, taken, run, file, sidecar, faults>>

\* The target is erased after the exercise.
Erase == staged # Absent /\ staged' = Absent
  /\ UNCHANGED <<up, version, taken, run, file, sidecar, restore, faults>>

Next ==
  \/ Stop \/ Start \/ Work \/ Stage \/ Erase
  \/ \E s \in Snapshot : Take(s) \/ Damage(s) \/ Clear(s) \/ \E id \in Snapshot : Verify(s, id)
  \/ \E r \in Runner :
       \/ CopyQb(r) \/ CopyNg(r) \/ CopyFails(r) \/ Encrypt(r) \/ Encrypted(r) \/ Sum(r) \/ Seal(r)
       \/ Kill(r) \/ \E s \in Snapshot : Begin(r, s)

Spec == Init /\ [][Next]_vars

-----------------------------------------------------------------------------

TypeOK ==
  /\ up \in BOOLEAN /\ version \in 1..MaxVersion /\ faults \in 0..MaxFaults
  /\ taken \in [Snapshot -> 0..MaxVersion]
  /\ file \in [Snapshot -> Payload \cup {Absent, Partial, Damaged}]
  /\ sidecar \in [Snapshot -> Payload \cup {Absent, Partial, Damaged}]
  /\ \A r \in Runner : run[r].pc \in {"idle", "qb", "ng", "encrypt", "encrypting", "sum", "seal"}

\* A restoration leaves either nothing or the whole payload of one run, bound to the snapshot that
\* was asked for and no older than it: neither an interrupted archive, nor one that another run or
\* the disk changed after its checksum was compared, ever becomes a staged restore.
RestoredWhole ==
  staged # Absent =>
    /\ staged.payload \in Payload /\ staged.payload.snap = staged.id
    /\ taken[staged.id] \in 1..staged.payload.qb

\* The state that is restored beside a snapshot is the state that the snapshot was taken of: the
\* documentation says that refusing to run beside the consumers prevents an older snapshot from
\* being bound to a newer state of qBittorrent.
SnapshotMatches == staged # Absent => staged.payload.qb = taken[staged.id]

-----------------------------------------------------------------------------
(* Why it holds *)

\* What the theorem assumes of the instance.
Parameters == MaxVersion \in Nat \ {0} /\ MaxFaults \in Nat

Archives == Payload \cup {Absent, Partial, Damaged}
Steps == {"idle", "qb", "ng", "encrypt", "encrypting", "sum", "seal"}
Copied == {"ng", "encrypt", "encrypting", "sum", "seal"}

\* An archive holds a state no older than the snapshot in its name.
Bound(f) == f \in Payload => taken[f.snap] \in 1 .. f.qb

\* What a backup under way knows: its snapshot was taken, and what it copied is no older.
Run == [pc : Steps, snap : Snapshot \cup {"none"}, qb : 0 .. MaxVersion, ng : 0 .. MaxVersion, sum : Archives]
Known(n) ==
  /\ n.pc # "idle" => n.snap \in Snapshot /\ taken[n.snap] # 0
  /\ n.pc \in Copied => taken[n.snap] \in 1 .. n.qb
  /\ n.pc \in Copied \ {"ng"} => n.ng # 0

\* The inductive invariant: the runs copy after their snapshot was taken, which is never taken again.
BackupInv ==
  /\ TypeOK /\ RestoredWhole
  /\ run \in [Runner -> Run] /\ \A r \in Runner : Known(run[r])
  /\ restore \in [pc : {"idle", "verified"}, snap : Snapshot \cup {"none"}, id : Snapshot \cup {"none"}]
  /\ restore.pc = "verified" => restore.snap \in Snapshot /\ restore.id \in Snapshot
  /\ \A s \in Snapshot : taken[s] <= version /\ Bound(file[s])
=============================================================================
