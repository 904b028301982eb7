--------------------------- MODULE StorageCapacity ---------------------------
(***************************************************************************)
(* How much content one disk may be promised.  Admission adds up declared  *)
(* sizes long before qBittorrent writes them, so the capacity it checks    *)
(* must be what keeps the disk below its critical level once everything    *)
(* that was admitted is written.  The two are computed apart, with         *)
(* percentages rounded in opposite directions.                             *)
(***************************************************************************)
EXTENDS Naturals, FiniteSetsExt

CONSTANTS
  Total,          \* disk sizes
  MinFree,        \* WOS_STORAGE_MIN_FREE_BYTES
  MinPercent,     \* WOS_STORAGE_MIN_FREE_PERCENT
  Critical,       \* WOS_STORAGE_PRESSURE_CRITICAL_PERCENT
  Quota           \* WOS_STORAGE_MANAGED_MAX_BYTES, 0 for none

VARIABLES
  disk,      \* the disk and its policy: [total, free, percent, critical, quota]
  managed,   \* declared bytes of the torrents that are kept
  written    \* bytes of them on the disk

vars == <<disk, managed, written>>

Init ==
  /\ disk \in [total : Total, free : MinFree, percent : MinPercent, critical : Critical, quota : Quota]
  /\ managed = 0 /\ written = 0

\* Mutated form: the boundary itself may be reached.
DiskCapacityClosed(reserve) == IF reserve >= disk.total THEN 0 ELSE disk.total - reserve

DiskCapacity(reserve) == IF reserve >= disk.total THEN 0 ELSE disk.total - reserve - 1

ReservationCapacity ==
  LET percent == Max({disk.percent, 100 - disk.critical})
      room == DiskCapacity(Max({disk.free, (disk.total * percent + 99) \div 100}))
  IN IF disk.quota # 0 THEN Min({disk.quota, room}) ELSE room

\* classify_storage_pressure
IsCritical(free) ==
  \/ ((disk.total - free) * 100) \div disk.total >= disk.critical
  \/ free < disk.free
  \/ (free * 100) \div disk.total < disk.percent

\* prepare_storage_accounting for a torrent of this size whose content is not on the disk.
Admit(size) ==
  /\ disk.quota = 0 \/ managed + size <= disk.quota
  /\ managed + size <= ReservationCapacity
  /\ LET free == disk.total - written
     IN ~IsCritical(IF size > free THEN 0 ELSE free - size)
  /\ managed' = managed + size
  /\ UNCHANGED <<disk, written>>

\* qBittorrent downloads.
Write(size) ==
  /\ written + size <= managed
  /\ written' = written + size
  /\ UNCHANGED <<disk, managed>>

\* A torrent of this size is purged, whatever part of it was written.
Purge(size, part) ==
  /\ size <= managed /\ part <= size /\ part <= written /\ written - part <= managed - size
  /\ managed' = managed - size /\ written' = written - part
  /\ UNCHANGED disk

Sizes == 1..Max(Total)

Next ==
  \E size \in Sizes : Admit(size) \/ Write(size) \/ \E part \in 0..size : Purge(size, part)

Spec == Init /\ [][Next]_vars

-----------------------------------------------------------------------------
(* Properties *)

TypeOK ==
  /\ disk \in [total : Total, free : MinFree, percent : MinPercent, critical : Critical, quota : Quota]
  /\ managed \in 0..disk.total /\ written \in 0..disk.total

\* Whatever was admitted can be written completely without making the disk critical: the
\* capacity of managed_reservation_capacity lies strictly below every boundary of
\* classify_storage_pressure, for every rounding.
PromisesFit == managed > 0 => \A bytes \in written..managed : ~IsCritical(disk.total - bytes)

=============================================================================
