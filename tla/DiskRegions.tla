----------------------------- MODULE DiskRegions -----------------------------
(***************************************************************************)
(* Where a sector of the system drive lies and which data unit number it is *)
(* encrypted with, computed by every part of the program that reads or      *)
(* writes it: the I/O queue (Driver/EncryptedIoQueue.c), the filters that    *)
(* write the hibernation file (Driver/DumpFilter.c, Driver/DriveFilter.c)   *)
(* and the boot loader (Boot/Windows).  With a hidden system running, the   *)
(* encrypted area of the drive lies elsewhere, in the hidden volume.        *)
(*                                                                          *)
(* Offsets and lengths count sectors, which are the data units: all these   *)
(* parts refuse what is not aligned to them.  Only the guard of the         *)
(* substituted sectors counts bytes.  The operators are functions of their  *)
(* arguments; DiskRegions_proofs shows that they agree.                     *)
(***************************************************************************)
EXTENDS Integers

CONSTANT Word   \* how many values a uint32 has

None == -1

RegionsOverlap(start1, end1, start2, end2) ==
  IF start1 < start2 THEN end1 >= start2 ELSE start1 <= end2

Narrow(n) == n % Word

GetIntersection(start1, length1, start2, end2) ==
  LET end1 == start1 + length1 - 1
      end == IF end1 <= end2 THEN end1 ELSE end2
      start == IF start1 >= start2 THEN start1 ELSE start2
      length == IF start > end THEN 0 ELSE Narrow(end + 1 - start)
  IN [start |-> IF length = 0 THEN start1 ELSE start, length |-> length]

-----------------------------------------------------------------------------
(* The I/O queue.  q has the encrypted area of the queue, whether it is      *)
(* remapped, and by how much its sectors and their unit numbers are shifted. *)

Queues == [start : Int, end : Int, remap : BOOLEAN, offset : Int, unitOffset : Int]

\* The fragment that MainThreadProc takes from the rest of a request, and what
\* it leaves.
IsLastFragment(rest, size) == rest.length <= size
Fragment(rest, size) ==
  [offset |-> rest.offset,
   length |-> IF IsLastFragment(rest, size) THEN rest.length ELSE size]
AfterFragment(rest, size) ==
  [offset |-> rest.offset + size, length |-> rest.length - size]

\* EncryptedOffset and EncryptedLength of a fragment.
EncryptedPart(q, offset, length) ==
  LET s == GetIntersection(offset, length, q.start, q.end)
  IN IF q.start = None \/ q.end = None THEN [offset |-> 0, length |-> 0]
     ELSE [offset |-> s.start - offset, length |-> s.length]

\* EncryptDataUnits of MainThreadProc and DecryptDataUnits of
\* CompletionThreadProc: the unit numbers by position in the fragment.
QueueUnits(q, offset, length) ==
  LET part == EncryptedPart(q, offset, length)
      first == offset + part.offset + (IF q.remap THEN q.unitOffset ELSE 0)
  IN [i \in part.offset .. part.offset + part.length - 1 |-> first + (i - part.offset)]

\* The transfers of IoThreadProc: up to three when the fragment is remapped in part.
SubFragments(q, offset, length) ==
  LET part == EncryptedPart(q, offset, length)
      after == part.offset + part.length
      parts == {[data |-> 0, offset |-> offset, length |-> part.offset],
                [data |-> part.offset, offset |-> offset + part.offset + q.offset,
                 length |-> part.length],
                [data |-> after, offset |-> offset + after, length |-> length - after]}
  IN IF ~q.remap \/ part.length = 0
       THEN {[data |-> 0, offset |-> offset, length |-> length]}
     ELSE IF part.length = length
       THEN {[data |-> 0, offset |-> offset + q.offset, length |-> length]}
     ELSE {f \in parts : f.length > 0}

\* The byte length that MainThreadProc gives UpdateBuffer for a write, and the
\* verdict of UpdateBuffer: whether it touches a substituted region.
GuardedLength(offset, length) == Narrow(offset + length - 1)
WriteRefused(offset, length, start, end) ==
  GetIntersection(offset, GuardedLength(offset, length), start, end).length # 0

-----------------------------------------------------------------------------
(* Hibernation.                                                              *)

\* DumpFilterWrite: the whole write is moved when a part of it is in the area.
DumpPlace(q, offset, length) ==
  LET part == EncryptedPart(q, offset, length)
      shift == IF part.length > 0 /\ q.remap THEN q.offset ELSE 0
  IN [i \in 0 .. length - 1 |-> offset + i + shift]
DumpUnits(q, offset, length) ==
  LET s == GetIntersection(offset, length, q.start, q.end)
      first == s.start + (IF q.remap THEN q.unitOffset ELSE 0)
      encrypted == IF q.start = None \/ q.end = None \/ s.length = 0 THEN {}
                   ELSE s.start - offset .. s.start - offset + s.length - 1
  IN [i \in encrypted |-> first + (i - (s.start - offset))]

\* HiberDriverEntryFilter moves the partition, HiberDriverWriteFunctionFilter
\* encrypts as DumpFilterWrite does.
HiberPlace(q, offset, length) ==
  [i \in 0 .. length - 1 |-> offset + i + (IF q.remap THEN q.offset ELSE 0)]

-----------------------------------------------------------------------------
(* The boot loader.  header has the encrypted area of the volume header,      *)
(* active the partition of the decoy system, following the start of the       *)
(* partition after it, with the hidden volume.                                *)

Partitions == [start : Nat, end : Nat]
VolumeHeaders == [areaStart : Nat, areaLength : Nat, hidden : BOOLEAN]

\* MountVolume and BootEncryptedDrive: EncryptedVirtualPartition,
\* HiddenVolumeStartSector and HiddenVolumeStartUnitNo.
BootMount(header, active, following) ==
  [start |-> IF header.hidden THEN active.start ELSE header.areaStart,
   end |-> IF header.hidden THEN active.end
                            ELSE header.areaStart + header.areaLength - 1,
   hidden |-> header.hidden,
   hiddenStart |-> following + header.areaStart,
   firstUnit |-> header.areaStart]

\* MountDrive: the queue of the system, from the same header and the boot arguments.
DriveMount(header, active, following) ==
  LET start == IF header.hidden THEN active.start ELSE header.areaStart
  IN [start |-> IF header.areaLength = 0 THEN None ELSE start,
      end |-> IF header.areaLength = 0 THEN None ELSE start + header.areaLength - 1,
      remap |-> header.hidden,
      offset |-> following + header.areaStart - active.start,
      unitOffset |-> header.areaStart - active.start]

InPartition(b, sector) == b.start <= sector /\ sector <= b.end
PartiallyCovers(b, sector, count) ==
  LET end == sector + count - 1
  IN \/ sector < b.start /\ end >= b.start
     \/ sector >= b.start /\ end > b.end

\* ReadEncryptedSectors and WriteEncryptedSectors: refused, or the place and the
\* unit number, if any, of each sector.
ReadEncryptedSectors(b, sector, count) ==
  LET moved == b.hidden /\ InPartition(b, sector)
      from == IF moved THEN sector - b.start + b.hiddenStart ELSE sector
      unit == IF moved THEN from - b.hiddenStart + b.firstUnit ELSE sector
      decrypts == IF b.hidden THEN [i \in 0 .. count - 1 |-> moved]
                              ELSE [i \in 0 .. count - 1 |-> InPartition(b, sector + i)]
  IN [refused |-> b.hidden /\ PartiallyCovers(b, sector, count),
      place |-> [i \in 0 .. count - 1 |-> from + i],
      unit |-> [i \in {j \in 0 .. count - 1 : decrypts[j]} |-> unit + i]]

WriteEncryptedSectors(b, sector, count) ==
  LET shift == IF b.hidden THEN b.hiddenStart - b.start ELSE 0
      unit == IF b.hidden THEN sector - b.start + b.firstUnit ELSE sector
  IN [refused |-> b.hidden /\ PartiallyCovers(b, sector, count),
      place |-> [i \in 0 .. count - 1 |-> sector + i + shift],
      unit |-> [i \in {j \in 0 .. count - 1 : InPartition(b, sector + j)} |-> unit + i]]

\* CopySystemPartitionToHiddenVolume: the k-th sector of the active partition.
CopyPlace(b, k) == b.hiddenStart + k
CopyUnit(b, k) == b.firstUnit + k
=============================================================================
