-------------------------- MODULE DiskRegions_proofs --------------------------
(***************************************************************************)
(* Every part of the program computes the same place and the same data unit *)
(* number for a sector, for all areas, requests and hidden volumes.         *)
(***************************************************************************)
EXTENDS DiskRegions, TLAPS

\* What the parts should compute: the sectors of the area, their places and
\* their unit numbers.
InArea(q, a) == q.start # None /\ q.end # None /\ q.start <= a /\ a <= q.end
Place(q, a) == a + (IF q.remap /\ InArea(q, a) THEN q.offset ELSE 0)
Unit(q, a) == a + (IF q.remap THEN q.unitOffset ELSE 0)
Positions(length) == 0 .. length - 1
UnitsFor(q, offset, length) ==
  [i \in {j \in Positions(length) : InArea(q, offset + j)} |-> Unit(q, offset + i)]

\* An area is absent or lies on the drive.
ValidQueue(q) ==
  /\ q \in Queues
  /\ (q.start = None \/ q.end = None) \/ (q.start \in Nat /\ q.end \in Nat /\ q.start <= q.end)

\* A length below the width is not changed by the conversion to a uint32.
LEMMA NarrowKeeps ==
  ASSUME Word \in Nat \ {0}, NEW n \in Nat, n < Word
  PROVE  Narrow(n) = n
BY DEF Narrow

\* RegionsOverlap tells exactly whether two regions have a byte in common.
\* (The hidden volume and the boot loader's header are protected by it.)
THEOREM OverlapIsExact ==
  ASSUME NEW start1 \in Nat, NEW end1 \in Nat, NEW start2 \in Nat, NEW end2 \in Nat,
         start1 <= end1, start2 <= end2
  PROVE  RegionsOverlap(start1, end1, start2, end2)
           <=> \E x \in start1 .. end1 : x \in start2 .. end2
<1>1. ASSUME RegionsOverlap(start1, end1, start2, end2)
      PROVE  \E x \in start1 .. end1 : x \in start2 .. end2
  <2>1. CASE start1 < start2
    <3>1. start2 \in start1 .. end1 /\ start2 \in start2 .. end2
      BY <1>1, <2>1 DEF RegionsOverlap
    <3>2. QED  BY <3>1
  <2>2. CASE ~(start1 < start2)
    <3>1. start1 \in start1 .. end1 /\ start1 \in start2 .. end2
      BY <1>1, <2>2 DEF RegionsOverlap
    <3>2. QED  BY <3>1
  <2>3. QED  BY <2>1, <2>2
<1>2. ASSUME NEW x \in start1 .. end1, x \in start2 .. end2
      PROVE  RegionsOverlap(start1, end1, start2, end2)
  BY <1>2 DEF RegionsOverlap
<1>3. QED  BY <1>1, <1>2

\* s is the part of the request that lies in the region, and empty at the start
\* of the request when there is none.
ExactPart(s, offset, length, start, end) ==
  /\ s.start \in offset .. offset + length - 1 /\ s.length \in 0 .. length
  /\ s.start + s.length <= offset + length
  /\ \A a \in offset .. offset + length - 1 :
       (start <= a /\ a <= end) <=> (s.start <= a /\ a < s.start + s.length)
  /\ s.length = 0 => s.start = offset

\* GetIntersection returns exactly the sectors of the request that lie in the
\* region: the comparison of ends and the uint32 lose and add none.
THEOREM IntersectionIsExact ==
  ASSUME Word \in Nat \ {0}, NEW offset \in Nat, NEW length \in Nat, 0 < length, length < Word,
         NEW start \in Nat, NEW end \in Nat, start <= end
  PROVE  ExactPart(GetIntersection(offset, length, start, end), offset, length, start, end)
<1> DEFINE s == GetIntersection(offset, length, start, end)
           end1 == offset + length - 1
           e == IF end1 <= end THEN end1 ELSE end
           b == IF offset >= start THEN offset ELSE start
           l == IF b > e THEN 0 ELSE Narrow(e + 1 - b)
<1> SUFFICES ExactPart(s, offset, length, start, end)
  OBVIOUS
<1>1. s = [start |-> IF l = 0 THEN offset ELSE b, length |-> l]
  BY DEF GetIntersection
<1> HIDE DEF s
<1>2. CASE b > e
  <2>1. s.start = offset /\ s.length = 0  BY <1>1, <1>2
  <2>2. \A a \in offset .. offset + length - 1 : ~(start <= a /\ a <= end)
    BY <1>2
  <2>3. QED  BY <2>1, <2>2 DEF ExactPart
<1>3. CASE ~(b > e)
  <2>1. e + 1 - b \in Nat /\ 0 < e + 1 - b /\ e + 1 - b <= length
    BY <1>3
  <2>2. l = e + 1 - b
    <3>1. e + 1 - b < Word  BY <2>1
    <3> HIDE DEF e, b
    <3>2. QED  BY <1>3, <2>1, <3>1, NarrowKeeps
  <2>3. s.start = b /\ s.length = e + 1 - b
    <3> HIDE DEF e, b
    <3>1. QED  BY <1>1, <2>1, <2>2
  <2>4. QED  BY <1>3, <2>1, <2>3 DEF ExactPart
<1>4. QED  BY <1>2, <1>3

\* The encrypted part of a fragment is where the fragment meets the area.
LEMMA PartIsExact ==
  ASSUME Word \in Nat \ {0}, NEW q, ValidQueue(q),
         NEW offset \in Nat, NEW length \in Nat, 0 < length, length < Word,
         NEW part, part = EncryptedPart(q, offset, length)
  PROVE  /\ part.offset \in Nat /\ part.length \in Nat /\ part.offset + part.length <= length
         /\ \A i \in Positions(length) :
              InArea(q, offset + i) <=> part.offset <= i /\ i < part.offset + part.length
<1> DEFINE s == GetIntersection(offset, length, q.start, q.end)
<1>1. CASE q.start = None \/ q.end = None
  <2>1. part = [offset |-> 0, length |-> 0]  BY <1>1 DEF EncryptedPart
  <2>2. QED  BY <1>1, <2>1 DEF InArea, Positions
<1>2. CASE ~(q.start = None \/ q.end = None)
  <2>1. q.start \in Nat /\ q.end \in Nat /\ q.start <= q.end  BY <1>2 DEF ValidQueue
  <2>2. part.offset = s.start - offset /\ part.length = s.length  BY <1>2 DEF EncryptedPart
  <2>3. ExactPart(s, offset, length, q.start, q.end)
    BY <2>1, IntersectionIsExact
  <2> HIDE DEF s
  <2>4. part.offset \in Nat /\ part.length \in Nat /\ part.offset + part.length <= length
    BY <2>2, <2>3 DEF ExactPart
  <2>5. ASSUME NEW i \in Positions(length)
        PROVE  InArea(q, offset + i) <=> part.offset <= i /\ i < part.offset + part.length
    <3>1. offset + i \in offset .. offset + length - 1  BY DEF Positions
    <3>2. (q.start <= offset + i /\ offset + i <= q.end)
             <=> (s.start <= offset + i /\ offset + i < s.start + s.length)
      BY <2>3, <3>1 DEF ExactPart
    <3>3. i \in Nat  BY DEF Positions
    <3>4. (s.start <= offset + i /\ offset + i < s.start + s.length)
             <=> part.offset <= i /\ i < part.offset + part.length
      BY <2>2, <2>3, <3>3 DEF ExactPart
    <3>5. QED  BY <1>2, <3>2, <3>4 DEF InArea
  <2>6. QED  BY <2>4, <2>5
<1>3. QED  BY <1>1, <1>2

\* The queue encrypts and decrypts exactly the sectors of the area, each with
\* its own unit number, wherever the fragment begins.  (MainThreadProc and
\* CompletionThreadProc.)
THEOREM QueueUnitsAreExact ==
  ASSUME Word \in Nat \ {0}, NEW q, ValidQueue(q),
         NEW offset \in Nat, NEW length \in Nat, 0 < length, length < Word
  PROVE  QueueUnits(q, offset, length) = UnitsFor(q, offset, length)
<1> DEFINE part == EncryptedPart(q, offset, length)
           shift == IF q.remap THEN q.unitOffset ELSE 0
<1>1. /\ part.offset \in Nat /\ part.length \in Nat /\ part.offset + part.length <= length
      /\ \A i \in Positions(length) :
           InArea(q, offset + i) <=> part.offset <= i /\ i < part.offset + part.length
  BY PartIsExact
<1>2. shift \in Int  BY DEF ValidQueue, Queues
<1>3. QueueUnits(q, offset, length)
        = [i \in part.offset .. part.offset + part.length - 1 |->
             offset + part.offset + shift + (i - part.offset)]
  BY DEF QueueUnits
<1> HIDE DEF part, shift
<1>4. part.offset .. part.offset + part.length - 1
        = {j \in Positions(length) : InArea(q, offset + j)}
  BY <1>1 DEF Positions
<1>5. \A i \in part.offset .. part.offset + part.length - 1 :
        offset + part.offset + shift + (i - part.offset) = offset + i + shift
  BY <1>1, <1>2
<1>6. \A i \in part.offset .. part.offset + part.length - 1 : Unit(q, offset + i) = offset + i + shift
  BY DEF Unit, shift
<1>7. QED  BY <1>3, <1>4, <1>5, <1>6 DEF UnitsFor

\* The dump filter encrypts what the queue would, with the same unit numbers,
\* and puts it where the queue would unless a write straddles the border of a
\* remapped area: the system that wakes up reads its memory back through the
\* queue.  (DumpFilterWrite.)
THEOREM DumpFilterAgrees ==
  ASSUME Word \in Nat \ {0}, NEW q, ValidQueue(q),
         NEW offset \in Nat, NEW length \in Nat, 0 < length, length < Word
  PROVE  /\ DumpUnits(q, offset, length) = UnitsFor(q, offset, length)
         /\ \/ \A i \in Positions(length) : InArea(q, offset + i)
            \/ \A i \in Positions(length) : ~InArea(q, offset + i)
            => DumpPlace(q, offset, length)
                 = [i \in Positions(length) |-> Place(q, offset + i)]
<1> DEFINE part == EncryptedPart(q, offset, length)
           s == GetIntersection(offset, length, q.start, q.end)
           shift == IF q.remap THEN q.unitOffset ELSE 0
<1>1. /\ part.offset \in Nat /\ part.length \in Nat /\ part.offset + part.length <= length
      /\ \A i \in Positions(length) :
           InArea(q, offset + i) <=> part.offset <= i /\ i < part.offset + part.length
  BY PartIsExact
<1>2. shift \in Int /\ q.offset \in Int  BY DEF ValidQueue, Queues
<1>3. DumpUnits(q, offset, length) = UnitsFor(q, offset, length)
  <2>1. CASE q.start = None \/ q.end = None
    <3>1. {j \in Positions(length) : InArea(q, offset + j)} = {}  BY <2>1 DEF InArea
    <3>2. DumpUnits(q, offset, length) = [i \in {} |-> s.start + shift + (i - (s.start - offset))]
      BY <2>1 DEF DumpUnits
    <3>3. UnitsFor(q, offset, length) = [i \in {} |-> Unit(q, offset + i)]  BY <3>1 DEF UnitsFor
    <3>4. QED  BY <3>2, <3>3
  <2>2. CASE ~(q.start = None \/ q.end = None)
    <3>1. q.start \in Nat /\ q.end \in Nat /\ q.start <= q.end  BY <2>2 DEF ValidQueue
    <3>2. ExactPart(s, offset, length, q.start, q.end)  BY <3>1, IntersectionIsExact
    <3>3. part = [offset |-> s.start - offset, length |-> s.length]
      BY <2>2 DEF EncryptedPart
    <3>4. DumpUnits(q, offset, length)
            = [i \in IF s.length = 0 THEN {} ELSE s.start - offset .. s.start - offset + s.length - 1 |->
                 s.start + shift + (i - (s.start - offset))]
      BY <2>2 DEF DumpUnits
    <3> HIDE DEF s
    <3>5. s.start \in Nat /\ s.length \in Nat /\ part.offset = s.start - offset /\ part.length = s.length
      BY <3>2, <3>3 DEF ExactPart
    <3> HIDE DEF part, shift
    <3>6. (IF s.length = 0 THEN {} ELSE s.start - offset .. s.start - offset + s.length - 1)
            = {j \in Positions(length) : InArea(q, offset + j)}
      BY <1>1, <3>5 DEF Positions
    <3>7. \A i \in Positions(length) : s.start + shift + (i - (s.start - offset)) = offset + i + shift
      BY <1>2, <3>5 DEF Positions
    <3>8. \A i \in Positions(length) : Unit(q, offset + i) = offset + i + shift
      BY DEF Unit, shift
    <3>9. QED  BY <3>4, <3>6, <3>7, <3>8 DEF UnitsFor
  <2>3. QED  BY <2>1, <2>2
<1>4. ASSUME \/ \A i \in Positions(length) : InArea(q, offset + i)
             \/ \A i \in Positions(length) : ~InArea(q, offset + i)
      PROVE  DumpPlace(q, offset, length) = [i \in Positions(length) |-> Place(q, offset + i)]
  <2>1. DumpPlace(q, offset, length)
          = [i \in Positions(length) |->
               offset + i + (IF part.length > 0 /\ q.remap THEN q.offset ELSE 0)]
    BY DEF DumpPlace, Positions
  <2> HIDE DEF part
  <2>2. \A i \in Positions(length) : InArea(q, offset + i) <=> part.length > 0
    <3>1. 0 \in Positions(length)  BY DEF Positions
    <3>2. CASE \A i \in Positions(length) : InArea(q, offset + i)
      BY <1>1, <3>1, <3>2 DEF Positions
    <3>3. CASE \A i \in Positions(length) : ~InArea(q, offset + i)
      <4>1. part.length > 0 => part.offset \in Positions(length)  BY <1>1 DEF Positions
      <4>2. ~(part.length > 0)  BY <1>1, <3>3, <4>1
      <4>3. QED  BY <3>3, <4>2
    <3>4. QED  BY <1>4, <3>2, <3>3
  <2>3. QED  BY <2>1, <2>2 DEF Place
<1>5. QED  BY <1>3, <1>4

\* Where the transfers of a fragment take its sectors: position and place.
Moved(f) == {<<f.data + k, f.offset + k>> : k \in 0 .. f.length - 1}
PositionsOf(f) == f.data .. f.data + f.length - 1

\* Whatever part of a fragment is remapped, each of its sectors is moved by one
\* transfer, to its place.  (IoThreadProc with its three sub-fragments.)
THEOREM TransfersAreExact ==
  ASSUME Word \in Nat \ {0}, NEW q, ValidQueue(q),
         NEW offset \in Nat, NEW length \in Nat, 0 < length, length < Word
  PROVE  \A i \in Positions(length) :
           \E f \in SubFragments(q, offset, length) :
             /\ i \in PositionsOf(f) /\ <<i, Place(q, offset + i)>> \in Moved(f)
             /\ \A g \in SubFragments(q, offset, length) : i \in PositionsOf(g) => g = f
<1> DEFINE part == EncryptedPart(q, offset, length)
           after == part.offset + part.length
           Before == [data |-> 0, offset |-> offset, length |-> part.offset]
           Middle == [data |-> part.offset, offset |-> offset + part.offset + q.offset,
                      length |-> part.length]
           After == [data |-> after, offset |-> offset + after, length |-> length - after]
           Whole(o) == [data |-> 0, offset |-> o, length |-> length]
<1>1. /\ part.offset \in Nat /\ part.length \in Nat /\ part.offset + part.length <= length
      /\ \A i \in Positions(length) :
           InArea(q, offset + i) <=> part.offset <= i /\ i < part.offset + part.length
  BY PartIsExact
<1>2. q.offset \in Int  BY DEF ValidQueue, Queues
<1> SUFFICES ASSUME NEW i \in Positions(length)
             PROVE  \E f \in SubFragments(q, offset, length) :
                      /\ i \in PositionsOf(f) /\ <<i, Place(q, offset + i)>> \in Moved(f)
                      /\ \A g \in SubFragments(q, offset, length) : i \in PositionsOf(g) => g = f
  OBVIOUS
<1>3. i \in Nat /\ i < length  BY DEF Positions
<1>4. CASE ~q.remap \/ part.length = 0
  <2>1. SubFragments(q, offset, length) = {Whole(offset)}  BY <1>4 DEF SubFragments
  <2>2. Place(q, offset + i) = offset + i
    <3>1. part.length = 0 => ~InArea(q, offset + i)  BY <1>1, <1>3
    <3>2. QED  BY <1>3, <1>4, <3>1 DEF Place
  <2>3. i \in PositionsOf(Whole(offset)) /\ <<i, offset + i>> \in Moved(Whole(offset))
    BY <1>3 DEF PositionsOf, Moved
  <2>4. QED  BY <2>1, <2>2, <2>3
<1>5. CASE q.remap /\ part.length # 0 /\ part.length = length
  <2>1. SubFragments(q, offset, length) = {Whole(offset + q.offset)}  BY <1>5 DEF SubFragments
  <2>2. Place(q, offset + i) = offset + q.offset + i
    <3>1. InArea(q, offset + i)  BY <1>1, <1>3, <1>5
    <3>2. QED  BY <1>2, <1>3, <1>5, <3>1 DEF Place
  <2>3. /\ i \in PositionsOf(Whole(offset + q.offset))
        /\ <<i, offset + q.offset + i>> \in Moved(Whole(offset + q.offset))
    BY <1>2, <1>3 DEF PositionsOf, Moved
  <2>4. QED  BY <2>1, <2>2, <2>3
<1>6. CASE q.remap /\ part.length # 0 /\ part.length # length
  <2>1. SubFragments(q, offset, length) = {f \in {Before, Middle, After} : f.length > 0}
    BY <1>6 DEF SubFragments
  <2> HIDE DEF part
  <2>2. \A g \in SubFragments(q, offset, length) : g = Before \/ g = Middle \/ g = After
    BY <2>1
  <2>3. /\ i \in PositionsOf(Before) <=> i < part.offset
        /\ i \in PositionsOf(Middle) <=> part.offset <= i /\ i < after
        /\ i \in PositionsOf(After) <=> after <= i
    BY <1>1, <1>3 DEF PositionsOf
  <2>4. CASE i < part.offset
    <3>1. Before \in SubFragments(q, offset, length)  BY <1>1, <1>3, <2>1, <2>4
    <3>2. <<i, Place(q, offset + i)>> \in Moved(Before)
      <4>1. ~InArea(q, offset + i)  BY <1>1, <1>3, <2>4
      <4>2. Place(q, offset + i) = offset + i  BY <1>3, <4>1 DEF Place
      <4>3. QED  BY <1>1, <1>3, <2>4, <4>2 DEF Moved
    <3>3. ~(i \in PositionsOf(Middle)) /\ ~(i \in PositionsOf(After))
      BY <1>1, <1>3, <2>3, <2>4
    <3> HIDE DEF Before, Middle, After
    <3>4. QED  BY <2>2, <2>3, <2>4, <3>1, <3>2, <3>3
  <2>5. CASE part.offset <= i /\ i < after
    <3>1. Middle \in SubFragments(q, offset, length)  BY <1>1, <1>6, <2>1
    <3>2. <<i, Place(q, offset + i)>> \in Moved(Middle)
      <4>1. InArea(q, offset + i)  BY <1>1, <2>5
      <4>2. Place(q, offset + i) = offset + i + q.offset  BY <1>3, <1>6, <4>1 DEF Place
      <4>3. i - part.offset \in 0 .. part.length - 1  BY <1>1, <1>3, <2>5
      <4>4. i = part.offset + (i - part.offset)
            /\ offset + i + q.offset = offset + part.offset + q.offset + (i - part.offset)
        BY <1>1, <1>2, <1>3
      <4>5. QED  BY <4>2, <4>3, <4>4 DEF Moved
    <3>3. ~(i \in PositionsOf(Before)) /\ ~(i \in PositionsOf(After))
      BY <1>1, <1>3, <2>3, <2>5
    <3> HIDE DEF Before, Middle, After
    <3>4. QED  BY <2>2, <2>3, <2>5, <3>1, <3>2, <3>3
  <2>6. CASE after <= i
    <3>1. After \in SubFragments(q, offset, length)  BY <1>1, <1>3, <2>1, <2>6
    <3>2. <<i, Place(q, offset + i)>> \in Moved(After)
      <4>1. ~InArea(q, offset + i)  BY <1>1, <1>3, <2>6
      <4>2. Place(q, offset + i) = offset + i  BY <1>3, <4>1 DEF Place
      <4>3. i - after \in 0 .. (length - after) - 1  BY <1>1, <1>3, <2>6
      <4>4. i = after + (i - after) /\ offset + i = offset + after + (i - after)  BY <1>1, <1>3
      <4>5. QED  BY <4>2, <4>3, <4>4 DEF Moved
    <3>3. ~(i \in PositionsOf(Before)) /\ ~(i \in PositionsOf(Middle))
      BY <1>1, <1>3, <2>3, <2>6
    <3> HIDE DEF Before, Middle, After
    <3>4. QED  BY <2>2, <2>3, <2>6, <3>1, <3>2, <3>3
  <2>7. QED  BY <1>1, <1>3, <2>4, <2>5, <2>6
<1>7. QED  BY <1>4, <1>5, <1>6

\* The hidden system's area is as long as the partition it is a copy of, and
\* the queue's area is the boot loader's partition.  (What the copy into the
\* hidden volume requires, and what MountDrive checks of the size.)
HiddenSystem(header, active, following) ==
  /\ header \in VolumeHeaders /\ active \in Partitions /\ following \in Nat
  /\ header.hidden /\ header.areaLength > 0
  /\ active.end = active.start + header.areaLength - 1
  /\ header.areaLength <= following - active.start

\* The driver and the boot loader place every sector of a hidden system alike:
\* what was copied into the hidden volume, what the boot loader reads and
\* writes before the system runs, and what the queue reads and writes after.
\* (MountVolume, CopySystemPartitionToHiddenVolume, ReadEncryptedSectors,
\* WriteEncryptedSectors, MountDrive.)
THEOREM HiddenSystemAgrees ==
  ASSUME NEW header, NEW active, NEW following, HiddenSystem(header, active, following),
         NEW b, b = BootMount(header, active, following),
         NEW q, q = DriveMount(header, active, following),
         NEW sector \in Nat, NEW count \in Nat, 0 < count,
         b.start <= sector, sector + count - 1 <= b.end
  PROVE  /\ ~ReadEncryptedSectors(b, sector, count).refused
         /\ ReadEncryptedSectors(b, sector, count).place
              = [i \in Positions(count) |-> Place(q, sector + i)]
         /\ ReadEncryptedSectors(b, sector, count).unit = UnitsFor(q, sector, count)
         /\ WriteEncryptedSectors(b, sector, count) = ReadEncryptedSectors(b, sector, count)
         /\ CopyPlace(b, sector - active.start) = Place(q, sector)
         /\ CopyUnit(b, sector - active.start) = Unit(q, sector)
<1>1. /\ header.areaStart \in Nat /\ header.areaLength \in Nat /\ header.hidden
      /\ active.start \in Nat /\ active.end \in Nat /\ following \in Nat
      /\ active.end = active.start + header.areaLength - 1 /\ header.areaLength > 0
  BY DEF HiddenSystem, VolumeHeaders, Partitions
<1>2. /\ b.start = active.start /\ b.end = active.end /\ b.hidden
      /\ b.hiddenStart = following + header.areaStart /\ b.firstUnit = header.areaStart
  BY <1>1 DEF BootMount
<1>3. /\ q.start = active.start /\ q.end = active.end /\ q.remap
      /\ q.offset = following + header.areaStart - active.start
      /\ q.unitOffset = header.areaStart - active.start
  BY <1>1 DEF DriveMount
<1>4. \A i \in Positions(count) : InPartition(b, sector + i) /\ InArea(q, sector + i)
  BY <1>1, <1>2, <1>3 DEF Positions, InPartition, InArea, None
<1>5. InPartition(b, sector) /\ InArea(q, sector) /\ ~PartiallyCovers(b, sector, count)
  BY <1>1, <1>2, <1>3 DEF InPartition, InArea, None, PartiallyCovers
<1> DEFINE moved == b.hidden /\ InPartition(b, sector)
           from == IF moved THEN sector - b.start + b.hiddenStart ELSE sector
           unit == IF moved THEN from - b.hiddenStart + b.firstUnit ELSE sector
           decrypts == IF b.hidden THEN [i \in 0 .. count - 1 |-> moved]
                              ELSE [i \in 0 .. count - 1 |-> InPartition(b, sector + i)]
           shift == IF b.hidden THEN b.hiddenStart - b.start ELSE 0
           wunit == IF b.hidden THEN sector - b.start + b.firstUnit ELSE sector
           R == ReadEncryptedSectors(b, sector, count)
           W == WriteEncryptedSectors(b, sector, count)
<1>6. R = [refused |-> b.hidden /\ PartiallyCovers(b, sector, count),
           place |-> [i \in 0 .. count - 1 |-> from + i],
           unit |-> [i \in {j \in 0 .. count - 1 : decrypts[j]} |-> unit + i]]
  BY DEF ReadEncryptedSectors
<1>7. W = [refused |-> b.hidden /\ PartiallyCovers(b, sector, count),
           place |-> [i \in 0 .. count - 1 |-> sector + i + shift],
           unit |-> [i \in {j \in 0 .. count - 1 : InPartition(b, sector + j)} |-> wunit + i]]
  BY DEF WriteEncryptedSectors
<1>8. /\ from = sector + q.offset /\ unit = sector + q.unitOffset
      /\ shift = q.offset /\ wunit = sector + q.unitOffset
  BY <1>1, <1>2, <1>3, <1>5
<1>9. \A i \in Positions(count) : decrypts[i]
  BY <1>2, <1>5 DEF Positions
<1> HIDE DEF moved, from, unit, decrypts, shift, wunit, R, W
<1>10. \A i \in Positions(count) :
         /\ from + i = Place(q, sector + i) /\ sector + i + shift = Place(q, sector + i)
         /\ unit + i = Unit(q, sector + i) /\ wunit + i = Unit(q, sector + i)
  BY <1>1, <1>3, <1>4, <1>8 DEF Positions, Place, Unit
<1>11. /\ {j \in 0 .. count - 1 : decrypts[j]} = Positions(count)
       /\ {j \in 0 .. count - 1 : InPartition(b, sector + j)} = Positions(count)
       /\ {j \in Positions(count) : InArea(q, sector + j)} = Positions(count)
  BY <1>4, <1>9 DEF Positions
<1>12. UnitsFor(q, sector, count) = [i \in Positions(count) |-> Unit(q, sector + i)]
  BY <1>11 DEF UnitsFor
<1>13. /\ ~R.refused
       /\ R.place = [i \in Positions(count) |-> Place(q, sector + i)]
       /\ R.unit = UnitsFor(q, sector, count)
  <2>1. [i \in 0 .. count - 1 |-> from + i] = [i \in Positions(count) |-> Place(q, sector + i)]
    BY <1>10 DEF Positions
  <2>2. [i \in Positions(count) |-> unit + i] = [i \in Positions(count) |-> Unit(q, sector + i)]
    BY <1>10
  <2>3. QED  BY <1>5, <1>6, <1>11, <1>12, <2>1, <2>2
<1>14. W = R
  <2>1. [i \in 0 .. count - 1 |-> from + i] = [i \in 0 .. count - 1 |-> sector + i + shift]
    BY <1>10 DEF Positions
  <2>2. [i \in Positions(count) |-> unit + i] = [i \in Positions(count) |-> wunit + i]
    BY <1>10
  <2>3. QED  BY <1>6, <1>7, <1>11, <2>1, <2>2
<1>15. /\ CopyPlace(b, sector - active.start) = Place(q, sector)
       /\ CopyUnit(b, sector - active.start) = Unit(q, sector)
  BY <1>1, <1>2, <1>3, <1>5 DEF CopyPlace, CopyUnit, Place, Unit
<1>16. QED  BY <1>13, <1>14, <1>15 DEF R, W

\* No sector that a hidden system reads or writes through its encrypted area
\* lies in the partition of the decoy system.  (MountDrive.)
THEOREM HiddenSystemSparesDecoy ==
  ASSUME NEW header, NEW active, NEW following, HiddenSystem(header, active, following),
         NEW q, q = DriveMount(header, active, following),
         NEW a \in Nat, InArea(q, a)
  PROVE  Place(q, a) >= following /\ ~InArea(q, Place(q, a))
<1>1. /\ header.areaStart \in Nat /\ header.areaLength \in Nat /\ header.hidden
      /\ active.start \in Nat /\ active.end \in Nat /\ following \in Nat
      /\ active.end = active.start + header.areaLength - 1 /\ header.areaLength > 0
      /\ header.areaLength <= following - active.start
  BY DEF HiddenSystem, VolumeHeaders, Partitions
<1>2. /\ q.start = active.start /\ q.end = active.end /\ q.remap
      /\ q.offset = following + header.areaStart - active.start
  BY <1>1 DEF DriveMount
<1>3. active.start <= a /\ a <= active.end  BY <1>2 DEF InArea
<1>4. Place(q, a) = a + following + header.areaStart - active.start
  BY <1>1, <1>2 DEF Place
<1>5. QED  BY <1>1, <1>2, <1>3, <1>4 DEF InArea

\* Without a hidden system nothing is moved, and a request of the boot loader
\* may begin or end outside of the area: the sectors in it are encrypted as the
\* queue encrypts them.  (ReadEncryptedSectors, WriteEncryptedSectors.)
THEOREM NormalSystemAgrees ==
  ASSUME NEW header \in VolumeHeaders, NEW active \in Partitions, NEW following \in Nat,
         ~header.hidden, header.areaLength > 0,
         NEW b, b = BootMount(header, active, following),
         NEW q, q = DriveMount(header, active, following),
         NEW sector \in Nat, NEW count \in Nat, 0 < count
  PROVE  /\ ReadEncryptedSectors(b, sector, count)
              = [refused |-> FALSE,
                 place |-> [i \in Positions(count) |-> Place(q, sector + i)],
                 unit |-> UnitsFor(q, sector, count)]
         /\ WriteEncryptedSectors(b, sector, count) = ReadEncryptedSectors(b, sector, count)
<1>1. header.areaStart \in Nat /\ header.areaLength \in Nat  BY DEF VolumeHeaders
<1>2. /\ b.start = header.areaStart /\ b.end = header.areaStart + header.areaLength - 1
      /\ b.hidden = FALSE
  BY <1>1 DEF BootMount, VolumeHeaders
<1>3. q.start = b.start /\ q.end = b.end /\ ~q.remap
  BY <1>1, <1>2 DEF DriveMount
<1>4. \A i \in Positions(count) : InPartition(b, sector + i) <=> InArea(q, sector + i)
  BY <1>1, <1>2, <1>3 DEF Positions, InPartition, InArea, None
<1>5. \A i \in Positions(count) : Place(q, sector + i) = sector + i /\ Unit(q, sector + i) = sector + i
  BY <1>3 DEF Positions, Place, Unit
<1> DEFINE decrypts == [i \in 0 .. count - 1 |-> InPartition(b, sector + i)]
<1>6. ReadEncryptedSectors(b, sector, count)
        = [refused |-> FALSE,
           place |-> [i \in 0 .. count - 1 |-> sector + i],
           unit |-> [i \in {j \in 0 .. count - 1 : decrypts[j]} |-> sector + i]]
  BY <1>2 DEF ReadEncryptedSectors
<1>7. WriteEncryptedSectors(b, sector, count)
        = [refused |-> FALSE,
           place |-> [i \in 0 .. count - 1 |-> sector + i + 0],
           unit |-> [i \in {j \in 0 .. count - 1 : InPartition(b, sector + j)} |-> sector + i]]
  BY <1>2 DEF WriteEncryptedSectors
<1>8. {j \in 0 .. count - 1 : decrypts[j]} = {j \in Positions(count) : InArea(q, sector + j)}
  BY <1>4 DEF Positions
<1>9. {j \in 0 .. count - 1 : InPartition(b, sector + j)}
        = {j \in Positions(count) : InArea(q, sector + j)}
  BY <1>4 DEF Positions
<1> HIDE DEF decrypts
<1>10. /\ [i \in 0 .. count - 1 |-> sector + i] = [i \in Positions(count) |-> Place(q, sector + i)]
       /\ [i \in 0 .. count - 1 |-> sector + i + 0] = [i \in 0 .. count - 1 |-> sector + i]
  BY <1>5 DEF Positions
<1>11. [i \in {j \in Positions(count) : InArea(q, sector + j)} |-> sector + i]
         = UnitsFor(q, sector, count)
  BY <1>5 DEF UnitsFor
<1>12. QED  BY <1>6, <1>7, <1>8, <1>9, <1>10, <1>11

\* The filter of the hibernation driver moves the whole partition of the
\* hibernation file.  A write inside the encrypted area comes to the same place
\* as through the queue.
THEOREM HiberDriverAgrees ==
  ASSUME NEW q, NEW offset \in Nat, NEW length \in Nat,
         \A i \in Positions(length) : InArea(q, offset + i)
  PROVE  HiberPlace(q, offset, length) = [i \in Positions(length) |-> Place(q, offset + i)]
<1>1. \A i \in Positions(length) :
        Place(q, offset + i) = offset + i + (IF q.remap THEN q.offset ELSE 0)
  BY DEF Place
<1>2. QED  BY <1>1 DEF HiberPlace, Positions

\* MainThreadProc loses no sector of a request and takes none twice: a fragment
\* is where the rest began, not empty, and ends where the rest begins after it,
\* or at the end of the request when it is the last.
THEOREM FragmentsFollow ==
  ASSUME NEW rest \in [offset : Nat, length : Nat], rest.length > 0,
         NEW size \in Nat, size > 0,
         NEW f, f = Fragment(rest, size),
         NEW next, next = AfterFragment(rest, size)
  PROVE  /\ f.offset = rest.offset /\ f.length \in 1 .. size
         /\ IF IsLastFragment(rest, size) THEN f.offset + f.length = rest.offset + rest.length
            ELSE /\ next \in [offset : Nat, length : Nat] /\ next.length > 0
                 /\ next.offset = f.offset + f.length
                 /\ next.offset + next.length = rest.offset + rest.length
<1>1. rest.offset \in Nat /\ rest.length \in Nat  OBVIOUS
<1>2. CASE rest.length <= size
  <2>1. f.offset = rest.offset /\ f.length = rest.length /\ IsLastFragment(rest, size)
    BY <1>2 DEF Fragment, IsLastFragment
  <2>2. QED  BY <1>1, <1>2, <2>1
<1>3. CASE ~(rest.length <= size)
  <2>1. f.offset = rest.offset /\ f.length = size /\ ~IsLastFragment(rest, size)
    BY <1>3 DEF Fragment, IsLastFragment
  <2>2. /\ next = [offset |-> rest.offset + size, length |-> rest.length - size]
        /\ rest.offset + size \in Nat /\ rest.length - size \in Nat /\ rest.length - size > 0
    BY <1>1, <1>3 DEF AfterFragment
  <2>3. QED  BY <1>1, <1>3, <2>1, <2>2
<1>4. QED  BY <1>2, <1>3

\* A region and a write, by the bytes they have in common.
Touches(offset, length, start, end) ==
  offset <= end /\ start <= offset + length - 1

\* While the sum of a write's offset and length fits a uint32, the guard of the
\* substituted sectors refuses every write that touches a region.
\* (MainThreadProc passes UpdateBuffer the end of the write for its length.)
THEOREM GuardRefusesTouching ==
  ASSUME Word \in Nat \ {0},
         NEW offset \in Nat, NEW length \in Nat, NEW start \in Nat, NEW end \in Nat,
         start <= end, length > 1, offset > 0, offset + length <= Word,
         Touches(offset, length, start, end)
  PROVE  WriteRefused(offset, length, start, end)
<1>1. GuardedLength(offset, length) = offset + length - 1
  <2>1. offset + length - 1 \in Nat /\ offset + length - 1 < Word  OBVIOUS
  <2>2. QED  BY <2>1, NarrowKeeps DEF GuardedLength
<1> DEFINE n == offset + length - 1
           s == GetIntersection(offset, n, start, end)
<1>2. ExactPart(s, offset, n, start, end)
  <2>1. n \in Nat /\ 0 < n /\ n < Word  OBVIOUS
  <2> HIDE DEF n
  <2>2. QED  BY <2>1, IntersectionIsExact
<1>3. \E a \in offset .. offset + n - 1 : start <= a /\ a <= end
  <2>1. CASE start <= offset
    <3>1. offset \in offset .. offset + n - 1 /\ start <= offset /\ offset <= end
      BY <2>1 DEF Touches
    <3>2. QED  BY <3>1
  <2>2. CASE ~(start <= offset)
    <3>1. start \in offset .. offset + n - 1 /\ start <= start /\ start <= end
      BY <2>2 DEF Touches
    <3>2. QED  BY <3>1
  <2>3. QED  BY <2>1, <2>2
<1> HIDE DEF n, s
<1>4. s.length # 0
  <2>1. PICK a \in offset .. offset + n - 1 : start <= a /\ a <= end  BY <1>3
  <2>2. s.start <= a /\ a < s.start + s.length  BY <1>2, <2>1 DEF ExactPart
  <2>3. n \in Int  BY DEF n
  <2>4. a \in Int /\ s.start \in Int  BY <1>2, <2>1, <2>3 DEF ExactPart
  <2>5. QED  BY <2>2, <2>4
<1>5. QED  BY <1>1, <1>4 DEF WriteRefused, s, n

\* Beyond that the guard errs both ways.  With 4 GiB to a uint32, a write of two
\* sectors across 4 GiB that touches a region there is let through, and a write
\* of one sector at 2 GiB is refused for a region at 3 GiB.
THEOREM GuardErrs ==
  ASSUME Word = 4294967296
  PROVE  /\ Touches(4294966784, 1024, 4294967296, 4294967807)
         /\ ~WriteRefused(4294966784, 1024, 4294967296, 4294967807)
         /\ ~Touches(2147483648, 512, 3221225472, 3221225983)
         /\ WriteRefused(2147483648, 512, 3221225472, 3221225983)
<1>1. /\ Touches(4294966784, 1024, 4294967296, 4294967807)
      /\ ~Touches(2147483648, 512, 3221225472, 3221225983)
  BY DEF Touches
<1>2. ~WriteRefused(4294966784, 1024, 4294967296, 4294967807)
  <2>1. GuardedLength(4294966784, 1024) = 511  BY DEF GuardedLength, Narrow
  <2>2. GetIntersection(4294966784, 511, 4294967296, 4294967807).length = 0
    BY DEF GetIntersection
  <2>3. QED  BY <2>1, <2>2 DEF WriteRefused
<1>3. WriteRefused(2147483648, 512, 3221225472, 3221225983)
  <2>1. GuardedLength(2147483648, 512) = 2147484159  BY DEF GuardedLength, Narrow
  <2>2. Narrow(512) = 512  BY DEF Narrow
  <2>3. GetIntersection(2147483648, 2147484159, 3221225472, 3221225983).length = 512
    BY <2>2 DEF GetIntersection
  <2>4. QED  BY <2>1, <2>3 DEF WriteRefused
<1>4. QED  BY <1>1, <1>2, <1>3
=============================================================================
