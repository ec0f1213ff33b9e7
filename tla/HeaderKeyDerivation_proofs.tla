--------------------- MODULE HeaderKeyDerivation_proofs ---------------------
(***************************************************************************)
(* Theorems about ReadVolumeHeader with its concurrent key derivation, for  *)
(* any number of PRFs, threads and derivations at a time.                   *)
(***************************************************************************)
EXTENDS HeaderKeyDerivation, FiniteSetTheorems, TLAPS

Items == [free : BOOLEAN, ready : BOOLEAN, prf : 0 .. PrfCount, key : 0 .. PrfCount]
Held == {n \in Prfs : ~item[n].free}
Running(w) == wPc[w] \in {"derive", "flag"}
Beginning == rPc \in {"count", "clear", "enqueue"}
Trying == rPc \notin {"cleanup", "done"}

(***************************************************************************)
(* Types.                                                                   *)
(***************************************************************************)
Types ==
  /\ selected \in 0 .. PrfCount /\ boot \in BOOLEAN /\ verdict \in [Prfs -> Verdicts]
  /\ rPc \in ReaderStates /\ next \in 1 .. PrfCount + 1 /\ queued \in Int
  /\ item \in [Prfs -> Items] /\ dk \in 0 .. PrfCount
  /\ queue \in Seq(Prfs) /\ tested \in Seq(0 .. PrfCount)
  /\ wPc \in [Workers -> WorkerStates] /\ wItem \in [Workers -> Prfs]
  /\ {abort} \subseteq BOOLEAN /\ status \in Verdicts \cup {"none"}

(***************************************************************************)
(* Who has an item: it is waited for in the queue, in one worker's hands,   *)
(* about to be enqueued by the reader, or ready.                            *)
(***************************************************************************)
Unready(n) == n \in Held /\ ~item[n].ready
InQueue(n) == \E k \in 1 .. Len(queue) : queue[k] = n
QueueOwns ==
  /\ \A k \in 1 .. Len(queue) : Unready(queue[k])
  /\ \A j, k \in 1 .. Len(queue) : queue[j] = queue[k] => j = k
WorkersOwn ==
  /\ \A w \in Workers : Running(w) => Unready(wItem[w]) /\ ~InQueue(wItem[w])
  /\ \A v, w \in Workers : Running(v) /\ Running(w) /\ wItem[v] = wItem[w] => v = w
ReaderOwns ==
  Beginning =>
    /\ \E n \in Held : item[n].prf = next
    /\ \A n \in Held : item[n].prf = next =>
         ~item[n].ready /\ ~InQueue(n) /\ \A w \in Workers : Running(w) => wItem[w] # n
Keys ==
  ~abort => /\ \A n \in Held : item[n].ready => item[n].key = item[n].prf
            /\ \A w \in Workers : wPc[w] = "flag" => item[wItem[w]].key = item[wItem[w]].prf
PrfsDistinct == \A m, n \in Held : item[m].prf = item[n].prf => m = n
Ownership == QueueOwns /\ WorkersOwn /\ ReaderOwns /\ Keys

(***************************************************************************)
(* What has become of the PRFs that the loop has come to.                   *)
(***************************************************************************)
HeldPrfs == {item[n].prf : n \in Held}
Testing == IF rPc = "test" THEN {dk} ELSE {}
Reached == IF rPc = "loop" THEN next - 1 ELSE next
Admitted(k) == {p \in Prfs : p <= k /\ ~Skipped(p)}
Account ==
  /\ Trying => /\ Tested \cup HeldPrfs \cup Testing = Admitted(Reached)
               /\ Tested \cap HeldPrfs = {} /\ Tested \cap Testing = {} /\ HeldPrfs \cap Testing = {}
               /\ ~abort /\ status = "none" /\ (rPc # "loop" => next <= PrfCount)
  /\ \A j, k \in 1 .. Len(tested) : j # k => tested[j] # tested[k]
  /\ Tested \subseteq Admitted(PrfCount)
  /\ status = "wrong" => Tested = Admitted(PrfCount)
QueuedCount ==
  Trying => /\ Cardinality(Held) = queued + (IF Beginning THEN 1 ELSE 0)
            /\ ~UsesPool => Held = {}

TriesInv == Types /\ Ownership /\ PrfsDistinct /\ Account /\ QueuedCount

LEMMA HeldFinite == IsFiniteSet(Held) /\ Cardinality(Held) \in Nat
<1>1. IsFiniteSet(Prfs) BY ReaderAssumption, FS_Interval DEF Prfs
<1>2. Held \in SUBSET Prfs BY DEF Held
<1>3. IsFiniteSet(Held) BY <1>1, <1>2, FS_Subset
<1> QED BY <1>3, FS_CardinalityType

\* The reader never finds all items in use.
LEMMA SomeItemFree ==
  ASSUME TriesInv, rPc = "loop", next <= PrfCount
  PROVE  FreeItems # {}
<1> SUFFICES ASSUME FreeItems = {} PROVE FALSE OBVIOUS
<1>1. Held = Prfs BY DEF Held, FreeItems, TriesInv, Types, Items
<1> DEFINE f == [n \in Prfs |-> item[n].prf]
<1> DEFINE T == 1 .. next - 1
<1>2. \A n \in Prfs : item[n].prf \in T
  <2> TAKE n \in Prfs
  <2>1. item[n].prf \in HeldPrfs BY <1>1 DEF HeldPrfs
  <2>2. item[n].prf \in Admitted(next - 1) BY <2>1 DEF TriesInv, Account, Trying, Reached
  <2> QED BY <2>2 DEF Admitted, Prfs, TriesInv, Types
<1>3. f \in [Prfs -> T] BY <1>2
<1>4. IsFiniteSet(T) /\ IsFiniteSet(Prfs) /\ Cardinality(T) = next - 1 /\ Cardinality(Prfs) = PrfCount
  <2>1. next \in Nat /\ next >= 1 /\ PrfCount \in Nat /\ PrfCount >= 1
    BY ReaderAssumption DEF TriesInv, Types
  <2>2. \A k \in Int : k >= 0 => IsFiniteSet(1 .. k) /\ Cardinality(1 .. k) = k
    BY FS_Interval
  <2>3. next - 1 \in Int /\ next - 1 >= 0 BY <2>1
  <2>4. IsFiniteSet(T) /\ Cardinality(T) = next - 1 BY <2>2, <2>3
  <2>5. IsFiniteSet(Prfs) /\ Cardinality(Prfs) = PrfCount BY <2>1, <2>2 DEF Prfs
  <2> QED BY <2>4, <2>5
<1>5. Cardinality(T) < Cardinality(Prfs) BY <1>4, ReaderAssumption DEF TriesInv, Types
<1> HIDE DEF f, T
<1>6. \E x, y \in Prfs : x # y /\ f[x] = f[y] BY <1>3, <1>4, <1>5, FS_PigeonHole
<1> QED BY <1>1, <1>6 DEF f, TriesInv, PrfsDistinct

LEMMA TypesInit == ASSUME Init PROVE TriesInv
<1>1. Held = {} BY DEF Init, Held, FreeItem
<1>2. Types
  <2>1. PrfCount \in Nat /\ PrfCount >= 1 /\ 1 \in Prfs BY ReaderAssumption DEF Prfs
  <2>2. FreeItem \in Items BY <2>1 DEF FreeItem, Items
  <2>3. item \in [Prfs -> Items] BY <2>2 DEF Init
  <2>4. rPc \in ReaderStates /\ next \in 1 .. PrfCount + 1 /\ queued \in Int /\ dk \in 0 .. PrfCount
    BY <2>1 DEF Init, ReaderStates
  <2>5. wPc \in [Workers -> WorkerStates] /\ wItem \in [Workers -> Prfs]
    BY <2>1 DEF Init, WorkerStates
  <2>6. {abort} \subseteq BOOLEAN /\ status \in Verdicts \cup {"none"} BY DEF Init
  <2>7. queue \in Seq(Prfs) /\ tested \in Seq(0 .. PrfCount) BY DEF Init
  <2> QED BY <2>3, <2>4, <2>5, <2>6, <2>7 DEF Init, Types
<1>3. Ownership BY <1>1 DEF Init, Ownership, QueueOwns, WorkersOwn, ReaderOwns, Keys, Running, Beginning
<1>4. Tested = {} BY DEF Init, Tested
<1>5. Account BY <1>1, <1>4, ReaderAssumption DEF Init, Account, HeldPrfs, Testing, Reached, Admitted, Prfs, Verdicts
<1>6. Cardinality({}) = 0 BY FS_EmptySet, Zenon
<1>7. QueuedCount BY <1>1, <1>6 DEF Init, QueuedCount, Beginning
<1> QED BY <1>1, <1>2, <1>3, <1>5, <1>7 DEF TriesInv, PrfsDistinct

(***************************************************************************)
(* Steps that leave the items alone.                                        *)
(***************************************************************************)

\* Ownership survives a step that hands no item to anybody.
LEMMA OwnershipKept ==
  ASSUME Ownership, PrfsDistinct, UNCHANGED <<item, queue, wItem>>, abort => abort',
         \A w \in Workers : Running(w)' => Running(w),
         \A w \in Workers : (wPc[w] = "flag")' => wPc[w] = "flag",
         Beginning' => Beginning /\ next' = next
  PROVE  Ownership' /\ PrfsDistinct'
<1>1. Held' = Held /\ (\A n : InQueue(n)' <=> InQueue(n)) /\ (\A n : Unready(n)' <=> Unready(n))
  BY DEF Held, InQueue, Unready
<1>2. PrfsDistinct' BY <1>1 DEF PrfsDistinct
<1>3. QueueOwns' BY <1>1 DEF QueueOwns, Ownership
<1>4. WorkersOwn'
  <2>1. \A w \in Workers : Running(w)' => Unready(wItem[w]) /\ ~InQueue(wItem[w]) BY DEF Ownership, WorkersOwn
  <2>2. \A v, w \in Workers : Running(v)' /\ Running(w)' /\ wItem[v] = wItem[w] => v = w
    BY DEF Ownership, WorkersOwn
  <2> QED BY <1>1, <2>1, <2>2 DEF WorkersOwn
<1>5. ReaderOwns'
  <2> SUFFICES ASSUME Beginning' PROVE ReaderOwns' BY DEF ReaderOwns
  <2>1. Beginning /\ next' = next OBVIOUS
  <2>2. \A n \in Held : item[n].prf = next =>
          ~item[n].ready /\ ~InQueue(n) /\ \A w \in Workers : Running(w)' => wItem[w] # n
    BY <2>1 DEF Ownership, ReaderOwns
  <2> QED BY <1>1, <2>1, <2>2 DEF Ownership, ReaderOwns
<1>6. Keys' BY <1>1 DEF Ownership, Keys
<1> QED BY <1>2, <1>3, <1>4, <1>5, <1>6 DEF Ownership

\* The account of the PRFs is the reader's: a worker's step leaves it alone.
LEMMA AccountKept ==
  ASSUME Account, QueuedCount, UNCHANGED <<input, reader>>, Held' = Held, HeldPrfs' = HeldPrfs
  PROVE  Account' /\ QueuedCount'
<1> USE DEF input, reader
<1>1. /\ Tested' = Tested /\ Testing' = Testing /\ Reached' = Reached /\ Trying' = Trying
      /\ Beginning' = Beginning /\ UsesPool' = UsesPool /\ \A k : Admitted(k)' = Admitted(k)
  BY DEF Tested, Testing, Reached, Trying, Beginning, UsesPool, Admitted, Skipped
<1>2. Account' BY <1>1 DEF Account
<1>3. QueuedCount' BY <1>1 DEF QueuedCount
<1> QED BY <1>2, <1>3

\* What a step needs to know of the parts of the invariant.
LEMMA Bounds ==
  ASSUME TriesInv
  PROVE  /\ next \in Nat /\ next >= 1 /\ PrfCount \in Nat /\ PrfCount >= 1
         /\ ThreadCount \in Nat /\ queued \in Int
         /\ (\A n \in Prfs : item[n] \in Items) /\ item \in [Prfs -> Items]
BY ReaderAssumption DEF TriesInv, Types

\* Reader steps that leave the items and the keys tested as they are keep the
\* invariant when they keep the types and the PRFs reached.
LEMMA ReaderMoves ==
  ASSUME TriesInv, Trying, Trying', UNCHANGED <<input, item, queue, wPc, wItem, abort, tested, status, queued>>,
         Types', rPc' # "loop" => next' <= PrfCount,
         Beginning' <=> Beginning, Beginning' => next' = next,
         Admitted(Reached') = Admitted(Reached) \cup Testing', Testing = {},
         Testing' = {} \/ (Held = {} /\ Testing' \cap Tested = {})
  PROVE  TriesInv'
<1> USE DEF input
<1>1. Ownership' /\ PrfsDistinct' BY OwnershipKept DEF TriesInv, Running
<1>2. Held' = Held /\ HeldPrfs' = HeldPrfs /\ Tested' = Tested BY DEF Held, HeldPrfs, Tested
<1>3. \A k : Admitted(k)' = Admitted(k) BY DEF Admitted, Skipped
<1>4. Held = {} => HeldPrfs = {} BY DEF HeldPrfs
<1>5. Account'
  <2>1. Admitted(Reached)' = Admitted(Reached') BY DEF Admitted, Skipped
  <2>2. Tested \cup HeldPrfs = Admitted(Reached) /\ Tested \cap HeldPrfs = {} /\ ~abort /\ status = "none"
    BY DEF TriesInv, Account
  <2>3. Tested \cup HeldPrfs \cup Testing' = Admitted(Reached)' BY <2>1, <2>2
  <2>4. Tested \cap Testing' = {} /\ HeldPrfs \cap Testing' = {} BY <1>4
  <2>5. /\ \A j, k \in DOMAIN tested : j # k => tested[j] # tested[k]
        /\ Tested \subseteq Admitted(PrfCount)
    BY DEF TriesInv, Account
  <2> QED BY <1>2, <1>3, <2>2, <2>3, <2>4, <2>5 DEF Account
<1>6. QueuedCount' BY <1>2 DEF TriesInv, QueuedCount, UsesPool, Beginning
<1> QED BY <1>1, <1>5, <1>6 DEF TriesInv

\* Without the pool no item is in use; none is in use when none is queued.
LEMMA NothingHeld ==
  ASSUME TriesInv, Trying, ~Beginning
  PROVE  /\ Cardinality(Held) = queued /\ queued \in Nat
         /\ (queued = 0 => Held = {} /\ HeldPrfs = {})
         /\ (~UsesPool => queued = 0)
<1>1. Cardinality(Held) = queued BY HeldFinite, Bounds DEF TriesInv, QueuedCount
<1>2. Held = {} => Cardinality(Held) = 0 BY FS_EmptySet
<1>3. Cardinality(Held) = 0 => Held = {} BY HeldFinite, FS_EmptySet
<1>4. Held = {} => HeldPrfs = {} BY DEF HeldPrfs
<1> QED BY HeldFinite, <1>1, <1>2, <1>3, <1>4 DEF TriesInv, QueuedCount

\* A PRF the loop comes to is a real one, and was not admitted before.
LEMMA NextIsNew ==
  ASSUME TriesInv, rPc = "loop", ~LoopDone
  PROVE  /\ ~UsesPool => next <= PrfCount
         /\ next = PrfCount + 1 => UsesPool
         /\ Skipped(next) => next <= PrfCount /\ Admitted(next) = Admitted(next - 1)
         /\ ~Skipped(next) /\ next <= PrfCount => Admitted(next) = Admitted(next - 1) \cup {next}
         /\ next \notin Admitted(next - 1)
<1>1. ~UsesPool => queued = 0 BY NothingHeld DEF Trying, Beginning
<1>2. ~UsesPool => next <= PrfCount BY <1>1, Bounds DEF LoopDone, TriesInv, Types
<1>3. Skipped(next) => next <= PrfCount
  <2>1. UsesPool => selected = 0 BY DEF UsesPool
  <2>2. Skipped(next) /\ selected = 0 => next = PrfCount BY DEF Skipped
  <2> QED BY <1>2, <2>1, <2>2, Bounds
<1>4. Skipped(next) => Admitted(next) = Admitted(next - 1) BY Bounds DEF Admitted, Prfs
<1>5. ~Skipped(next) /\ next <= PrfCount => Admitted(next) = Admitted(next - 1) \cup {next}
  BY Bounds DEF Admitted, Prfs
<1>6. next \notin Admitted(next - 1) BY Bounds DEF Admitted
<1>7. next = PrfCount + 1 => UsesPool BY <1>2, Bounds
<1> QED BY <1>2, <1>3, <1>4, <1>5, <1>6, <1>7

LEMMA StepLoopEnd == ASSUME TriesInv, LoopEnd PROVE TriesInv'
<1> USE DEF LoopEnd, RGoto, input
<1>1. Types' BY DEF TriesInv, Types, ReaderStates, Verdicts
<1>2. Ownership' /\ PrfsDistinct' BY OwnershipKept DEF TriesInv, Running, Beginning
<1>3. Tested = Admitted(PrfCount)
  <2>1. HeldPrfs = {} BY NothingHeld DEF Trying, Beginning, LoopDone
  <2>2. next = PrfCount + 1 BY Bounds DEF LoopDone, TriesInv, Types
  <2>3. Reached = PrfCount /\ Testing = {} BY <2>2, Bounds DEF Reached, Testing
  <2> QED BY <2>1, <2>3 DEF TriesInv, Account, Trying
<1>4. Tested' = Tested /\ Admitted(PrfCount)' = Admitted(PrfCount) /\ ~Trying'
  BY DEF Tested, Admitted, Skipped, Trying
<1>5. Account' BY <1>3, <1>4 DEF Account, TriesInv
<1>6. QueuedCount' BY <1>4 DEF QueuedCount
<1> QED BY <1>1, <1>2, <1>5, <1>6 DEF TriesInv

LEMMA StepLoopSkip == ASSUME TriesInv, LoopSkip PROVE TriesInv'
<1> USE DEF LoopSkip, input
<1>1. next <= PrfCount /\ Admitted(next) = Admitted(next - 1) BY NextIsNew
<1>2. Types' BY <1>1, Bounds DEF TriesInv, Types
<1>3. Testing = {} /\ Testing' = {} /\ Trying /\ Trying' /\ ~Beginning /\ ~Beginning'
  BY DEF Testing, Trying, Beginning
<1>4. Reached' = next /\ Reached = next - 1 BY Bounds DEF Reached
<1> QED BY <1>1, <1>2, <1>3, <1>4, ReaderMoves

LEMMA StepLoopDerive == ASSUME TriesInv, LoopDerive PROVE TriesInv'
<1> USE DEF LoopDerive, RGoto, input
<1>1. next <= PrfCount /\ Admitted(next) = Admitted(next - 1) \cup {next} /\ next \notin Admitted(next - 1)
  BY NextIsNew
<1>2. Types' BY <1>1, Bounds DEF TriesInv, Types, ReaderStates
<1>3. Testing = {} /\ Testing' = {next} /\ Trying /\ Trying' /\ ~Beginning /\ ~Beginning'
  BY DEF Testing, Trying, Beginning
<1>4. Reached' = next /\ Reached = next - 1 BY Bounds DEF Reached
<1>5. Held = {} BY <1>3 DEF TriesInv, QueuedCount
<1>6. next \notin Tested BY <1>1, <1>3, <1>4 DEF TriesInv, Account
<1> QED BY <1>1, <1>2, <1>3, <1>4, <1>5, <1>6, ReaderMoves

LEMMA StepLoopFull == ASSUME TriesInv, LoopFull PROVE TriesInv'
<1> USE DEF LoopFull, RGoto, input, NextWhenFull
<1>1. Testing = {} /\ Testing' = {} /\ Trying /\ Trying' /\ ~Beginning /\ ~Beginning'
  BY DEF Testing, Trying, Beginning
<1>2. next # 1
  <2> SUFFICES ASSUME next = 1 PROVE FALSE OBVIOUS
  <2>1. Admitted(Reached) = {} BY Bounds DEF Admitted, Prfs, Reached
  <2>2. HeldPrfs = {} BY <1>1, <2>1 DEF TriesInv, Account
  <2>3. Held = {} BY <2>2 DEF HeldPrfs
  <2>4. queued = 0 BY <1>1, <2>3, NothingHeld, FS_EmptySet
  <2> QED BY <2>4, Bounds DEF HasRoom, UsesPool
<1>3. next' \in 1 .. PrfCount BY <1>2, Bounds DEF TriesInv, Types
<1>4. Types' BY <1>3, Bounds DEF TriesInv, Types, ReaderStates
<1>5. Reached' = Reached BY DEF Reached
<1> QED BY <1>1, <1>3, <1>4, <1>5, Bounds, ReaderMoves

LEMMA StepBeginCount == ASSUME TriesInv, BeginCount \/ BeginClear PROVE TriesInv'
<1> USE DEF BeginCount, BeginClear, RGoto, input
<1>1. Testing = {} /\ Testing' = {} /\ Trying /\ Trying' /\ Beginning /\ Beginning'
  BY DEF Testing, Trying, Beginning
<1>2. next <= PrfCount BY <1>1 DEF TriesInv, Account, Beginning
<1>3. Types' BY DEF TriesInv, Types, ReaderStates
<1>4. Reached' = Reached BY DEF Reached
<1> QED BY <1>1, <1>2, <1>3, <1>4, ReaderMoves

LEMMA StepLoopQueued == ASSUME TriesInv, LoopQueued PROVE TriesInv'
<1> USE DEF LoopQueued, RGoto, input
<1>1. Testing = {} /\ Testing' = {} /\ Trying /\ Trying' /\ ~Beginning /\ ~Beginning'
  BY DEF Testing, Trying, Beginning
<1>2. next <= PrfCount BY <1>1 DEF TriesInv, Account
<1>3. Types' BY <1>2, Bounds DEF TriesInv, Types, ReaderStates
<1>4. Reached' = Reached BY Bounds DEF Reached
<1>5. rPc' # "loop" => next' <= PrfCount BY <1>2
<1> QED BY <1>1, <1>3, <1>4, <1>5, ReaderMoves

LEMMA StepWaitKey == ASSUME TriesInv, WaitKey PROVE TriesInv'
<1> USE DEF WaitKey, RGoto, input
<1>1. Testing = {} /\ Testing' = {} /\ Trying /\ Trying' /\ ~Beginning /\ ~Beginning'
  BY DEF Testing, Trying, Beginning
<1>2. next <= PrfCount BY <1>1 DEF TriesInv, Account
<1>3. Types' BY DEF TriesInv, Types, ReaderStates
<1>4. Reached' = Reached BY DEF Reached
<1> QED BY <1>1, <1>2, <1>3, <1>4, ReaderMoves

LEMMA StepCleanup == ASSUME TriesInv, Cleanup PROVE TriesInv'
<1> USE DEF Cleanup, RGoto, input
<1>1. Types' BY DEF TriesInv, Types, ReaderStates
<1>2. Ownership' /\ PrfsDistinct' BY OwnershipKept DEF TriesInv, Running, Beginning
<1>3. Tested' = Tested /\ Admitted(PrfCount)' = Admitted(PrfCount) /\ ~Trying'
  BY DEF Tested, Admitted, Skipped, Trying
<1>4. Account' BY <1>3 DEF Account, TriesInv
<1>5. QueuedCount' BY <1>3 DEF QueuedCount
<1> QED BY <1>1, <1>2, <1>4, <1>5 DEF TriesInv

(***************************************************************************)
(* Taking and giving back an item, and testing its key.                     *)
(***************************************************************************)
LEMMA StepLoopEnqueue == ASSUME TriesInv, LoopEnqueue PROVE TriesInv'
<1> USE DEF LoopEnqueue, RGoto, input
<1>1. next <= PrfCount /\ Admitted(next) = Admitted(next - 1) \cup {next} /\ next \notin Admitted(next - 1)
  BY NextIsNew DEF HasRoom
<1>2. PICK n \in FreeItems :
        /\ item' = [item EXCEPT ![n] = [free |-> FALSE, ready |-> FALSE, prf |-> next, key |-> item[n].key]]
        /\ rPc' = "count"
  BY <1>1, SomeItemFree DEF FirstOf
<1>3. n \in Prfs /\ item[n].free /\ item[n] \in Items /\ n \notin Held
  BY Bounds DEF FreeItems, Held
<1>4. Trying /\ Trying' /\ ~Beginning /\ Beginning' /\ Testing = {} /\ Testing' = {}
  BY <1>2 DEF Trying, Beginning, Testing
<1>5. Reached = next - 1 /\ Reached' = next BY <1>2, Bounds DEF Reached
<1>6. /\ item'[n] = [free |-> FALSE, ready |-> FALSE, prf |-> next, key |-> item[n].key]
      /\ \A m \in Prfs : m # n => item'[m] = item[m]
  BY <1>2, <1>3, Bounds
<1>7. Held' = Held \cup {n} BY <1>3, <1>6 DEF Held
<1>8. HeldPrfs' = HeldPrfs \cup {next} BY <1>3, <1>6, <1>7 DEF HeldPrfs, Held
<1>9. \A m \in Held : item[m].prf < next
  <2> TAKE m \in Held
  <2>1. item[m].prf \in Admitted(next - 1) BY <1>4, <1>5 DEF HeldPrfs, TriesInv, Account
  <2> QED BY <2>1, Bounds DEF Admitted, Prfs
<1>10. Types'
  <2>1. item'[n] \in Items BY <1>1, <1>3, <1>6, Bounds DEF Items
  <2>2. item' \in [Prfs -> Items] BY <1>2, <1>6, <2>1, Bounds
  <2> QED BY <1>2, <2>2 DEF TriesInv, Types, ReaderStates
<1>11. QueueOwns'
  <2>1. \A k \in 1 .. Len(queue) : Unready(queue[k])' 
    <3> TAKE k \in 1 .. Len(queue)
    <3>1. Unready(queue[k]) BY DEF TriesInv, Ownership, QueueOwns
    <3>2. queue[k] \in Prfs /\ queue[k] # n BY <1>3, <3>1 DEF Unready, Held
    <3> QED BY <1>6, <1>7, <3>1, <3>2 DEF Unready
  <2> QED BY <2>1 DEF TriesInv, Ownership, QueueOwns
<1>12. \A w \in Workers : Running(w) => wItem[w] # n /\ wItem[w] \in Prfs /\ Unready(wItem[w])
  BY <1>3 DEF TriesInv, Ownership, WorkersOwn, Unready, Held
<1>13. ~InQueue(n) BY <1>3 DEF InQueue, TriesInv, Ownership, QueueOwns, Unready
<1>14. WorkersOwn'
  <2>1. \A w \in Workers : Running(w) => Unready(wItem[w])' BY <1>6, <1>7, <1>12 DEF Unready
  <2> QED BY <2>1 DEF TriesInv, Ownership, WorkersOwn, Running, InQueue
<1>15. ReaderOwns'
  <2>1. \A m \in Held' : item'[m].prf = next => m = n BY <1>6, <1>7, <1>9, <1>3, Bounds DEF Held, Items
  <2>2. n \in Held' /\ item'[n].prf = next /\ ~item'[n].ready BY <1>6, <1>7
  <2> QED BY <2>1, <2>2, <1>12, <1>13 DEF ReaderOwns, InQueue, Running
<1>16. Keys'
  <2>1. \A m \in Held' : item'[m].ready => m \in Held /\ item'[m] = item[m] BY <1>6, <1>7 DEF Held
  <2>2. \A w \in Workers : wPc[w] = "flag" => item'[wItem[w]] = item[wItem[w]]
    BY <1>6, <1>12 DEF Running
  <2> QED BY <2>1, <2>2 DEF TriesInv, Ownership, Keys
<1>17. PrfsDistinct'
  <2>1. \A m \in Held : item'[m].prf < next /\ item'[m] = item[m] BY <1>3, <1>6, <1>9 DEF Held
  <2> QED BY <1>6, <1>7, <2>1, Bounds DEF PrfsDistinct, TriesInv
<1>18. Account'
  <2>1. Tested' = Tested /\ \A k : Admitted(k)' = Admitted(k) BY DEF Tested, Admitted, Skipped
  <2>2. Tested \cup HeldPrfs = Admitted(next - 1) /\ Tested \cap HeldPrfs = {} /\ ~abort /\ status = "none"
    BY <1>4, <1>5 DEF TriesInv, Account
  <2>3. Tested \cup HeldPrfs' = Admitted(next) /\ Tested \cap HeldPrfs' = {} BY <1>1, <1>8, <2>2
  <2> QED BY <1>1, <1>4, <1>5, <2>1, <2>2, <2>3 DEF TriesInv, Account
<1>19. QueuedCount'
  <2>1. Cardinality(Held) = queued BY <1>4, NothingHeld
  <2>2. Cardinality(Held') = queued + 1 BY <1>3, <1>7, <2>1, HeldFinite, FS_AddElement
  <2> QED BY <1>4, <2>2 DEF QueuedCount, UsesPool
<1> QED BY <1>10, <1>11, <1>14, <1>15, <1>16, <1>17, <1>18, <1>19 DEF TriesInv, Ownership

LEMMA StepBeginEnqueue == ASSUME TriesInv, BeginEnqueue PROVE TriesInv'
<1> USE DEF BeginEnqueue, RGoto, input
<1>1. Trying /\ Trying' /\ Beginning /\ ~Beginning' /\ Testing = {} /\ Testing' = {}
  BY DEF Trying, Beginning, Testing
<1> DEFINE n == Enqueued
<1>2. n \in Held /\ item[n].prf = next BY <1>1 DEF Enqueued, Held, TriesInv, Ownership, ReaderOwns
<1>3. Unready(n) /\ ~InQueue(n) /\ \A w \in Workers : Running(w) => wItem[w] # n
  BY <1>1, <1>2 DEF TriesInv, Ownership, ReaderOwns, Unready
<1>4. n \in Prfs BY <1>2 DEF Held
<1> HIDE DEF n
<1>5. queue' = Append(queue, n) BY DEF n
<1>6. /\ Len(queue') = Len(queue) + 1 /\ Len(queue) \in Nat /\ queue'[Len(queue) + 1] = n
      /\ \A k \in 1 .. Len(queue) : queue'[k] = queue[k]
  BY <1>4, <1>5 DEF TriesInv, Types
<1>7. Types' BY <1>4, <1>5 DEF TriesInv, Types, ReaderStates
<1>8. Held' = Held /\ HeldPrfs' = HeldPrfs /\ (\A m : Unready(m)' <=> Unready(m))
  BY DEF Held, HeldPrfs, Unready
<1>9. QueueOwns'
  <2>1. \A k \in 1 .. Len(queue') : k \in 1 .. Len(queue) \/ k = Len(queue) + 1 BY <1>6
  <2>2. \A k \in 1 .. Len(queue') : Unready(queue'[k]) BY <1>3, <1>6, <2>1 DEF TriesInv, Ownership, QueueOwns
  <2>3. \A k \in 1 .. Len(queue) : queue[k] # n BY <1>3 DEF InQueue
  <2>4. \A j, k \in 1 .. Len(queue') : queue'[j] = queue'[k] => j = k
    BY <1>6, <2>1, <2>3 DEF TriesInv, Ownership, QueueOwns
  <2> QED BY <1>8, <2>2, <2>4 DEF QueueOwns
<1>10. \A m : InQueue(m)' => InQueue(m) \/ m = n BY <1>6 DEF InQueue
<1>11. WorkersOwn' BY <1>3, <1>8, <1>10 DEF TriesInv, Ownership, WorkersOwn, Running
<1>12. ReaderOwns' /\ Keys' /\ PrfsDistinct' BY <1>1, <1>8 DEF TriesInv, Ownership, ReaderOwns, Keys, PrfsDistinct
<1>13. Account'
  <2>1. Tested' = Tested /\ (\A k : Admitted(k)' = Admitted(k)) /\ Reached' = Reached
    BY <1>1 DEF Tested, Admitted, Skipped, Reached, Beginning
  <2>2. next <= PrfCount BY <1>1 DEF TriesInv, Account, Beginning
  <2> QED BY <1>1, <1>8, <2>1, <2>2 DEF TriesInv, Account
<1>14. QueuedCount' BY <1>1, <1>8, Bounds DEF TriesInv, QueuedCount, UsesPool
<1> QED BY <1>7, <1>9, <1>11, <1>12, <1>13, <1>14 DEF TriesInv, Ownership

LEMMA StepScan == ASSUME TriesInv, Scan PROVE TriesInv'
<1> USE DEF Scan, RGoto, input
<1>1. Trying /\ ~Beginning /\ Testing = {} BY DEF Trying, Beginning, Testing
<1>2. next <= PrfCount BY <1>1 DEF TriesInv, Account
<1>3. CASE queued = 0
  <2>1. Trying' /\ ~Beginning' /\ Testing' = {} BY <1>3 DEF Trying, Beginning, Testing
  <2>2. Types' BY <1>2, <1>3, Bounds DEF TriesInv, Types, ReaderStates
  <2>3. Reached' = Reached BY <1>3, Bounds DEF Reached
  <2> QED BY <1>1, <1>3, <2>1, <2>2, <2>3, ReaderMoves
<1>4. CASE queued # 0 /\ ReadyItems = {}
  <2>1. Trying' /\ ~Beginning' /\ Testing' = {} BY <1>4 DEF Trying, Beginning, Testing
  <2>2. Types' BY <1>4 DEF TriesInv, Types, ReaderStates
  <2>3. Reached' = Reached BY <1>4 DEF Reached
  <2> QED BY <1>1, <1>2, <1>4, <2>1, <2>2, <2>3, ReaderMoves
<1>5. CASE queued # 0 /\ ReadyItems # {}
  <2>1. PICK n \in ReadyItems :
          /\ dk' = item[n].key /\ item' = [item EXCEPT ![n].free = TRUE]
          /\ queued' = queued - 1 /\ rPc' = "test" /\ next' = next
    BY <1>5 DEF FirstOf
  <2>2. n \in Held /\ n \in Prfs /\ item[n].ready /\ item[n] \in Items
    BY Bounds DEF ReadyItems, KeyIsReady, Held
  <2>3. Trying' /\ ~Beginning' /\ Testing' = {dk'} /\ Reached' = Reached
    BY <2>1 DEF Trying, Beginning, Testing, Reached
  <2>4. dk' = item[n].prf BY <1>1, <2>1, <2>2 DEF TriesInv, Ownership, Keys, Account
  <2>5. item'[n] = [item[n] EXCEPT !.free = TRUE] /\ \A m \in Prfs : m # n => item'[m] = item[m]
    BY <2>1, <2>2, Bounds
  <2>6. Held' = Held \ {n}
    <3>1. item'[n].free BY <2>2, <2>5 DEF Items
    <3> QED BY <2>2, <2>5, <3>1 DEF Held
  <2>7. HeldPrfs' = HeldPrfs \ {dk'} /\ dk' \in HeldPrfs
    <3>1. \A m \in Held' : m \in Held /\ item'[m] = item[m] /\ item[m].prf # dk'
      BY <2>2, <2>4, <2>5, <2>6 DEF Held, TriesInv, PrfsDistinct
    <3>2. \A m \in Held : item[m].prf # dk' => m \in Held' BY <2>4, <2>6
    <3> QED BY <2>2, <2>4, <3>1, <3>2 DEF HeldPrfs
  <2>8. Types'
    <3>1. item'[n] \in Items BY <2>2, <2>5 DEF Items
    <3>2. item' \in [Prfs -> Items] BY <2>1, <2>5, <3>1, Bounds
    <3>3. dk' \in 0 .. PrfCount BY <2>2, <2>4 DEF Items
    <3> QED BY <2>1, <3>2, <3>3, Bounds DEF TriesInv, Types, ReaderStates
  <2>9. \A m : Unready(m) => Unready(m)'
    BY <2>2, <2>5, <2>6 DEF Unready, Held
  <2>10. \A m \in Held' : m \in Held /\ item'[m] = item[m] BY <2>5, <2>6 DEF Held
  <2>11. QueueOwns' BY <2>9 DEF TriesInv, Ownership, QueueOwns
  <2>12. WorkersOwn' BY <2>9 DEF TriesInv, Ownership, WorkersOwn, Running, InQueue
  <2>13. ReaderOwns' BY <2>3 DEF ReaderOwns
  <2>14. Keys'
    <3>1. \A w \in Workers : wPc[w] = "flag" => wItem[w] \in Prfs /\ wItem[w] # n
      BY <2>2 DEF TriesInv, Ownership, WorkersOwn, Running, Unready, Held
    <3> QED BY <2>5, <2>10, <3>1 DEF TriesInv, Ownership, Keys
  <2>15. PrfsDistinct' BY <2>10 DEF TriesInv, PrfsDistinct
  <2>16. Account'
    <3>1. Tested' = Tested /\ \A k : Admitted(k)' = Admitted(k) BY DEF Tested, Admitted, Skipped
    <3>2. Tested \cup HeldPrfs = Admitted(Reached) /\ Tested \cap HeldPrfs = {} /\ ~abort /\ status = "none"
      BY <1>1 DEF TriesInv, Account
    <3>3. /\ Tested \cup HeldPrfs' \cup {dk'} = Admitted(Reached) /\ Tested \cap HeldPrfs' = {}
          /\ Tested \cap {dk'} = {} /\ HeldPrfs' \cap {dk'} = {}
      BY <2>7, <3>2
    <3> QED BY <1>2, <2>1, <2>3, <3>1, <3>2, <3>3 DEF TriesInv, Account
  <2>17. QueuedCount'
    <3>1. Cardinality(Held) = queued /\ queued \in Nat /\ (~UsesPool => queued = 0) BY <1>1, NothingHeld
    <3>2. Cardinality(Held') = queued - 1 BY <2>2, <2>6, <3>1, HeldFinite, FS_RemoveElement
    <3> QED BY <1>5, <2>1, <2>3, <3>1, <3>2 DEF QueuedCount, UsesPool
  <2> QED BY <2>8, <2>11, <2>12, <2>13, <2>14, <2>15, <2>16, <2>17 DEF TriesInv, Ownership
<1> QED BY <1>3, <1>4, <1>5

LEMMA StepTest == ASSUME TriesInv, Test PROVE TriesInv'
<1> USE DEF Test, RGoto, input
<1>1. Trying /\ ~Beginning /\ ~Beginning' /\ Testing = {dk} /\ Testing' = {}
  BY DEF Trying, Beginning, Testing
<1>2. /\ Tested \cup HeldPrfs \cup {dk} = Admitted(Reached) /\ Tested \cap HeldPrfs = {}
      /\ dk \notin Tested /\ dk \notin HeldPrfs /\ ~abort /\ status = "none" /\ next <= PrfCount
  BY <1>1 DEF TriesInv, Account
<1>3. /\ Len(tested) \in Nat /\ DOMAIN tested = 1 .. Len(tested)
      /\ DOMAIN tested' = 1 .. Len(tested) + 1 /\ tested'[Len(tested) + 1] = dk
      /\ \A k \in 1 .. Len(tested) : tested'[k] = tested[k]
      /\ tested' \in Seq(0 .. PrfCount)
  BY DEF TriesInv, Types
<1>4. Tested' = Tested \cup {dk}
  <2>1. \A k \in DOMAIN tested' : k \in 1 .. Len(tested) \/ k = Len(tested) + 1 BY <1>3
  <2>2. Len(tested) + 1 \in DOMAIN tested' /\ \A k \in DOMAIN tested : k \in DOMAIN tested' BY <1>3
  <2> QED BY <1>3, <2>1, <2>2 DEF Tested
<1>5. Verdict(dk) \in Verdicts BY DEF Verdict, Verdicts, TriesInv, Types
<1>6. Types'
  <2>1. UNCHANGED <<input, queued, item, dk, queue, wPc, wItem>> OBVIOUS
  <2>2. rPc' \in ReaderStates /\ next' \in 1 .. PrfCount + 1 BY <1>2, Bounds DEF ReaderStates, TriesInv, Types
  <2>3. {abort'} \subseteq BOOLEAN
    <3>1. abort' = abort \/ abort' = (UsesPool \/ status' = "refused") OBVIOUS
    <3> QED BY <3>1 DEF TriesInv, Types
  <2>4. status' \in Verdicts \cup {"none"} BY <1>5 DEF TriesInv, Types
  <2> QED BY <1>3, <2>1, <2>2, <2>3, <2>4 DEF TriesInv, Types
<1>7. Ownership' /\ PrfsDistinct' BY <1>1, <1>2, OwnershipKept DEF TriesInv, Running
<1>8. Held' = Held /\ HeldPrfs' = HeldPrfs /\ \A k : Admitted(k)' = Admitted(k)
  BY DEF Held, HeldPrfs, Admitted, Skipped
<1>9. \A j, k \in DOMAIN tested' : j # k => tested'[j] # tested'[k]
  <2>1. \A k \in DOMAIN tested : tested[k] # dk BY <1>2 DEF Tested
  <2>2. \A k \in DOMAIN tested' : k \in 1 .. Len(tested) \/ k = Len(tested) + 1 BY <1>3
  <2>3. \A j, k \in DOMAIN tested : j # k => tested[j] # tested[k] BY DEF TriesInv, Account
  <2> QED BY <1>3, <2>1, <2>2, <2>3
<1>10. Reached = next BY DEF Reached
<1>11. Tested \cup {dk} \subseteq Admitted(PrfCount)
  <2>1. Admitted(next) \subseteq Admitted(PrfCount) BY <1>2, Bounds DEF Admitted, Prfs
  <2> QED BY <1>2, <1>10, <2>1
<1>12. Account'
  <2>1. CASE Verdict(dk) = "wrong"
    <3>1. rPc' = "loop" /\ status' = status /\ abort' = abort /\ Reached' = next
      BY <2>1, Bounds DEF Reached
    <3> QED BY <1>1, <1>2, <1>4, <1>8, <1>9, <1>10, <1>11, <3>1 DEF Account
  <2>2. CASE Verdict(dk) # "wrong"
    <3>1. ~Trying' /\ status' # "wrong" BY <2>2 DEF Trying
    <3> QED BY <1>4, <1>8, <1>9, <1>11, <3>1 DEF Account
  <2> QED BY <2>1, <2>2
<1>13. QueuedCount' BY <1>1, <1>8 DEF TriesInv, QueuedCount, UsesPool
<1> QED BY <1>6, <1>7, <1>12, <1>13 DEF TriesInv

(***************************************************************************)
(* The workers.                                                             *)
(***************************************************************************)
LEMMA StepTake == ASSUME TriesInv, NEW w \in Workers, Take(w) PROVE TriesInv'
<1> USE DEF Take, WGoto, input, reader
<1> DEFINE n == Head(queue)
<1>1. queue \in Seq(Prfs) /\ queue # <<>> BY DEF TriesInv, Types
<1>2. /\ Len(queue) \in Nat /\ Len(queue) >= 1 /\ n = queue[1] /\ n \in Prfs
      /\ queue' \in Seq(Prfs) /\ Len(queue') = Len(queue) - 1
      /\ \A k \in 1 .. Len(queue) - 1 : queue'[k] = queue[k + 1]
  BY <1>1
<1>3. wItem' = [wItem EXCEPT ![w] = n] OBVIOUS
<1> HIDE DEF n
<1>4. Types' BY <1>2, <1>3 DEF TriesInv, Types, WorkerStates
<1>5. /\ wPc'[w] = "derive" /\ wItem'[w] = n /\ wPc[w] = "idle"
      /\ \A v \in Workers : v # w => wPc'[v] = wPc[v] /\ wItem'[v] = wItem[v]
  BY <1>3 DEF TriesInv, Types
<1>6. Held' = Held /\ HeldPrfs' = HeldPrfs /\ \A m : Unready(m)' <=> Unready(m)
  BY DEF Held, HeldPrfs, Unready
<1>7. InQueue(n) /\ Unready(n) BY <1>2 DEF InQueue, TriesInv, Ownership, QueueOwns
<1>8. QueueOwns' BY <1>2, <1>6 DEF TriesInv, Ownership, QueueOwns
<1>9. \A m : InQueue(m)' => InQueue(m) /\ m # n
  <2> SUFFICES ASSUME NEW m, NEW k \in 1 .. Len(queue'), queue'[k] = m PROVE InQueue(m) /\ m # n
    BY DEF InQueue
  <2>1. k + 1 \in 1 .. Len(queue) /\ k + 1 # 1 /\ queue[k + 1] = m /\ 1 \in 1 .. Len(queue) BY <1>2
  <2> QED BY <2>1, <1>2 DEF InQueue, TriesInv, Ownership, QueueOwns
<1>10. \A v \in Workers : Running(v)' => v = w \/ (Running(v) /\ wItem'[v] = wItem[v] /\ wItem[v] # n)
  BY <1>5, <1>7 DEF Running, TriesInv, Ownership, WorkersOwn
<1>11. WorkersOwn'
  <2>1. \A v \in Workers : Running(v)' => Unready(wItem[v])' /\ ~InQueue(wItem[v])'
    <3> SUFFICES ASSUME NEW v \in Workers, Running(v)' PROVE Unready(wItem[v])' /\ ~InQueue(wItem[v])'
      OBVIOUS
    <3>1. Unready(wItem'[v]) /\ ~InQueue(wItem[v])'
      BY <1>5, <1>7, <1>9, <1>10 DEF TriesInv, Ownership, WorkersOwn, InQueue
    <3> QED BY <3>1, <1>6 DEF Unready
  <2>2. \A u, v \in Workers : Running(u)' /\ Running(v)' /\ wItem'[u] = wItem'[v] => u = v
    BY <1>5, <1>10 DEF TriesInv, Ownership, WorkersOwn
  <2> QED BY <2>1, <2>2 DEF WorkersOwn
<1>12. ReaderOwns'
  <2> SUFFICES ASSUME Beginning PROVE ReaderOwns' BY DEF ReaderOwns, Beginning
  <2>1. \A m \in Held : item[m].prf = next =>
          m # n /\ ~item[m].ready /\ ~InQueue(m) /\ \A v \in Workers : Running(v) => wItem[v] # m
    BY <1>7 DEF TriesInv, Ownership, ReaderOwns
  <2>2. \E m \in Held : item[m].prf = next BY DEF TriesInv, Ownership, ReaderOwns
  <2> QED BY <1>5, <1>6, <1>9, <1>10, <2>1, <2>2 DEF ReaderOwns
<1>13. Keys' BY <1>5, <1>6 DEF TriesInv, Ownership, Keys
<1>14. PrfsDistinct' BY <1>6 DEF TriesInv, PrfsDistinct
<1>15. Account' /\ QueuedCount' BY <1>6, AccountKept DEF TriesInv
<1> QED BY <1>4, <1>8, <1>11, <1>12, <1>13, <1>14, <1>15 DEF TriesInv, Ownership

LEMMA StepDerive == ASSUME TriesInv, NEW w \in Workers, Derive(w) PROVE TriesInv'
<1> USE DEF Derive, WGoto, input, reader
<1> DEFINE n == wItem[w]
<1>1. wPc[w] = "derive" /\ Unready(n) /\ n \in Prfs /\ n \in Held
  BY DEF TriesInv, Types, Ownership, WorkersOwn, Running, Unready
<1>2. PICK k \in {item[n].prf} \cup (IF abort THEN {0} ELSE {}) : item' = [item EXCEPT ![n].key = k]
  OBVIOUS
<1> HIDE DEF n
<1>3. k \in 0 .. PrfCount BY <1>1, Bounds DEF Items
<1>4. /\ item'[n] = [item[n] EXCEPT !.key = k] /\ item'[n] \in Items
      /\ item'[n].key = k /\ item'[n].free = item[n].free /\ item'[n].ready = item[n].ready /\ item'[n].prf = item[n].prf
      /\ \A m \in Prfs : m # n => item'[m] = item[m]
  BY <1>1, <1>2, <1>3, Bounds DEF Items
<1>5. Types'
  <2>1. item' \in [Prfs -> Items] BY <1>2, <1>4, Bounds
  <2> QED BY <2>1 DEF TriesInv, Types, WorkerStates
<1>6. \A m \in Prfs : item'[m].free = item[m].free /\ item'[m].ready = item[m].ready /\ item'[m].prf = item[m].prf
  BY <1>4
<1>7. Held' = Held /\ HeldPrfs' = HeldPrfs /\ \A m : Unready(m)' <=> Unready(m)
  <2>1. Held' = Held BY <1>6 DEF Held
  <2>2. HeldPrfs' = HeldPrfs BY <1>6, <2>1 DEF HeldPrfs, Held
  <2> QED BY <1>6, <2>1, <2>2 DEF Unready, Held
<1>8. wPc'[w] = "flag" /\ \A v \in Workers : v # w => wPc'[v] = wPc[v] BY DEF TriesInv, Types
<1>9. \A v \in Workers : Running(v)' <=> Running(v) BY <1>1, <1>8 DEF Running
<1>10. QueueOwns' BY <1>7 DEF TriesInv, Ownership, QueueOwns
<1>11. WorkersOwn' BY <1>7, <1>9 DEF TriesInv, Ownership, WorkersOwn, InQueue
<1>12. ReaderOwns'
  <2> SUFFICES ASSUME Beginning PROVE ReaderOwns' BY DEF ReaderOwns, Beginning
  <2>1. \A m \in Held : item'[m].prf = item[m].prf /\ item'[m].ready = item[m].ready BY <1>6 DEF Held
  <2>2. /\ \E m \in Held : item[m].prf = next
        /\ \A m \in Held : item[m].prf = next =>
              ~item[m].ready /\ ~InQueue(m) /\ \A v \in Workers : Running(v) => wItem[v] # m
    BY DEF TriesInv, Ownership, ReaderOwns
  <2> QED BY <1>7, <1>9, <2>1, <2>2 DEF ReaderOwns, InQueue
<1>13. Keys'
  <2> SUFFICES ASSUME ~abort PROVE Keys' BY DEF Keys
  <2>1. k = item[n].prf OBVIOUS
  <2>2. \A m \in Held : item'[m].ready => item'[m].key = item'[m].prf
    BY <1>1, <1>4 DEF TriesInv, Ownership, Keys, Unready, Held
  <2>3. \A v \in Workers : wPc'[v] = "flag" => item'[wItem[v]].key = item'[wItem[v]].prf
    <3> TAKE v \in Workers
    <3> HAVE wPc'[v] = "flag"
    <3>1. CASE v = w BY <1>4, <2>1, <3>1 DEF n
    <3>2. CASE v # w
      <4>1. wPc[v] = "flag" /\ wItem[v] \in Prfs BY <1>8, <3>2 DEF TriesInv, Types
      <4>2. wItem[v] # n BY <1>1, <3>2, <4>1 DEF n, Running, TriesInv, Ownership, WorkersOwn
      <4> QED BY <1>4, <4>1, <4>2 DEF TriesInv, Ownership, Keys
    <3> QED BY <3>1, <3>2
  <2> QED BY <1>7, <2>2, <2>3 DEF Keys
<1>14. PrfsDistinct' BY <1>6, <1>7 DEF TriesInv, PrfsDistinct, Held
<1>15. Account' /\ QueuedCount' BY <1>7, AccountKept DEF TriesInv
<1> QED BY <1>5, <1>10, <1>11, <1>12, <1>13, <1>14, <1>15 DEF TriesInv, Ownership

LEMMA ReadySet ==
  ASSUME NEW r \in Items, NEW s, s = [r EXCEPT !.ready = TRUE]
  PROVE  s \in Items /\ s.ready /\ s.free = r.free /\ s.prf = r.prf /\ s.key = r.key
<1>1. s = [free |-> r.free, ready |-> TRUE, prf |-> r.prf, key |-> r.key] BY DEF Items
<1>2. s \in Items BY <1>1 DEF Items
<1> QED BY <1>1, <1>2

LEMMA StepSetFlag == ASSUME TriesInv, NEW w \in Workers, SetFlag(w) PROVE TriesInv'
<1> USE DEF SetFlag, WGoto, input, reader
<1> DEFINE n == wItem[w]
<1>1. wPc[w] = "flag" /\ Unready(n) /\ ~InQueue(n) /\ n \in Prfs /\ n \in Held
  BY DEF TriesInv, Types, Ownership, WorkersOwn, Running, Unready
<1>2. item' = [item EXCEPT ![n].ready = TRUE] OBVIOUS
<1>3. ~abort => item[n].key = item[n].prf BY <1>1 DEF TriesInv, Ownership, Keys
<1>4. \A v \in Workers : v # w /\ Running(v) => wItem[v] # n
  BY <1>1 DEF TriesInv, Ownership, WorkersOwn, Running
<1> HIDE DEF n
<1>5. /\ item'[n] \in Items /\ item'[n].ready
      /\ item'[n].free = item[n].free /\ item'[n].prf = item[n].prf /\ item'[n].key = item[n].key
      /\ \A m \in Prfs : m # n => item'[m] = item[m]
  <2>1. item[n] \in Items /\ item \in [Prfs -> Items] BY <1>1, Bounds
  <2>2. /\ item'[n] = [item[n] EXCEPT !.ready = TRUE]
        /\ \A m \in Prfs : m # n => item'[m] = item[m]
    BY <1>1, <1>2, <2>1
  <2> QED BY <2>1, <2>2, ReadySet
<1>6. Types'
  <2>1. item' \in [Prfs -> Items] BY <1>2, <1>5, Bounds
  <2> QED BY <2>1 DEF TriesInv, Types, WorkerStates
<1>7. \A m \in Prfs : item'[m].free = item[m].free /\ item'[m].prf = item[m].prf /\ item'[m].key = item[m].key
  BY <1>5
<1>8. Held' = Held /\ HeldPrfs' = HeldPrfs
  <2>1. Held' = Held BY <1>7 DEF Held
  <2> QED BY <1>7, <2>1 DEF HeldPrfs, Held
<1>9. \A m : Unready(m) /\ m # n => Unready(m)' BY <1>5, <1>8 DEF Unready, Held
<1>10. wPc'[w] = "signal" /\ \A v \in Workers : v # w => wPc'[v] = wPc[v] BY DEF TriesInv, Types
<1>11. \A v \in Workers : Running(v)' => Running(v) /\ v # w BY <1>10 DEF Running
<1>12. QueueOwns' BY <1>1, <1>9 DEF TriesInv, Ownership, QueueOwns, InQueue
<1>13. WorkersOwn'
  <2>1. \A v \in Workers : Running(v)' => Unready(wItem[v])' /\ ~InQueue(wItem[v])
    BY <1>4, <1>9, <1>11 DEF TriesInv, Ownership, WorkersOwn
  <2>2. \A u, v \in Workers : Running(u)' /\ Running(v)' /\ wItem[u] = wItem[v] => u = v
    BY <1>11 DEF TriesInv, Ownership, WorkersOwn
  <2> QED BY <2>1, <2>2 DEF WorkersOwn, InQueue
<1>14. ReaderOwns'
  <2> SUFFICES ASSUME Beginning PROVE ReaderOwns' BY DEF ReaderOwns, Beginning
  <2>1. /\ \E m \in Held : item[m].prf = next
        /\ \A m \in Held : item[m].prf = next =>
              ~item[m].ready /\ ~InQueue(m) /\ \A v \in Workers : Running(v) => wItem[v] # m
    BY DEF TriesInv, Ownership, ReaderOwns
  <2>2. \A m \in Held : item'[m].prf = item[m].prf BY <1>7 DEF Held
  <2>3. \A m \in Held : item[m].prf = next => m # n BY <1>1, <2>1 DEF n, Running
  <2>4. \A m \in Held : item'[m].prf = next =>
          ~item'[m].ready /\ ~InQueue(m) /\ \A v \in Workers : Running(v)' => wItem[v] # m
    BY <1>5, <1>11, <2>1, <2>2, <2>3 DEF Held
  <2> QED BY <1>8, <2>1, <2>2, <2>4 DEF ReaderOwns, InQueue
<1>15. Keys'
  <2> SUFFICES ASSUME ~abort PROVE Keys' BY DEF Keys
  <2>1. \A m \in Held : item'[m].ready => item'[m].key = item'[m].prf
    BY <1>3, <1>5 DEF TriesInv, Ownership, Keys, Held
  <2>2. \A v \in Workers : wPc'[v] = "flag" => item'[wItem[v]].key = item'[wItem[v]].prf
    <3> TAKE v \in Workers
    <3> HAVE wPc'[v] = "flag"
    <3>1. v # w /\ wPc[v] = "flag" /\ wItem[v] \in Prfs BY <1>10 DEF TriesInv, Types
    <3> QED BY <1>7, <3>1 DEF TriesInv, Ownership, Keys
  <2> QED BY <1>8, <2>1, <2>2 DEF Keys
<1>16. PrfsDistinct' BY <1>7, <1>8 DEF TriesInv, PrfsDistinct, Held
<1>17. Account' /\ QueuedCount' BY <1>8, AccountKept DEF TriesInv
<1> QED BY <1>6, <1>12, <1>13, <1>14, <1>15, <1>16, <1>17 DEF TriesInv, Ownership

LEMMA StepSignal ==
  ASSUME TriesInv, NEW w \in Workers, SignalCompleted(w) \/ Discount(w) \/ SignalNone(w)
  PROVE  TriesInv'
<1> USE DEF SignalCompleted, Discount, SignalNone, WGoto, input, reader
<1>1. /\ wPc[w] \in {"signal", "discount", "none"} /\ wPc'[w] \in {"discount", "idle", "none"}
      /\ \A v \in Workers : v # w => wPc'[v] = wPc[v]
  BY DEF TriesInv, Types
<1>2. Types' BY DEF TriesInv, Types, WorkerStates
<1>3. \A v \in Workers : (Running(v)' => Running(v)) /\ ((wPc[v] = "flag")' => wPc[v] = "flag")
  BY <1>1 DEF Running
<1>4. Beginning' => Beginning BY DEF Beginning
<1>5. Ownership' /\ PrfsDistinct' BY <1>3, <1>4, OwnershipKept DEF TriesInv
<1>6. Held' = Held /\ HeldPrfs' = HeldPrfs BY DEF Held, HeldPrfs
<1>7. Account' /\ QueuedCount' BY <1>6, AccountKept DEF TriesInv
<1> QED BY <1>2, <1>5, <1>7 DEF TriesInv

LEMMA Stutter == ASSUME TriesInv, UNCHANGED vars PROVE TriesInv'
<1> USE DEF vars, input, reader
<1>1. Types' BY DEF TriesInv, Types
<1>2. Ownership' /\ PrfsDistinct' BY OwnershipKept DEF TriesInv, Running, Beginning
<1>3. Held' = Held /\ HeldPrfs' = HeldPrfs BY DEF Held, HeldPrfs
<1>4. Account' /\ QueuedCount' BY <1>3, AccountKept DEF TriesInv
<1> QED BY <1>1, <1>2, <1>4 DEF TriesInv

(***************************************************************************)
(* The theorems.                                                            *)
(***************************************************************************)
LEMMA TriesInvHolds == Spec => []TriesInv
<1>1. Init => TriesInv BY TypesInit
<1>2. TriesInv /\ [Next]_vars => TriesInv'
  <2> SUFFICES ASSUME TriesInv, [Next]_vars PROVE TriesInv' OBVIOUS
  <2>1. CASE Reader
    BY <2>1, StepLoopEnd, StepLoopSkip, StepLoopDerive, StepLoopEnqueue, StepLoopFull, StepBeginCount,
       StepBeginEnqueue, StepLoopQueued, StepScan, StepWaitKey, StepTest, StepCleanup DEF Reader
  <2>2. ASSUME NEW w \in Workers, Worker(w) PROVE TriesInv'
    BY <2>2, StepTake, StepDerive, StepSetFlag, StepSignal DEF Worker
  <2>3. CASE UNCHANGED vars BY <2>3, Stutter
  <2> QED BY <2>1, <2>2, <2>3 DEF Next
<1> QED BY <1>1, <1>2, PTL DEF Spec

\* ReadVolumeHeader, with any number of PRFs, threads and derivations at a
\* time: no PRF is tested twice, no skipped one is tested, and the password is
\* called wrong only after the key of every admitted PRF has been tested.
THEOREM TriesEveryPrf == Spec => []EveryPrfTriedOnce
<1>1. TriesInv => EveryPrfTriedOnce
  <2> SUFFICES ASSUME TriesInv PROVE EveryPrfTriedOnce OBVIOUS
  <2>1. Admitted(PrfCount) = {p \in Prfs : ~Skipped(p)} BY Bounds DEF Admitted, Prfs
  <2> QED BY <2>1 DEF TriesInv, Account, EveryPrfTriedOnce
<1> QED BY <1>1, TriesInvHolds, PTL

\* An item marked free, which the reader may take for another PRF, is in no
\* worker's hands until the reader has told the workers to abort.
THEOREM FreeItemsAreFree == Spec => []FreeItemsUntouched
<1>1. TriesInv => FreeItemsUntouched
  BY DEF TriesInv, Ownership, WorkersOwn, Running, Unready, Held, FreeItemsUntouched
<1> QED BY <1>1, TriesInvHolds, PTL

(***************************************************************************)
(* The key that is tested belongs to the PRF that will be reported.         *)
(***************************************************************************)
ResultInv ==
  /\ rPc = "test" => dk = prf
  /\ status = "none" => \A k \in 1 .. Len(tested) : Verdict(tested[k]) = "wrong"
  /\ ResultNamesPrf

\* Most steps change neither the key nor the result.
LEMMA ResultKept ==
  ASSUME ResultInv, UNCHANGED <<input, dk, prf, tested, status>>, rPc' = "test" => rPc = "test"
  PROVE  ResultInv'
BY DEF ResultInv, ResultNamesPrf, Verdict, input

\* A complete key is the key of the PRF of its item.
LEMMA ResultScan == ASSUME TriesInv, ResultInv, Scan PROVE ResultInv'
<1>1. rPc' = "test" => dk' = prf'
  <2> SUFFICES ASSUME rPc' = "test" PROVE dk' = prf' OBVIOUS
  <2>1. PICK n \in ReadyItems : dk' = item[n].key /\ prf' = item[n].prf
    BY DEF Scan, RGoto, FirstOf, PrfOf
  <2>2. ~abort BY DEF Scan, TriesInv, Account, Trying
  <2>3. n \in Held /\ item[n].ready BY DEF ReadyItems, KeyIsReady, Held
  <2> QED BY <2>1, <2>2, <2>3 DEF TriesInv, Ownership, Keys
<1>2. status = "none" /\ UNCHANGED <<input, status, tested>>
  BY DEF Scan, TriesInv, Account, Trying
<1>3. \A p : Verdict(p)' = Verdict(p)
  BY <1>2 DEF Verdict, input
<1> QED BY <1>1, <1>2, <1>3 DEF ResultInv, ResultNamesPrf

LEMMA ResultTest == ASSUME TriesInv, ResultInv, Test PROVE ResultInv'
<1> USE DEF Test, RGoto, input
<1>1. /\ dk = prf /\ status = "none" /\ UNCHANGED <<verdict, dk, prf>>
      /\ \A k \in 1 .. Len(tested) : Verdict(tested[k]) = "wrong"
  BY DEF ResultInv, TriesInv, Account, Trying
<1>2. /\ Len(tested) \in Nat /\ Len(tested') = Len(tested) + 1 /\ tested'[Len(tested) + 1] = dk
      /\ \A k \in 1 .. Len(tested) : tested'[k] = tested[k]
  BY DEF TriesInv, Types
<1>3. \A p : Verdict(p)' = Verdict(p) BY <1>1 DEF Verdict
<1>4. \A k \in 1 .. Len(tested) : Verdict(tested'[k]) = "wrong" BY <1>1, <1>2
<1>5. CASE Verdict(dk) = "wrong"
  <2>1. rPc' = "loop" /\ status' = "none" BY <1>1, <1>5
  <2>2. \A k \in 1 .. Len(tested') : k \in 1 .. Len(tested) \/ k = Len(tested) + 1 BY <1>2
  <2>3. \A k \in 1 .. Len(tested') : Verdict(tested'[k]) = "wrong" BY <1>2, <1>4, <1>5, <2>2
  <2> QED BY <1>3, <2>1, <2>3 DEF ResultInv, ResultNamesPrf
<1>6. CASE Verdict(dk) # "wrong"
  <2>1. rPc' = "cleanup" /\ status' = Verdict(dk) BY <1>6
  <2>2. dk \in Prfs /\ verdict[dk] = status' BY <1>6, <2>1 DEF Verdict
  <2>3. Verdict(dk) # "none" BY <2>2, <2>1 DEF TriesInv, Types, Verdicts
  <2>4. Len(tested') - 1 = Len(tested) BY <1>2
  <2>5. \A k \in 1 .. Len(tested') - 1 : Verdict(tested'[k]) = "wrong" BY <1>4, <2>4
  <2>6. dk' = prf' /\ verdict'[prf'] = status' BY <1>1, <2>2
  <2> QED BY <1>3, <2>1, <2>3, <2>5, <2>6 DEF ResultInv, ResultNamesPrf
<1> QED BY <1>5, <1>6

\* ReadVolumeHeader, with any number of PRFs, threads and derivations at a
\* time and keys that become ready in any order: the PRF that is reported is
\* the one whose key gave the result, and no key tested before gave one.
THEOREM ResultNamesItsPrf == Spec => []ResultNamesPrf
<1>1. Init => ResultInv
  <2> SUFFICES ASSUME Init PROVE ResultInv OBVIOUS
  <2>1. rPc = "loop" /\ status = "none" /\ Len(tested) = 0 BY DEF Init
  <2> QED BY <2>1 DEF ResultInv, ResultNamesPrf
<1>2. TriesInv /\ ResultInv /\ [Next]_vars => ResultInv'
  <2> SUFFICES ASSUME TriesInv, ResultInv, [Next]_vars PROVE ResultInv' OBVIOUS
  <2>1. CASE LoopEnd
    <3>1. status' = "wrong" /\ rPc' = "cleanup" BY <2>1 DEF LoopEnd, RGoto
    <3> QED BY <3>1 DEF ResultInv, ResultNamesPrf
  <2>2. CASE LoopDerive
    <3>1. status = "none" /\ dk' = prf' /\ UNCHANGED <<verdict, status, tested>>
      BY <2>2 DEF LoopDerive, input, TriesInv, Account, Trying
    <3> QED BY <3>1 DEF ResultInv, ResultNamesPrf, Verdict
  <2>3. CASE Scan BY <2>3, ResultScan
  <2>4. CASE Test BY <2>4, ResultTest
  <2>5. CASE LoopSkip \/ LoopEnqueue \/ LoopFull \/ BeginCount \/ BeginClear \/ BeginEnqueue \/ LoopQueued
             \/ WaitKey \/ Cleanup
    BY <2>5, ResultKept DEF LoopSkip, LoopEnqueue, LoopFull, BeginCount, BeginClear, BeginEnqueue,
       LoopQueued, WaitKey, Cleanup, RGoto, input
  <2>6. ASSUME NEW w \in Workers, Worker(w) PROVE ResultInv'
    BY <2>6, ResultKept DEF Worker, Take, Derive, SetFlag, SignalCompleted, Discount, SignalNone, reader, input
  <2>7. CASE UNCHANGED vars BY <2>7, ResultKept DEF vars, reader, input
  <2> QED BY <2>1, <2>2, <2>3, <2>4, <2>5, <2>6, <2>7 DEF Next, Reader
<1>3. ResultInv => ResultNamesPrf BY DEF ResultInv
<1> QED BY <1>1, <1>2, <1>3, TriesInvHolds, PTL DEF Spec

(***************************************************************************)
(* The counter: it counts what the reader is about to enqueue, what waits   *)
(* in the ring and what workers have not counted off.                       *)
(***************************************************************************)
Entered == rPc \in {"clear", "enqueue"}
Uncounted == {w \in Workers : wPc[w] \in {"derive", "flag", "signal", "discount"}}
OutstandingCount ==
  outstanding = (IF Entered THEN 1 ELSE 0) + Len(queue) + Cardinality(Uncounted)
Events ==
  /\ completedEvt \in BOOLEAN /\ noneEvt \in BOOLEAN /\ freed \in BOOLEAN
  /\ prf \in 0 .. PrfCount
Room ==
  /\ queued \in 0 .. PrfCount /\ (UsesPool => queued <= ThreadCount)
  /\ Beginning => queued < ThreadCount
CountInv == OutstandingCount /\ Events /\ Room

LEMMA UncountedFinite == IsFiniteSet(Uncounted) /\ Cardinality(Uncounted) \in 0 .. Cardinality(Workers)
<1>1. IsFiniteSet(Workers) BY ReaderAssumption
<1>2. Uncounted \in SUBSET Workers BY DEF Uncounted
<1>3. IsFiniteSet(Uncounted) /\ Cardinality(Uncounted) <= Cardinality(Workers) BY <1>1, <1>2, FS_Subset
<1>4. Cardinality(Uncounted) \in Nat /\ Cardinality(Workers) \in Nat BY <1>1, <1>3, FS_CardinalityType
<1> QED BY <1>3, <1>4

\* No two places of the ring have one item; the one about to be enqueued is
\* not among them.
LEMMA QueueIsShort ==
  ASSUME TriesInv
  PROVE  Len(queue) \in Nat /\ (IF Beginning THEN Len(queue) + 1 ELSE Len(queue)) <= PrfCount
<1> DEFINE D == 1 .. Len(queue)
<1> DEFINE f == [k \in D |-> queue[k]]
<1>1. queue \in Seq(Prfs) /\ Len(queue) \in Nat /\ PrfCount \in Nat
  BY ReaderAssumption DEF TriesInv, Types
<1>2. IsFiniteSet(D) /\ Cardinality(D) = Len(queue)
  <2>1. \A k \in Int : k >= 0 => IsFiniteSet(1 .. k) /\ Cardinality(1 .. k) = k BY FS_Interval
  <2> QED BY <1>1, <2>1
<1>3. IsFiniteSet(Prfs) /\ Cardinality(Prfs) = PrfCount
  <2>1. \A k \in Int : k >= 0 => IsFiniteSet(1 .. k) /\ Cardinality(1 .. k) = k BY FS_Interval
  <2> QED BY <1>1, <2>1 DEF Prfs
<1>4. \A k \in D : f[k] = queue[k] /\ queue[k] \in Prfs BY <1>1
<1>5. \A j, k \in D : f[j] = f[k] => j = k BY <1>4 DEF TriesInv, Ownership, QueueOwns
<1>6. ASSUME NEW T, IsFiniteSet(T), \A k \in D : queue[k] \in T PROVE Len(queue) <= Cardinality(T)
  <2>1. f \in [D -> T] BY <1>6
  <2>2. Cardinality(T) \in Nat BY <1>6, FS_CardinalityType
  <2> HIDE DEF f, D
  <2>3. ~(Cardinality(T) < Cardinality(D))
    <3> SUFFICES ASSUME Cardinality(T) < Cardinality(D) PROVE FALSE OBVIOUS
    <3>1. \E x, y \in D : x # y /\ f[x] = f[y] BY <1>2, <1>6, <2>1, FS_PigeonHole
    <3> QED BY <1>5, <3>1
  <2> QED BY <1>1, <1>2, <2>2, <2>3
<1>7. CASE Beginning
  <2>1. PICK n \in Held : item[n].prf = next
    BY <1>7 DEF TriesInv, Ownership, ReaderOwns
  <2>2. n \in Prfs /\ ~InQueue(n) BY <1>7, <2>1 DEF TriesInv, Ownership, ReaderOwns, Held
  <2>3. \A k \in D : queue[k] \in Prfs \ {n} BY <1>4, <2>2 DEF InQueue
  <2>4. IsFiniteSet(Prfs \ {n}) /\ Cardinality(Prfs \ {n}) = PrfCount - 1
    BY <1>3, <2>2, FS_RemoveElement
  <2>5. Len(queue) <= PrfCount - 1 BY <1>6, <2>3, <2>4
  <2> QED BY <1>1, <1>7, <2>5
<1>8. CASE ~Beginning
  <2>1. Len(queue) <= PrfCount BY <1>3, <1>4, <1>6
  <2> QED BY <1>1, <1>8, <2>1
<1> QED BY <1>7, <1>8

LEMMA OneMore ==
  ASSUME NEW S, NEW x, IsFiniteSet(S), x \notin S
  PROVE  Cardinality(S \cup {x}) = Cardinality(S) + 1
BY FS_AddElement

\* The reader's part in the counter.
LEMMA CountReader ==
  ASSUME TriesInv, OutstandingCount, Reader
  PROVE  OutstandingCount'
<1>1. Uncounted' = Uncounted
  <2>1. wPc' = wPc
    BY DEF Reader, LoopEnd, LoopSkip, LoopDerive, LoopEnqueue, LoopFull, BeginCount, BeginClear,
       BeginEnqueue, LoopQueued, Scan, WaitKey, Test, Cleanup
  <2> QED BY <2>1 DEF Uncounted
<1>2. Cardinality(Uncounted) \in Nat /\ Len(queue) \in Nat /\ Cardinality(Uncounted)' = Cardinality(Uncounted)
  BY <1>1, UncountedFinite, QueueIsShort
<1>3. CASE BeginCount
  <2>1. ~Entered /\ Entered' /\ queue' = queue /\ outstanding' = outstanding + 1
    BY <1>3 DEF BeginCount, RGoto, Entered
  <2> QED BY <1>2, <2>1 DEF OutstandingCount
<1>4. CASE BeginEnqueue
  <2>1. Entered /\ ~Entered' /\ outstanding' = outstanding BY <1>4 DEF BeginEnqueue, RGoto, Entered
  <2>2. Len(queue') = Len(queue) + 1 BY <1>4 DEF BeginEnqueue, TriesInv, Types
  <2> QED BY <1>2, <2>1, <2>2 DEF OutstandingCount
<1>5. CASE LoopEnd \/ LoopSkip \/ LoopDerive \/ LoopEnqueue \/ LoopFull \/ BeginClear \/ LoopQueued
           \/ Scan \/ WaitKey \/ Test \/ Cleanup
  <2>1. queue' = queue /\ outstanding' = outstanding
    BY <1>5 DEF LoopEnd, LoopSkip, LoopDerive, LoopEnqueue, LoopFull, BeginClear, LoopQueued,
       Scan, WaitKey, Test, Cleanup
  <2>2. Entered' <=> Entered
    <3>1. CASE BeginClear BY <3>1 DEF BeginClear, RGoto, Entered
    <3>2. CASE LoopEnd \/ LoopSkip \/ LoopDerive \/ LoopFull \/ LoopQueued \/ WaitKey \/ Test \/ Cleanup
      BY <3>2 DEF LoopEnd, LoopSkip, LoopDerive, LoopFull, LoopQueued, WaitKey, Test, Cleanup, RGoto, Entered
    <3>3. CASE LoopEnqueue BY <3>3 DEF LoopEnqueue, RGoto, Entered
    <3>4. CASE Scan BY <3>4 DEF Scan, RGoto, Entered
    <3> QED BY <1>5, <3>1, <3>2, <3>3, <3>4
  <2> QED BY <1>2, <2>1, <2>2 DEF OutstandingCount
<1> QED BY <1>3, <1>4, <1>5 DEF Reader

\* The workers' part.
LEMMA CountWorker ==
  ASSUME TriesInv, OutstandingCount, NEW w \in Workers, Worker(w)
  PROVE  OutstandingCount'
<1>1. Entered' <=> Entered
  BY DEF Worker, Take, Derive, SetFlag, SignalCompleted, Discount, SignalNone, reader, Entered
<1>2. /\ IsFiniteSet(Uncounted) /\ Cardinality(Uncounted) \in Nat /\ Len(queue) \in Nat
      /\ wPc \in [Workers -> WorkerStates]
  BY UncountedFinite, QueueIsShort DEF TriesInv, Types
<1>3. CASE Take(w)
  <2>1. /\ wPc[w] = "idle" /\ wPc' = [wPc EXCEPT ![w] = "derive"]
        /\ outstanding' = outstanding /\ queue # <<>> /\ queue' = Tail(queue)
    BY <1>3 DEF Take, WGoto
  <2>2. Len(queue') = Len(queue) - 1 BY <2>1 DEF TriesInv, Types
  <2>3. w \notin Uncounted /\ Uncounted' = Uncounted \cup {w} BY <1>2, <2>1 DEF Uncounted
  <2>4. Cardinality(Uncounted \cup {w}) = Cardinality(Uncounted) + 1 BY <1>2, <2>3, OneMore
  <2>5. Cardinality(Uncounted') = Cardinality(Uncounted) + 1 BY <2>3, <2>4, Zenon
  <2>6. Cardinality(Uncounted)' = Cardinality(Uncounted) + 1 BY <2>5
  <2> QED BY <1>1, <1>2, <2>1, <2>2, <2>6 DEF OutstandingCount
<1>4. CASE Discount(w)
  <2>1. /\ wPc[w] = "discount" /\ outstanding' = outstanding - 1 /\ queue' = queue
        /\ \E l \in {"none", "idle"} : wPc' = [wPc EXCEPT ![w] = l]
    BY <1>4 DEF Discount, WGoto
  <2>2. w \in Uncounted /\ Uncounted' = Uncounted \ {w} BY <1>2, <2>1 DEF Uncounted
  <2>3. Cardinality(Uncounted') = Cardinality(Uncounted) - 1 BY <1>2, <2>2, FS_RemoveElement
  <2> QED BY <1>1, <1>2, <2>1, <2>2, <2>3 DEF OutstandingCount
<1>5. CASE Derive(w) \/ SetFlag(w) \/ SignalCompleted(w) \/ SignalNone(w)
  <2>1. queue' = queue /\ outstanding' = outstanding
    BY <1>5 DEF Derive, SetFlag, SignalCompleted, SignalNone
  <2>2. /\ wPc' = [wPc EXCEPT ![w] = wPc'[w]]
        /\ wPc[w] \in {"derive", "flag", "signal", "discount"}
              <=> wPc'[w] \in {"derive", "flag", "signal", "discount"}
    BY <1>2, <1>5 DEF Derive, SetFlag, SignalCompleted, SignalNone, WGoto
  <2>3. Uncounted' = Uncounted BY <1>2, <2>2 DEF Uncounted
  <2> QED BY <1>1, <1>2, <2>1, <2>3 DEF OutstandingCount
<1> QED BY <1>3, <1>4, <1>5 DEF Worker

LEMMA EventsKept == ASSUME TriesInv, Events, [Next]_vars PROVE Events'
<1>1. CASE Reader
  <2>1. CASE LoopDerive
    <3>1. next \in 1 .. PrfCount + 1 /\ (next <= PrfCount \/ queued # 0)
      BY <2>1, Bounds DEF LoopDerive, LoopDone, TriesInv, Types
    <3>2. prf' = next /\ UNCHANGED <<completedEvt, noneEvt, freed>> BY <2>1 DEF LoopDerive
    <3>3. next \in 1 .. PrfCount
      <4>1. Held = {} /\ queued = 0
        <5>1. rPc = "loop" /\ ~UsesPool BY <2>1 DEF LoopDerive
        <5>2. Held = {} /\ Cardinality(Held) = queued
          BY <5>1 DEF TriesInv, QueuedCount, Trying, Beginning, Types
        <5> QED BY <5>2, FS_EmptySet
      <4> QED BY <3>1, <4>1, Bounds DEF TriesInv, Types
    <3> QED BY <3>2, <3>3 DEF Events
  <2>2. CASE Scan
    <3>1. UNCHANGED <<completedEvt, noneEvt, freed>> BY <2>2 DEF Scan
    <3>2. prf' \in 0 .. PrfCount
      <4>1. CASE prf' = prf BY <4>1 DEF Events
      <4>2. CASE \E n \in Prfs : prf' = item[n].prf BY <4>2 DEF TriesInv, Types, Items
      <4> QED BY <2>2, <4>1, <4>2 DEF Scan, FirstOf, ReadyItems, PrfOf
    <3> QED BY <3>1, <3>2 DEF Events
  <2>3. CASE LoopEnd \/ LoopSkip \/ LoopEnqueue \/ LoopFull \/ BeginCount \/ BeginEnqueue \/ LoopQueued \/ Test
    BY <2>3 DEF LoopEnd, LoopSkip, LoopEnqueue, LoopFull, BeginCount, BeginEnqueue, LoopQueued, Test, Events
  <2>4. CASE BeginClear BY <2>4 DEF BeginClear, Events
  <2>5. CASE WaitKey BY <2>5 DEF WaitKey, Events
  <2>6. CASE Cleanup
    <3>1. freed' = TRUE /\ noneEvt' \in BOOLEAN /\ UNCHANGED <<prf, completedEvt>> BY <2>6 DEF Cleanup
    <3> QED BY <3>1 DEF Events
  <2> QED BY <1>1, <2>1, <2>2, <2>3, <2>4, <2>5, <2>6 DEF Reader
<1>2. ASSUME NEW w \in Workers, Worker(w) PROVE Events'
  <2>1. freed' = freed /\ prf' = prf
    BY <1>2 DEF Worker, Take, Derive, SetFlag, SignalCompleted, Discount, SignalNone, reader
  <2>2. completedEvt' = completedEvt \/ completedEvt' = TRUE
    BY <1>2 DEF Worker, Take, Derive, SetFlag, SignalCompleted, Discount, SignalNone
  <2>3. noneEvt' = noneEvt \/ noneEvt' = TRUE
    BY <1>2 DEF Worker, Take, Derive, SetFlag, SignalCompleted, Discount, SignalNone
  <2> QED BY <2>1, <2>2, <2>3 DEF Events
<1>3. CASE UNCHANGED vars BY <1>3 DEF vars, reader, Events
<1> QED BY <1>1, <1>2, <1>3 DEF Next

\* The reader enqueues when there is room only.
LEMMA RoomKept == ASSUME TriesInv, TriesInv', Room, [Next]_vars PROVE Room'
<1>1. queued \in Nat /\ queued <= PrfCount /\ PrfCount \in Nat /\ ThreadCount \in Nat
  BY ReaderAssumption DEF Room
<1>2. UNCHANGED input BY DEF Next, Reader, LoopEnd, LoopSkip, LoopDerive, LoopEnqueue, LoopFull, BeginCount,
    BeginClear, BeginEnqueue, LoopQueued, Scan, WaitKey, Test, Cleanup, Worker, Take, Derive, SetFlag,
    SignalCompleted, Discount, SignalNone, vars
<1>3. UsesPool' <=> UsesPool BY <1>2 DEF UsesPool, input
<1>4. CASE BeginEnqueue
  <2>1. rPc = "enqueue" /\ rPc' = "queued" /\ queued' = queued + 1 BY <1>4 DEF BeginEnqueue, RGoto
  <2>2. queued' <= ThreadCount BY <1>1, <2>1 DEF Room, Beginning
  <2>3. Cardinality(Held)' = queued' BY <2>1 DEF TriesInv, QueuedCount, Trying, Beginning
  <2>4. Cardinality(Held') <= PrfCount
    <3>1. IsFiniteSet(Prfs) /\ Cardinality(Prfs) = PrfCount
      <4>1. \A k \in Int : k >= 0 => IsFiniteSet(1 .. k) /\ Cardinality(1 .. k) = k BY FS_Interval
      <4> QED BY <1>1, <4>1 DEF Prfs
    <3>2. Held' \in SUBSET Prfs BY DEF Held
    <3> QED BY <3>1, <3>2, FS_Subset
  <2>5. ~Beginning' BY <2>1 DEF Beginning
  <2> QED BY <1>1, <2>1, <2>2, <2>3, <2>4, <2>5 DEF Room
<1>5. CASE Scan
  <2>1. ~Beginning' BY <1>5 DEF Scan, RGoto, Beginning
  <2>2. queued' = queued \/ (queued # 0 /\ queued' = queued - 1) BY <1>5 DEF Scan
  <2>3. queued' \in 0 .. PrfCount /\ queued' <= queued BY <1>1, <2>2
  <2> QED BY <1>1, <1>3, <2>1, <2>3 DEF Room
<1>6. CASE LoopEnqueue
  <2>1. queued' = queued /\ queued < ThreadCount BY <1>6 DEF LoopEnqueue, HasRoom
  <2> QED BY <1>3, <2>1 DEF Room
<1>7. CASE LoopEnd \/ LoopSkip \/ LoopDerive \/ LoopFull \/ BeginCount \/ BeginClear \/ LoopQueued
           \/ WaitKey \/ Test \/ Cleanup
  <2>1. queued' = queued
    BY <1>7 DEF LoopEnd, LoopSkip, LoopDerive, LoopFull, BeginCount, BeginClear, LoopQueued, WaitKey, Test, Cleanup
  <2>2. Beginning' => Beginning
    BY <1>7 DEF LoopEnd, LoopSkip, LoopDerive, LoopFull, BeginCount, BeginClear, LoopQueued, WaitKey, Test,
       Cleanup, RGoto, Beginning
  <2> QED BY <1>3, <2>1, <2>2 DEF Room
<1>8. ASSUME NEW w \in Workers, Worker(w) PROVE Room'
  <2>1. queued' = queued /\ rPc' = rPc
    BY <1>8 DEF Worker, Take, Derive, SetFlag, SignalCompleted, Discount, SignalNone, reader
  <2> QED BY <1>3, <2>1 DEF Room, Beginning
<1>9. CASE UNCHANGED vars BY <1>3, <1>9 DEF vars, reader, Room, Beginning
<1> QED BY <1>4, <1>5, <1>6, <1>7, <1>8, <1>9 DEF Next, Reader

\* Every variable keeps its type: queuedWorkItems exceeds neither the threads
\* nor the PRFs, and *outstandingWorkItemCount neither wraps below zero nor
\* exceeds the PRFs and the threads.  (ReadVolumeHeader, DeriveKeyWork.)
THEOREM TypesHold == Spec => []TypeOK
<1>1. Init => CountInv
  <2> SUFFICES ASSUME Init PROVE CountInv OBVIOUS
  <2>1. Uncounted = {} /\ Cardinality({}) = 0 BY FS_EmptySet DEF Init, Uncounted
  <2>2. Len(queue) = 0 /\ outstanding = 0 /\ ~Entered BY DEF Init, Entered
  <2>3. Room
    <3>1. queued = 0 /\ rPc = "loop" BY DEF Init
    <3> QED BY <3>1, ReaderAssumption DEF Room, Beginning
  <2>4. Events
    <3>1. prf \in 0 .. PrfCount BY ReaderAssumption DEF Init
    <3>2. completedEvt = FALSE /\ noneEvt = TRUE /\ freed = FALSE BY DEF Init
    <3> QED BY <3>1, <3>2 DEF Events
  <2> QED BY <2>1, <2>2, <2>3, <2>4 DEF CountInv, OutstandingCount
<1>2. TriesInv /\ TriesInv' /\ CountInv /\ [Next]_vars => CountInv'
  <2> SUFFICES ASSUME TriesInv, TriesInv', CountInv, [Next]_vars PROVE CountInv' OBVIOUS
  <2>1. OutstandingCount'
    <3>1. CASE Next BY <3>1, CountReader, CountWorker DEF Next, CountInv
    <3>2. CASE UNCHANGED vars
      <4>1. Uncounted' = Uncounted BY <3>2 DEF vars, Uncounted
      <4> QED BY <3>2, <4>1 DEF CountInv, OutstandingCount, vars, reader, Entered
    <3> QED BY <3>1, <3>2
  <2>2. Events' /\ Room' BY EventsKept, RoomKept DEF CountInv
  <2> QED BY <2>1, <2>2 DEF CountInv
<1>3. TriesInv /\ CountInv => TypeOK
  <2> SUFFICES ASSUME TriesInv, CountInv PROVE TypeOK OBVIOUS
  <2>1. outstanding \in 0 .. PrfCount + Cardinality(Workers)
    <3>1. Len(queue) \in Nat /\ PrfCount \in Nat BY QueueIsShort, ReaderAssumption
    <3>2. Cardinality(Uncounted) \in 0 .. Cardinality(Workers) BY UncountedFinite
    <3>3. Cardinality(Workers) \in Nat BY ReaderAssumption, FS_CardinalityType
    <3>4. (IF Entered THEN 1 ELSE 0) + Len(queue) <= PrfCount BY <3>1, QueueIsShort DEF Entered, Beginning
    <3>5. outstanding = (IF Entered THEN 1 ELSE 0) + Len(queue) + Cardinality(Uncounted)
      BY DEF CountInv, OutstandingCount
    <3>6. (IF Entered THEN 1 ELSE 0) \in 0 .. 1 OBVIOUS
    <3> HIDE DEF Entered
    <3> QED BY <3>1, <3>2, <3>3, <3>4, <3>5, <3>6
  <2>2. Types /\ Events /\ Room BY DEF TriesInv, CountInv
  <2>3. {dk, prf} \subseteq 0 .. PrfCount /\ {abort, completedEvt, noneEvt, freed} \subseteq BOOLEAN
    BY <2>2 DEF Types, Events
  <2>4. queued \in 0 .. PrfCount /\ (UsesPool => queued <= ThreadCount) BY <2>2 DEF Room
  <2> QED BY <2>1, <2>2, <2>3, <2>4 DEF Types, TypeOK, Items
<1> QED BY <1>1, <1>2, <1>3, TriesInvHolds, PTL DEF Spec
=============================================================================
