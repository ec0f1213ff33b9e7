----------------------- MODULE SystemEncryption_proofs -----------------------
(***************************************************************************)
(* Theorems about the conversion of the system drive, for any size of the   *)
(* area, of a block and of the interval between header saves, and however   *)
(* often it is started, interrupted and failed: one inductive invariant     *)
(* gives the safety properties of SystemEncryption, and is what the proof   *)
(* that it implements SafeConversion, at the end, rests on.                 *)
(***************************************************************************)
EXTENDS SystemEncryption, FiniteSetTheorems, TLAPS

Quiet == {"none", "ended"}
Buffered == {"wipe", "write", "undo", "advance"}
Converting == {"hold", "read"} \cup Buffered
InLoop == {"loop", "save"} \cup Converting
Closing == {"epilogue", "finish", "finalSave"}
Encrypting == request.mode = "encrypt"

\* The last unit of the area in memory and of the one in the header.
EndOf(e) == IF e = None THEN 0 ELSE e
AreaEnd == EndOf(area.end)
HeaderEnd == EndOf(header.length)

(***************************************************************************)
(* Types, with the record of the bounds and the thread's buffer.            *)
(***************************************************************************)
FlagTypes ==
  /\ configured \in BOOLEAN /\ mounted \in BOOLEAN /\ keysErased \in BOOLEAN
  /\ inProgress \in BOOLEAN /\ abort \in BOOLEAN /\ shutdown \in BOOLEAN
  /\ updateRequired \in BOOLEAN /\ held \in BOOLEAN /\ excused \in BOOLEAN
ControlTypes ==
  /\ header \in Headers /\ area \in Areas /\ headerKey \in {None} \cup 0 .. MaxPasswords
  /\ request \in Requests \cup {NoRequest}
  /\ mutex \in Aborters \cup {"free", "setup"}
  /\ pc \in Labels /\ result \in {"none", "ok", "failed"}
  /\ sysEnc \in Programs \cup {"free"}
  /\ change \in [at : {"none", "checked", "read", "written"}, length : 0 .. Size]
BlockTypes ==
  /\ offset \in 1 .. Size + 1 /\ block \in 0 .. BlockSize /\ bytes \in Nat
  /\ pc \in Converting => offset + block - 1 <= Size
UsedTypes ==
  /\ used \in [starts : Nat, crashes : Nat, shutdowns : Nat, failures : Nat]
  /\ used.starts <= MaxStarts /\ used.crashes <= MaxCrashes
  /\ used.shutdowns <= MaxShutdowns /\ used.failures <= MaxFailures
DiskTypes ==
  /\ disk \in [Units -> Contents]
  /\ pc \in Buffered => buffer \in [old : [Block -> Contents], new : [Block -> Contents], erased : BOOLEAN]
Types == FlagTypes /\ ControlTypes /\ BlockTypes /\ UsedTypes /\ DiskTypes

(***************************************************************************)
(* Where the setup thread is, and what it has then.                         *)
(***************************************************************************)
Phases ==
  /\ inProgress <=> pc \notin Quiet
  /\ inProgress => request \in Requests
  /\ mounted <=> headerKey # None
  /\ pc \notin Quiet \cup {"unlock", "end"} => mounted
  /\ pc \in {"begin", "holdFirst"} => block >= 1 /\ bytes = 0 /\ ~updateRequired
  /\ pc \in InLoop => area.start = ConfiguredStart /\ block >= 1 /\ (~Encrypting => area.end # None)
  /\ pc \in {"read"} \cup Buffered => held
  /\ pc = "save" => updateRequired
  /\ pc = "finish" => ~Encrypting

\* The block that is converted next or now is the one next to the end of the area.
Position ==
  /\ pc \in {"loop", "save"} => offset = AreaEnd + 1
  /\ pc \in Converting => IF Encrypting THEN offset = AreaEnd + 1 ELSE offset + block = AreaEnd + 1

\* An area that holds no unit is NoArea, except while a decryption ends.
AreaForm ==
  /\ pc \notin InLoop \cup {"epilogue", "finish"} => area = NoArea \/ area.end >= 1
  /\ pc \in InLoop \cup {"epilogue"} /\ Encrypting => area.end # 0
  /\ pc \in InLoop \cup Closing /\ Encrypting /\ updateRequired => area.end >= 1
  /\ pc = "finish" => AreaEmpty(area)
  /\ pc = "finalSave" /\ ~Encrypting /\ AreaEmpty(area) => ~configured

\* A header is zeroed by the decryption that ends, and then the drive dismounted.
ZeroedForm ==
  header = Zeroed /\ mounted =>
    /\ pc \in {"loop", "lock", "dismount"} \cup Closing
    /\ ~Encrypting /\ AreaEmpty(area)

(***************************************************************************)
(* Who excludes whom: the root mutex, and the system encryption mutex.      *)
(***************************************************************************)
Mutex ==
  /\ mutex \in Aborters => abort /\ pc # "none"
  /\ abort /\ pc # "none" => mutex \in Aborters
  /\ mutex = "setup" => pc \in {"dismount", "unlock"}
  /\ pc \in {"dismount", "unlock"} => mutex # "free"

Change ==
  change.at # "none" =>
    /\ sysEnc = "main" /\ pc \in Quiet
    /\ change.at \in {"checked", "read"} => header.key < MaxPasswords
    /\ change.at = "read" => change.length = header.length
    /\ change.at \in {"read", "written"} => header # Zeroed

(***************************************************************************)
(* What is promised as long as nothing has happened that excuses a loss.    *)
(***************************************************************************)
Keys ==
  /\ ~keysErased
  /\ mounted /\ change.at # "written" /\ header # Zeroed => headerKey = header.key

\* How far the header is behind the area.
Lag ==
  /\ pc \in InLoop \cup Closing => AreaEnd - HeaderEnd <= bytes /\ HeaderEnd - AreaEnd <= bytes
  /\ pc \notin InLoop \cup Closing \/ ~updateRequired => AreaEnd = HeaderEnd
  /\ pc \in InLoop \cup Closing => bytes < (IF pc = "save" THEN Threshold + BlockSize ELSE Threshold)

\* What the buffer has of the block, and what the disk has once it is written.
Converted(c) ==
  CASE Encrypting /\ c = "plain" -> "cipher"
    [] ~Encrypting /\ c = "cipher" -> "plain"
    [] OTHER -> "bad"
Blocks ==
  /\ pc \in Buffered => ~buffer.erased /\ \A u \in Block : buffer.new[u] = Converted(buffer.old[u])
  /\ pc = "advance" => \A u \in Block : disk[u] = buffer.new[u]

Structure == Types /\ Phases /\ Position /\ AreaForm /\ ZeroedForm /\ Mutex /\ Change
Unharmed == ~excused => Keys /\ Lag /\ Blocks
Saved == pc \in {"lock", "dismount", "unlock", "end", "ended"} /\ result = "ok" /\ updateRequired => LoadedArea(header) = area
SetupInv == Structure /\ Unharmed /\ Saved

(***************************************************************************)
(* What the types say in numbers.                                           *)
(***************************************************************************)
LEMMA Numbers ==
  ASSUME Types
  PROVE  /\ Size \in Nat /\ BlockSize \in Nat /\ Threshold \in Nat /\ MaxPasswords \in Nat
         /\ Size >= 1 /\ BlockSize >= 1 /\ Threshold >= 1
         /\ offset \in Nat /\ offset >= 1 /\ offset <= Size + 1
         /\ block \in Nat /\ block <= BlockSize /\ bytes \in Nat
         /\ area = [start |-> area.start, end |-> area.end]
         /\ area.end \in Int /\ area.end >= -1 /\ area.end <= Size
         /\ area.start \in {-1, 1} /\ (area.start = -1 => area.end = -1)
         /\ header = [length |-> header.length, key |-> header.key]
         /\ header.length \in Int /\ header.length >= -1 /\ header.length <= Size
         /\ header.key \in Int /\ header.key >= -1 /\ header.key <= MaxPasswords
         /\ (header = Zeroed <=> header.key = -1) /\ (header = Zeroed <=> header.length = -1)
<1>1. /\ Size \in Nat /\ BlockSize \in Nat /\ Threshold \in Nat /\ MaxPasswords \in Nat
      /\ Size >= 1 /\ BlockSize >= 1 /\ Threshold >= 1
  BY SizesAssumption
<1>2. /\ offset \in Nat /\ offset >= 1 /\ offset <= Size + 1
      /\ block \in Nat /\ block <= BlockSize /\ bytes \in Nat
  BY <1>1 DEF Types, BlockTypes
<1>3. /\ area = [start |-> area.start, end |-> area.end]
      /\ area.end \in Int /\ area.end >= -1 /\ area.end <= Size
      /\ area.start \in {-1, 1} /\ (area.start = -1 => area.end = -1)
  BY <1>1 DEF Types, ControlTypes, Areas, NoArea, None, ConfiguredStart, ConfiguredEnd
<1>4. /\ header = [length |-> header.length, key |-> header.key]
      /\ header.length \in Int /\ header.length >= -1 /\ header.length <= Size
      /\ header.key \in Int /\ header.key >= -1 /\ header.key <= MaxPasswords
      /\ (header = Zeroed <=> header.key = -1) /\ (header = Zeroed <=> header.length = -1)
  BY <1>1 DEF Types, ControlTypes, Headers, Zeroed, None
<1> QED BY <1>1, <1>2, <1>3, <1>4

LEMMA AreaMade == ASSUME NEW e \in {None} \cup 0 .. Size PROVE [start |-> 1, end |-> e] \in Areas
BY DEF Areas, ConfiguredStart, ConfiguredEnd

LEMMA TypesCorrect == Types => TypeOK
<1> SUFFICES ASSUME Types PROVE TypeOK OBVIOUS
<1>1. offset \in ConfiguredStart .. ConfiguredEnd + 1 /\ block \in 0 .. BlockSize /\ bytes \in Nat
  BY DEF Types, BlockTypes, ConfiguredStart, ConfiguredEnd
<1>2. pc \in {"hold", "read", "wipe", "write", "undo", "advance"} => Block \subseteq Units
  BY Numbers DEF Types, BlockTypes, Converting, Buffered, Block, Units, ConfiguredStart, ConfiguredEnd
<1> QED BY <1>1, <1>2 DEF TypeOK, Types, FlagTypes, ControlTypes, UsedTypes, DiskTypes

LEMMA FailureCounted ==
  ASSUME UsedTypes, CanFail, CountFailure
  PROVE  UsedTypes' /\ used'.crashes = used.crashes
<1>1. /\ used' = [starts |-> used.starts, crashes |-> used.crashes, shutdowns |-> used.shutdowns, failures |-> used.failures + 1]
  BY DEF UsedTypes, CountFailure
<1>2. used.failures + 1 <= MaxFailures BY SizesAssumption DEF UsedTypes, CanFail
<1> QED BY <1>1, <1>2 DEF UsedTypes

\* A step that leaves the disk alone, and the block as long as there is one.
LEMMA DiskKept ==
  ASSUME DiskTypes, disk' = disk, pc' \in Buffered => pc \in Buffered /\ UNCHANGED <<offset, block, buffer>>
  PROVE  DiskTypes'
BY DEF DiskTypes, Block

LEMMA BlocksKept ==
  ASSUME Blocks, disk' = disk, pc' = "advance" => pc = "advance",
         pc' \in Buffered => pc \in Buffered /\ UNCHANGED <<offset, block, buffer, request>>
  PROVE  Blocks'
BY DEF Blocks, Block, Converted, Encrypting, Buffered

\* The block lies on the disk, and what is written to it keeps to it.
WithinBlock(d) == d \in [Units -> Contents] /\ \A u \in Units \ Block : d[u] = disk[u]

LEMMA BlockOnDisk == ASSUME Types, pc \in Converting PROVE Block \subseteq Units
BY Numbers DEF Types, BlockTypes, Block, Units, ConfiguredStart, ConfiguredEnd

LEMMA OverwrittenBlock ==
  ASSUME Types, pc \in Converting, NEW f \in [Block -> Contents]
  PROVE  WithinBlock(Overwritten(f)) /\ \A u \in Block : Overwritten(f)[u] = f[u]
<1>1. Block \subseteq Units BY BlockOnDisk
<1> QED BY <1>1 DEF WithinBlock, Overwritten, Types, DiskTypes

LEMMA RuinedBlock == Ruined \in [Block -> Contents]
BY DEF Ruined, Contents

LEMMA RestoredBlock == ASSUME Types, pc \in Buffered PROVE Restored \in [Block -> Contents]
<1>1. buffer.old \in [Block -> Contents] BY DEF Types, DiskTypes
<1> QED BY <1>1, RuinedBlock DEF Restored

LEMMA AttemptsBlock ==
  ASSUME Types, pc \in Converting, NEW f \in [Block -> Contents], NEW d \in Attempts(f)
  PROVE  WithinBlock(d)
<1>1. WithinBlock(disk) BY DEF WithinBlock, Types, DiskTypes
<1> QED BY <1>1, OverwrittenBlock, RuinedBlock DEF Attempts

(***************************************************************************)
(* The setup thread.  What its steps do to the block and to the header is   *)
(* stated first.                                                            *)
(***************************************************************************)
LEMMA LoopBlock ==
  ASSUME SetupInv, pc = "loop"
  PROVE  /\ NextBlock.offset \in 1 .. Size + 1 /\ NextBlock.block \in 0 .. BlockSize
         /\ ~NextBlock.last => NextBlock.block >= 1 /\ NextBlock.offset + NextBlock.block - 1 <= Size
         /\ Encrypting => NextBlock.offset = offset
         /\ ~Encrypting => NextBlock.offset + NextBlock.block = offset
         /\ header = Zeroed => NextBlock.last
<1> USE DEF SetupInv, Structure
<1>1. /\ mounted /\ area.start = 1 /\ block >= 1 /\ offset = AreaEnd + 1
      /\ (~Encrypting => area.end # None)
  BY DEF Phases, Position, InLoop, Converting, Buffered, Quiet, ConfiguredStart
<1>2. /\ Size \in Nat /\ BlockSize \in Nat /\ offset \in Nat /\ offset >= 1 /\ offset <= Size + 1
      /\ block \in Nat /\ block <= BlockSize /\ area.end \in Int /\ area.end >= -1
  BY Numbers
<1>3. CASE Encrypting
  <2> DEFINE b == IF offset + block > Size + 1 THEN Size + 1 - offset ELSE block
  <2>1. NextBlock = [block |-> b, offset |-> offset, last |-> offset > Size]
    BY <1>3 DEF NextBlock, Encrypting, ConfiguredEnd
  <2>2. header # Zeroed BY <1>1, <1>3 DEF ZeroedForm
  <2>3. b \in 0 .. BlockSize /\ (offset <= Size => b >= 1 /\ offset + b - 1 <= Size)
    BY <1>1, <1>2
  <2>4. NextBlock.block = b /\ NextBlock.offset = offset /\ (NextBlock.last <=> offset > Size)
    BY <2>1
  <2> HIDE DEF b
  <2> QED BY <1>2, <1>3, <2>2, <2>3, <2>4
<1>4. CASE ~Encrypting
  <2> DEFINE b == IF offset - block < 1 THEN offset - 1 ELSE block
  <2>1. NextBlock = [block |-> b, offset |-> offset - b, last |-> b = 0]
    BY <1>1, <1>4 DEF NextBlock, Encrypting
  <2>2. header = Zeroed => AreaEmpty(area) BY <1>1 DEF ZeroedForm
  <2>3. header = Zeroed => offset = 1
    BY <1>1, <1>2, <1>4, <2>2 DEF AreaEmpty, AreaEnd, EndOf, None
  <2>4. b \in 0 .. BlockSize /\ offset - b \in 1 .. Size + 1 /\ (offset = 1 => b = 0)
    BY <1>1, <1>2
  <2>5. NextBlock.block = b /\ NextBlock.offset = offset - b /\ (NextBlock.last <=> b = 0)
    BY <2>1
  <2> HIDE DEF b
  <2> QED BY <1>2, <1>4, <2>3, <2>4, <2>5
<1> QED BY <1>3, <1>4

LEMMA ReadBlock ==
  ASSUME SetupInv, Read
  PROVE  /\ buffer' \in [old : [Block -> Contents], new : [Block -> Contents], erased : BOOLEAN]
         /\ buffer'.erased = keysErased
         /\ \A u \in Block : buffer'.old[u] = disk[u] /\ (~keysErased => buffer'.new[u] = Converted(disk[u]))
<1> USE DEF SetupInv, Structure
<1>1. Block \subseteq Units BY BlockOnDisk DEF Read, Converting
<1>2. \A u \in Block : disk[u] \in Contents BY <1>1 DEF Types, DiskTypes
<1>3. \A c \in Contents : Transform(request.mode, c) \in Contents /\ (~keysErased => Transform(request.mode, c) = Converted(c))
  <2>1. keysErased \in BOOLEAN /\ request.mode \in {"encrypt", "decrypt"}
    <3>1. request \in Requests BY DEF Read, Phases, Quiet
    <3> QED BY <3>1 DEF Requests, Types, FlagTypes
  <2> QED BY <2>1 DEF Transform, Converted, Contents, Encrypting
<1>4. buffer' = [old |-> [u \in Block |-> disk[u]], new |-> [u \in Block |-> Transform(request.mode, disk[u])],
                 erased |-> keysErased]
  BY DEF Read
<1> QED BY <1>2, <1>3, <1>4 DEF Types, FlagTypes

LEMMA WrittenBlock ==
  ASSUME Types, Write
  PROVE  WithinBlock(disk') /\ \A u \in Block : disk'[u] = buffer.new[u]
BY OverwrittenBlock DEF Write, Types, DiskTypes, Converting, Buffered

LEMMA FailedBlock == ASSUME Types, WriteFails PROVE WithinBlock(disk')
<1>1. (IF pc = "wipe" THEN Ruined ELSE buffer.new) \in [Block -> Contents]
  BY RuinedBlock DEF WriteFails, Types, DiskTypes, Buffered
<1> QED BY <1>1, AttemptsBlock DEF WriteFails, Converting, Buffered

LEMMA UndoneBlock == ASSUME Types, Undo PROVE WithinBlock(disk')
<1>1. pc \in Buffered /\ pc \in Converting BY DEF Undo, Converting, Buffered
<1> QED BY <1>1, RestoredBlock, OverwrittenBlock, AttemptsBlock DEF Undo

\* A header that is saved says where the area ends; one that is not is a failure.
LEMMA SavedFacts ==
  ASSUME SetupInv, pc \in {"save", "finalSave"}, updateRequired, SaveDone
  PROVE  /\ header' \in Headers
         /\ EndOf(header'.length) = AreaEnd
         /\ header' = Zeroed => ~Encrypting /\ AreaEmpty(area)
         /\ header' # Zeroed => header # Zeroed /\ header'.key = header.key
         /\ pc = "finalSave" => LoadedArea(header') = area
<1>1. /\ mounted /\ request \in Requests
      /\ Encrypting => area.end >= 1
      /\ pc = "finalSave" => area = NoArea \/ area.end >= 1
  <2>1. mounted /\ request \in Requests BY DEF SetupInv, Structure, Phases, Quiet
  <2>2. pc \in InLoop \cup Closing /\ (pc = "finalSave" => pc \notin InLoop \cup {"epilogue", "finish"})
    BY DEF InLoop, Closing, Converting, Buffered
  <2> QED BY <2>1, <2>2 DEF SetupInv, Structure, AreaForm
<1>2. /\ area = [start |-> area.start, end |-> area.end]
      /\ area.end \in Int /\ area.end >= -1 /\ area.end <= Size
      /\ area.start \in {-1, 1} /\ (area.start = -1 => area.end = -1)
      /\ Size \in Nat /\ header \in Headers
  BY Numbers DEF SetupInv, Structure, Types, ControlTypes
<1>3. AreaEmpty(area) <=> area.end <= 0 BY <1>2 DEF AreaEmpty, None
<1>4. header' = SavedHeader BY DEF SaveDone
<1>5. CASE AreaEmpty(area)
  <2>1. ~Encrypting BY <1>1, <1>2, <1>3, <1>5
  <2>2. header' = Zeroed BY <1>1, <1>4, <1>5, <2>1 DEF SavedHeader, Encrypting, Requests
  <2>3. AreaEnd = 0 BY <1>2, <1>3, <1>5 DEF AreaEnd, EndOf, None
  <2>4. LoadedArea(header') = NoArea /\ EndOf(header'.length) = 0 /\ header' \in Headers
    BY <2>2 DEF LoadedArea, Zeroed, EndOf, None, Headers
  <2>5. pc = "finalSave" => area = NoArea BY <1>1, <1>2, <1>3, <1>5
  <2> QED BY <1>5, <2>1, <2>2, <2>3, <2>4, <2>5
<1>6. CASE ~AreaEmpty(area)
  <2>1. area.start = 1 /\ area.end \in 1 .. Size BY <1>2, <1>3, <1>6
  <2>2. header # Zeroed BY <1>1, <1>6 DEF SetupInv, Structure, ZeroedForm
  <2>3. header.key \in 0 .. MaxPasswords BY <1>2, <2>2 DEF Headers
  <2>4. header' = [length |-> area.end, key |-> header.key]
    <3>1. header' = [header EXCEPT !.length = area.end + 1 - area.start]
      BY <1>4, <1>6 DEF SavedHeader
    <3>2. area.end + 1 - area.start = area.end BY <2>1
    <3> QED BY <1>2, <2>2, <3>1, <3>2 DEF Headers
  <2>5. header' \in Headers /\ header' # Zeroed /\ EndOf(header'.length) = area.end
    BY <2>1, <2>3, <2>4, <1>2 DEF Headers, Zeroed, EndOf, None
  <2>6. AreaEnd = area.end BY <2>1 DEF AreaEnd, EndOf, None
  <2>7. LoadedArea(header') = [start |-> 1, end |-> area.end]
    BY <2>1, <2>4 DEF LoadedArea, None, ConfiguredStart
  <2> QED BY <1>2, <2>1, <2>2, <2>4, <2>5, <2>6, <2>7
<1> QED BY <1>5, <1>6

LEMMA UnsavedExcused ==
  ASSUME SetupInv, pc \in {"save", "finalSave"}, SaveFailed
  PROVE  excused' /\ header' = header
<1>1. header' = header BY DEF SaveFailed
<1>2. CASE excused' = TRUE BY <1>1, <1>2
<1>3. CASE ~HeaderOpens /\ excused' = excused
  <2>1. SUFFICES ASSUME ~excused PROVE HeaderOpens
    BY <1>1, <1>3 DEF SetupInv, Structure, Types, FlagTypes
  <2>2. mounted /\ change.at # "written"
    BY DEF SetupInv, Structure, Phases, Change, Quiet
  <2>3. Keys BY <2>1 DEF SetupInv, Unharmed
  <2> QED BY <2>2, <2>3 DEF Keys, HeaderOpens, SetupInv, Structure, ZeroedForm
<1> QED BY <1>2, <1>3 DEF SaveFailed

LEMMA StepBegin == ASSUME SetupInv, Begin PROVE SetupInv'
<1> USE DEF SetupInv, Structure, Begin, Goto, memory, control, programs, Quiet, Buffered, InLoop, Converting, Closing, Encrypting
<1>1. headerKey # None BY DEF Phases
<1>2. FlagTypes' /\ ControlTypes' BY DEF Types, FlagTypes, ControlTypes, Labels
<1>3. BlockTypes' /\ DiskTypes' BY DEF Types, BlockTypes, DiskTypes
<1>4. UsedTypes' BY <1>1, FailureCounted DEF Types, UsedTypes
<1>5. Phases' /\ Position' BY DEF Phases, Position
<1>6. AreaForm' /\ ZeroedForm' /\ Mutex' /\ Change' /\ Saved' BY DEF AreaForm, ZeroedForm, Mutex, Change, Saved
<1>7. Unharmed' BY DEF Unharmed, Keys, Lag, Blocks, AreaEnd, HeaderEnd
<1> QED BY <1>2, <1>3, <1>4, <1>5, <1>6, <1>7 DEF Types

LEMMA StepHoldAborted == ASSUME SetupInv, HoldAborted PROVE SetupInv'
<1> USE DEF SetupInv, Structure, HoldAborted, None, NoArea, Goto, memory, control, thread, programs, Quiet, Buffered, InLoop, Converting, Closing, Encrypting
<1>1. FlagTypes' BY DEF Types, FlagTypes
<1>2. ControlTypes' BY DEF Types, ControlTypes, Labels
<1>3. BlockTypes' BY Numbers DEF Types, BlockTypes
<1>4. DiskTypes' BY DiskKept DEF Types
<1>5. UsedTypes' BY FailureCounted DEF Types, UsedTypes
<1>6. Phases' BY DEF Phases
<1>7. Position' BY Numbers DEF Phases, Position, AreaEnd, EndOf
<1>8. AreaForm' BY Numbers DEF AreaForm, Phases
<1>9. ZeroedForm' BY DEF ZeroedForm, Phases
<1>10. Mutex' BY DEF Mutex, Aborters, Programs
<1>11. Change' BY DEF Change, Phases
<1>12. Saved' BY DEF Saved
<1>13. Unharmed'
  <2> SUFFICES ASSUME ~excused' PROVE Keys' /\ Lag' /\ Blocks' BY DEF Unharmed
  <2>1. Keys /\ Lag /\ Blocks BY DEF Unharmed
  <2>2. Keys' BY <2>1 DEF Keys, Phases
  <2>3. Lag' BY <2>1, Numbers DEF Lag, Phases, AreaEnd, HeaderEnd, EndOf
  <2>4. Blocks' BY <2>1, BlocksKept
  <2> QED BY <2>2, <2>3, <2>4
<1> QED BY <1>1, <1>2, <1>3, <1>4, <1>5, <1>6, <1>7, <1>8, <1>9, <1>10, <1>11, <1>12, <1>13 DEF Types

LEMMA StepHoldFirst == ASSUME SetupInv, HoldFirst PROVE SetupInv'
<1> USE DEF SetupInv, Structure, HoldFirst, StartEncryption, ResumeEncryption, StartDecryption, None, NoArea, Areas, ConfiguredStart, ConfiguredEnd, Goto, memory, control, thread, programs, Quiet, Buffered, InLoop, Converting, Closing, Encrypting
<1>1. FlagTypes' BY DEF Types, FlagTypes
<1>2. ControlTypes' BY Numbers DEF Types, ControlTypes, Labels
<1>3. BlockTypes' BY Numbers DEF Types, BlockTypes
<1>4. DiskTypes' BY DiskKept DEF Types
<1>5. UsedTypes' BY FailureCounted DEF Types, UsedTypes
<1>6. Phases' BY Numbers DEF Phases
<1>7. Position' BY Numbers DEF Phases, Position, AreaEnd, EndOf
<1>8. AreaForm' BY Numbers DEF AreaForm, Phases
<1>9. ZeroedForm' BY DEF ZeroedForm, Phases
<1>10. Mutex' BY DEF Mutex, Aborters, Programs
<1>11. Change' BY DEF Change, Phases
<1>12. Saved' BY DEF Saved
<1>13. Unharmed'
  <2> SUFFICES ASSUME ~excused' PROVE Keys' /\ Lag' /\ Blocks' BY DEF Unharmed
  <2>1. Keys /\ Lag /\ Blocks BY DEF Unharmed
  <2>2. Keys' BY <2>1 DEF Keys, Phases
  <2>3. Lag' BY <2>1, Numbers DEF Lag, Phases, AreaEnd, HeaderEnd, EndOf
  <2>4. Blocks' BY <2>1, BlocksKept
  <2> QED BY <2>2, <2>3, <2>4
<1> QED BY <1>1, <1>2, <1>3, <1>4, <1>5, <1>6, <1>7, <1>8, <1>9, <1>10, <1>11, <1>12, <1>13 DEF Types

LEMMA StepLoop == ASSUME SetupInv, Loop PROVE SetupInv'
<1> USE DEF SetupInv, Structure, Loop, ConfiguredStart, ConfiguredEnd, Goto, memory, control, thread, programs, Quiet, Buffered, InLoop, Converting, Closing, Encrypting
<1> USE LoopBlock
<1>1. FlagTypes' BY DEF Types, FlagTypes
<1>2. ControlTypes' BY DEF Types, ControlTypes, Labels
<1>3. BlockTypes' BY DEF Types, BlockTypes
<1>4. DiskTypes' BY DiskKept DEF Types
<1>5. UsedTypes' BY FailureCounted DEF Types, UsedTypes
<1>6. Phases' BY DEF Phases
<1>7. Position' BY Numbers DEF Phases, Position, AreaEnd
<1>8. AreaForm' BY Numbers DEF AreaForm, Phases
<1>9. ZeroedForm' BY DEF ZeroedForm, Phases
<1>10. Mutex' BY DEF Mutex, Aborters, Programs
<1>11. Change' BY DEF Change, Phases
<1>12. Saved' BY DEF Saved
<1>13. Unharmed'
  <2> SUFFICES ASSUME ~excused' PROVE Keys' /\ Lag' /\ Blocks' BY DEF Unharmed
  <2>1. Keys /\ Lag /\ Blocks BY DEF Unharmed
  <2>2. Keys' BY <2>1 DEF Keys, Phases
  <2>3. Lag' BY <2>1, Numbers DEF Lag, Phases, AreaEnd, HeaderEnd, EndOf
  <2>4. Blocks' BY <2>1, BlocksKept
  <2> QED BY <2>2, <2>3, <2>4
<1> QED BY <1>1, <1>2, <1>3, <1>4, <1>5, <1>6, <1>7, <1>8, <1>9, <1>10, <1>11, <1>12, <1>13 DEF Types

LEMMA StepHold == ASSUME SetupInv, Hold PROVE SetupInv'
<1> USE DEF SetupInv, Structure, Hold, Goto, memory, control, thread, programs, Quiet, Buffered, InLoop, Converting, Closing, Encrypting
<1>1. FlagTypes' BY DEF Types, FlagTypes
<1>2. ControlTypes' BY DEF Types, ControlTypes, Labels
<1>3. BlockTypes' BY Numbers DEF Types, BlockTypes
<1>4. DiskTypes' BY DiskKept DEF Types
<1>5. UsedTypes' BY FailureCounted DEF Types, UsedTypes
<1>6. Phases' BY DEF Phases
<1>7. Position' BY Numbers DEF Phases, Position, AreaEnd, EndOf
<1>8. AreaForm' BY Numbers DEF AreaForm, Phases
<1>9. ZeroedForm' BY DEF ZeroedForm, Phases
<1>10. Mutex' BY DEF Mutex, Aborters, Programs
<1>11. Change' BY DEF Change, Phases
<1>12. Saved' BY DEF Saved
<1>13. Unharmed'
  <2> SUFFICES ASSUME ~excused' PROVE Keys' /\ Lag' /\ Blocks' BY DEF Unharmed
  <2>1. Keys /\ Lag /\ Blocks BY DEF Unharmed
  <2>2. Keys' BY <2>1 DEF Keys, Phases
  <2>3. Lag' BY <2>1, Numbers DEF Lag, Phases, AreaEnd, HeaderEnd, EndOf
  <2>4. Blocks' BY <2>1, BlocksKept
  <2> QED BY <2>2, <2>3, <2>4
<1> QED BY <1>1, <1>2, <1>3, <1>4, <1>5, <1>6, <1>7, <1>8, <1>9, <1>10, <1>11, <1>12, <1>13 DEF Types

LEMMA StepRead == ASSUME SetupInv, Read PROVE SetupInv'
<1> USE DEF SetupInv, Structure, Read, Goto, memory, control, thread, programs, Quiet, Buffered, InLoop, Converting, Closing, Encrypting
<1>1. FlagTypes' BY DEF Types, FlagTypes
<1>2. ControlTypes' BY DEF Types, ControlTypes, Labels
<1>3. BlockTypes' BY Numbers DEF Types, BlockTypes
<1>4. DiskTypes' BY ReadBlock DEF Types, DiskTypes, Block
<1>5. UsedTypes' BY FailureCounted DEF Types, UsedTypes
<1>6. Phases' BY DEF Phases
<1>7. Position' BY Numbers DEF Phases, Position, AreaEnd, EndOf
<1>8. AreaForm' BY Numbers DEF AreaForm, Phases
<1>9. ZeroedForm' BY DEF ZeroedForm, Phases
<1>10. Mutex' BY DEF Mutex, Aborters, Programs
<1>11. Change' BY DEF Change, Phases
<1>12. Saved' BY DEF Saved
<1>13. Unharmed'
  <2> SUFFICES ASSUME ~excused' PROVE Keys' /\ Lag' /\ Blocks' BY DEF Unharmed
  <2>1. Keys /\ Lag /\ Blocks BY DEF Unharmed
  <2>2. Keys' BY <2>1 DEF Keys, Phases
  <2>3. Lag' BY <2>1, Numbers DEF Lag, Phases, AreaEnd, HeaderEnd, EndOf
  <2>4. Blocks' BY <2>1, ReadBlock DEF Blocks, Block, Converted, Keys
  <2> QED BY <2>2, <2>3, <2>4
<1> QED BY <1>1, <1>2, <1>3, <1>4, <1>5, <1>6, <1>7, <1>8, <1>9, <1>10, <1>11, <1>12, <1>13 DEF Types

LEMMA StepReadFails == ASSUME SetupInv, ReadFails PROVE SetupInv'
<1> USE DEF SetupInv, Structure, ReadFails, Goto, memory, control, thread, programs, Quiet, Buffered, InLoop, Converting, Closing, Encrypting
<1>1. FlagTypes' BY DEF Types, FlagTypes
<1>2. ControlTypes' BY DEF Types, ControlTypes, Labels
<1>3. BlockTypes' BY Numbers DEF Types, BlockTypes
<1>4. DiskTypes'
  <2>1. disk' \in [Units -> Contents] BY BlockOnDisk DEF Types, DiskTypes, Contents
  <2> QED BY <2>1 DEF DiskTypes
<1>5. UsedTypes' BY FailureCounted DEF Types, UsedTypes
<1>6. Phases' BY DEF Phases
<1>7. Position' BY Numbers DEF Phases, Position, AreaEnd, EndOf
<1>8. AreaForm' BY Numbers DEF AreaForm, Phases
<1>9. ZeroedForm' BY DEF ZeroedForm, Phases
<1>10. Mutex' BY DEF Mutex, Aborters, Programs
<1>11. Change' BY DEF Change, Phases
<1>12. Saved' BY DEF Saved
<1>13. Unharmed'
  <2> SUFFICES ASSUME ~excused' PROVE Keys' /\ Lag' /\ Blocks' BY DEF Unharmed
  <2>1. Keys /\ Lag /\ Blocks BY DEF Unharmed
  <2>2. Keys' BY <2>1 DEF Keys, Phases
  <2>3. Lag' BY <2>1, Numbers DEF Lag, Phases, AreaEnd, HeaderEnd, EndOf
  <2>4. Blocks' BY <2>1, BlocksKept
  <2> QED BY <2>2, <2>3, <2>4
<1> QED BY <1>1, <1>2, <1>3, <1>4, <1>5, <1>6, <1>7, <1>8, <1>9, <1>10, <1>11, <1>12, <1>13 DEF Types

LEMMA StepWipe == ASSUME SetupInv, Wipe PROVE SetupInv'
<1> USE DEF SetupInv, Structure, Wipe, Goto, memory, control, thread, programs, Quiet, Buffered, InLoop, Converting, Closing, Encrypting
<1>1. FlagTypes' BY DEF Types, FlagTypes
<1>2. ControlTypes' BY DEF Types, ControlTypes, Labels
<1>3. BlockTypes' BY Numbers DEF Types, BlockTypes
<1>4. DiskTypes' BY OverwrittenBlock, RuinedBlock DEF WithinBlock, Types, DiskTypes, Block
<1>5. UsedTypes' BY FailureCounted DEF Types, UsedTypes
<1>6. Phases' BY DEF Phases
<1>7. Position' BY Numbers DEF Phases, Position, AreaEnd, EndOf
<1>8. AreaForm' BY Numbers DEF AreaForm, Phases
<1>9. ZeroedForm' BY DEF ZeroedForm, Phases
<1>10. Mutex' BY DEF Mutex, Aborters, Programs
<1>11. Change' BY DEF Change, Phases
<1>12. Saved' BY DEF Saved
<1>13. Unharmed'
  <2> SUFFICES ASSUME ~excused' PROVE Keys' /\ Lag' /\ Blocks' BY DEF Unharmed
  <2>1. Keys /\ Lag /\ Blocks BY DEF Unharmed
  <2>2. Keys' BY <2>1 DEF Keys, Phases
  <2>3. Lag' BY <2>1, Numbers DEF Lag, Phases, AreaEnd, HeaderEnd, EndOf
  <2>4. Blocks' BY <2>1 DEF Blocks, Block, Converted
  <2> QED BY <2>2, <2>3, <2>4
<1> QED BY <1>1, <1>2, <1>3, <1>4, <1>5, <1>6, <1>7, <1>8, <1>9, <1>10, <1>11, <1>12, <1>13 DEF Types

LEMMA StepWrite == ASSUME SetupInv, Write PROVE SetupInv'
<1> USE DEF SetupInv, Structure, Write, Goto, memory, control, thread, programs, Quiet, Buffered, InLoop, Converting, Closing, Encrypting
<1>1. FlagTypes' BY DEF Types, FlagTypes
<1>2. ControlTypes' BY DEF Types, ControlTypes, Labels
<1>3. BlockTypes' BY Numbers DEF Types, BlockTypes
<1>4. DiskTypes' BY WrittenBlock DEF WithinBlock, Types, DiskTypes, Block
<1>5. UsedTypes' BY FailureCounted DEF Types, UsedTypes
<1>6. Phases' BY DEF Phases
<1>7. Position' BY Numbers DEF Phases, Position, AreaEnd, EndOf
<1>8. AreaForm' BY Numbers DEF AreaForm, Phases
<1>9. ZeroedForm' BY DEF ZeroedForm, Phases
<1>10. Mutex' BY DEF Mutex, Aborters, Programs
<1>11. Change' BY DEF Change, Phases
<1>12. Saved' BY DEF Saved
<1>13. Unharmed'
  <2> SUFFICES ASSUME ~excused' PROVE Keys' /\ Lag' /\ Blocks' BY DEF Unharmed
  <2>1. Keys /\ Lag /\ Blocks BY DEF Unharmed
  <2>2. Keys' BY <2>1 DEF Keys, Phases
  <2>3. Lag' BY <2>1, Numbers DEF Lag, Phases, AreaEnd, HeaderEnd, EndOf
  <2>4. Blocks' BY <2>1, WrittenBlock DEF Blocks, Block, Converted
  <2> QED BY <2>2, <2>3, <2>4
<1> QED BY <1>1, <1>2, <1>3, <1>4, <1>5, <1>6, <1>7, <1>8, <1>9, <1>10, <1>11, <1>12, <1>13 DEF Types

LEMMA StepWriteFails == ASSUME SetupInv, WriteFails PROVE SetupInv'
<1> USE DEF SetupInv, Structure, WriteFails, Goto, memory, control, thread, programs, Quiet, Buffered, InLoop, Converting, Closing, Encrypting
<1>1. FlagTypes' BY DEF Types, FlagTypes
<1>2. ControlTypes' BY DEF Types, ControlTypes, Labels
<1>3. BlockTypes' BY Numbers DEF Types, BlockTypes
<1>4. DiskTypes' BY FailedBlock DEF WithinBlock, Types, DiskTypes, Block
<1>5. UsedTypes' BY FailureCounted DEF Types, UsedTypes
<1>6. Phases' BY DEF Phases
<1>7. Position' BY Numbers DEF Phases, Position, AreaEnd, EndOf
<1>8. AreaForm' BY Numbers DEF AreaForm, Phases
<1>9. ZeroedForm' BY DEF ZeroedForm, Phases
<1>10. Mutex' BY DEF Mutex, Aborters, Programs
<1>11. Change' BY DEF Change, Phases
<1>12. Saved' BY DEF Saved
<1>13. Unharmed'
  <2> SUFFICES ASSUME ~excused' PROVE Keys' /\ Lag' /\ Blocks' BY DEF Unharmed
  <2>1. Keys /\ Lag /\ Blocks BY DEF Unharmed
  <2>2. Keys' BY <2>1 DEF Keys, Phases
  <2>3. Lag' BY <2>1, Numbers DEF Lag, Phases, AreaEnd, HeaderEnd, EndOf
  <2>4. Blocks' BY <2>1 DEF Blocks, Block, Converted
  <2> QED BY <2>2, <2>3, <2>4
<1> QED BY <1>1, <1>2, <1>3, <1>4, <1>5, <1>6, <1>7, <1>8, <1>9, <1>10, <1>11, <1>12, <1>13 DEF Types

LEMMA StepUndo == ASSUME SetupInv, Undo PROVE SetupInv'
<1> USE DEF SetupInv, Structure, Undo, Goto, memory, control, thread, programs, Quiet, Buffered, InLoop, Converting, Closing, Encrypting
<1>1. FlagTypes' BY DEF Types, FlagTypes
<1>2. ControlTypes' BY DEF Types, ControlTypes, Labels
<1>3. BlockTypes' BY Numbers DEF Types, BlockTypes
<1>4. DiskTypes' BY UndoneBlock DEF WithinBlock, Types, DiskTypes, Block
<1>5. UsedTypes' BY FailureCounted DEF Types, UsedTypes
<1>6. Phases' BY DEF Phases
<1>7. Position' BY Numbers DEF Phases, Position, AreaEnd, EndOf
<1>8. AreaForm' BY Numbers DEF AreaForm, Phases
<1>9. ZeroedForm' BY DEF ZeroedForm, Phases
<1>10. Mutex' BY DEF Mutex, Aborters, Programs
<1>11. Change' BY DEF Change, Phases
<1>12. Saved' BY DEF Saved
<1>13. Unharmed'
  <2> SUFFICES ASSUME ~excused' PROVE Keys' /\ Lag' /\ Blocks' BY DEF Unharmed
  <2>1. Keys /\ Lag /\ Blocks BY DEF Unharmed
  <2>2. Keys' BY <2>1 DEF Keys, Phases
  <2>3. Lag' BY <2>1, Numbers DEF Lag, Phases, AreaEnd, HeaderEnd, EndOf
  <2>4. Blocks' BY DEF Blocks
  <2> QED BY <2>2, <2>3, <2>4
<1> QED BY <1>1, <1>2, <1>3, <1>4, <1>5, <1>6, <1>7, <1>8, <1>9, <1>10, <1>11, <1>12, <1>13 DEF Types

LEMMA StepAdvance == ASSUME SetupInv, Advance PROVE SetupInv'
<1> USE DEF SetupInv, Structure, Advance, ConfiguredStart, Goto, memory, control, thread, programs, Quiet, Buffered, InLoop, Converting, Closing, Encrypting
<1>a. /\ Size \in Nat /\ BlockSize \in Nat /\ offset \in Nat /\ offset >= 1 /\ area.end \in Int
      /\ block \in Nat /\ block <= BlockSize /\ bytes \in Nat /\ Threshold \in Nat
      /\ header.length \in Int /\ area.start = 1 /\ block >= 1
      /\ offset + block - 1 <= Size /\ (IF Encrypting THEN offset = AreaEnd + 1 ELSE offset + block = AreaEnd + 1)
  BY Numbers DEF Types, BlockTypes, Phases, Position, ConfiguredStart
<1>b. /\ offset' = (IF Encrypting THEN offset + block ELSE offset) /\ bytes' = bytes + block
      /\ updateRequired' = TRUE /\ held' = FALSE /\ pc' = (IF bytes' >= Threshold THEN "save" ELSE "loop")
  OBVIOUS
<1>c. area' = [start |-> 1, end |-> offset' - 1]
  <2>1. area = [start |-> area.start, end |-> area.end] BY Numbers
  <2> QED BY <1>a, <2>1
<1>d. /\ offset' \in 1 .. Size + 1 /\ AreaEnd' = offset' - 1
      /\ (Encrypting => AreaEnd' = AreaEnd + block /\ offset' >= 2)
      /\ (~Encrypting => AreaEnd' = AreaEnd - block)
  <2>1. AreaEnd \in Int BY <1>a DEF AreaEnd, EndOf, None
  <2>2. area'.end = offset' - 1 /\ (Encrypting' <=> Encrypting) BY <1>c
  <2>3. offset' \in 1 .. Size + 1 /\ (Encrypting => offset' >= 2) BY <1>a, <1>b
  <2>4. AreaEnd' = offset' - 1 BY <2>2, <2>3, <1>a DEF AreaEnd, EndOf, None
  <2> QED BY <1>a, <1>b, <2>1, <2>3, <2>4
<1>1. FlagTypes' BY DEF Types, FlagTypes
<1>2. ControlTypes'
  <2>1. offset' - 1 \in 0 .. Size BY <1>a, <1>d
  <2>2. area' \in Areas BY <1>c, <2>1, AreaMade DEF None
  <2> QED BY <2>2 DEF Types, ControlTypes, Labels
<1>3. BlockTypes' BY <1>a, <1>b, <1>d DEF Types, BlockTypes
<1>4. DiskTypes' BY DiskKept DEF Types
<1>5. UsedTypes' BY FailureCounted DEF Types, UsedTypes
<1>6. Phases' BY <1>a, <1>b, <1>c, <1>d DEF Phases, None, ConfiguredStart
<1>7. Position' BY <1>a, <1>b, <1>d DEF Position
<1>8. AreaForm' BY <1>a, <1>b, <1>c, <1>d DEF AreaForm
<1>9. ZeroedForm'
  <2>1. header # Zeroed BY DEF ZeroedForm, Phases
  <2> QED BY <2>1 DEF ZeroedForm
<1>10. Mutex' BY DEF Mutex, Aborters, Programs
<1>11. Change' BY DEF Change, Phases
<1>12. Saved' BY DEF Saved
<1>13. Unharmed'
  <2> SUFFICES ASSUME ~excused' PROVE Keys' /\ Lag' /\ Blocks' BY DEF Unharmed
  <2>1. Keys /\ Lag /\ Blocks BY DEF Unharmed
  <2>2. Keys' BY <2>1 DEF Keys, Phases
  <2>3. Lag'
    <3>1. AreaEnd \in Int /\ HeaderEnd \in Int /\ HeaderEnd' = HeaderEnd BY <1>a DEF AreaEnd, HeaderEnd, EndOf, None
    <3>2. AreaEnd - HeaderEnd <= bytes /\ HeaderEnd - AreaEnd <= bytes /\ bytes < Threshold BY <2>1 DEF Lag
    <3> QED BY <1>a, <1>b, <1>d, <3>1, <3>2 DEF Lag
  <2>4. Blocks' BY DEF Blocks
  <2> QED BY <2>2, <2>3, <2>4
<1> QED BY <1>1, <1>2, <1>3, <1>4, <1>5, <1>6, <1>7, <1>8, <1>9, <1>10, <1>11, <1>12, <1>13 DEF Types

LEMMA StepSave == ASSUME SetupInv, Save PROVE SetupInv'
<1> USE DEF SetupInv, Structure, Save, Goto, memory, control, thread, programs, Quiet, Buffered, InLoop, Converting, Closing, Encrypting
<1>a. updateRequired /\ mounted /\ change.at = "none" BY DEF Phases, Change
<1>b. /\ header' \in Headers
      /\ header' = Zeroed => ~Encrypting /\ AreaEmpty(area)
      /\ header' # Zeroed => header # Zeroed /\ header'.key = header.key
  BY <1>a, SavedFacts, UnsavedExcused DEF ZeroedForm, Types, ControlTypes
<1>c. \/ EndOf(header'.length) = AreaEnd /\ updateRequired' = FALSE /\ bytes' = 0 /\ SaveDone
      \/ header' = header /\ excused' /\ UNCHANGED <<updateRequired, bytes>> /\ SaveFailed
  BY <1>a, SavedFacts, UnsavedExcused
<1>1. FlagTypes' BY <1>c DEF Types, FlagTypes, SaveDone, SaveFailed
<1>2. ControlTypes' BY <1>b DEF Types, ControlTypes, Labels
<1>3. BlockTypes' BY Numbers DEF Types, BlockTypes
<1>4. DiskTypes' BY DiskKept DEF Types
<1>5. UsedTypes' BY FailureCounted DEF Types, UsedTypes, SaveDone, SaveFailed
<1>6. Phases' BY DEF Phases
<1>7. Position' BY Numbers DEF Phases, Position, AreaEnd, EndOf
<1>8. AreaForm' BY Numbers DEF AreaForm, Phases
<1>9. ZeroedForm' BY <1>b DEF ZeroedForm
<1>10. Mutex' BY DEF Mutex, Aborters, Programs
<1>11. Change' BY DEF Change, Phases
<1>12. Saved' BY DEF Saved
<1>13. Unharmed'
  <2> SUFFICES ASSUME ~excused' PROVE Keys' /\ Lag' /\ Blocks' BY DEF Unharmed
  <2>1. Keys /\ Lag /\ Blocks BY <1>c DEF Unharmed, SaveDone
  <2>2. Keys' BY <2>1, <1>a, <1>b DEF Keys
  <2>3. Lag'
    <3>1. AreaEnd' = AreaEnd /\ HeaderEnd' = AreaEnd /\ updateRequired' = FALSE /\ bytes' = 0
      BY <1>c DEF AreaEnd, HeaderEnd
    <3>2. AreaEnd \in Int /\ Threshold >= 1 /\ Threshold \in Nat BY Numbers DEF AreaEnd, EndOf
    <3> QED BY <3>1, <3>2 DEF Lag
  <2>4. Blocks' BY <2>1, BlocksKept
  <2> QED BY <2>2, <2>3, <2>4
<1> QED BY <1>1, <1>2, <1>3, <1>4, <1>5, <1>6, <1>7, <1>8, <1>9, <1>10, <1>11, <1>12, <1>13 DEF Types

LEMMA StepEpilogue == ASSUME SetupInv, Epilogue PROVE SetupInv'
<1> USE DEF SetupInv, Structure, Epilogue, AreaEmpty, None, NoArea, Areas, Goto, memory, control, thread, programs, Quiet, Buffered, InLoop, Converting, Closing, Encrypting
<1>a. /\ area = [start |-> area.start, end |-> area.end] /\ area.start \in {-1, 1} /\ area.end \in Int
      /\ area.end >= -1 /\ area.end <= Size /\ (area.start = -1 => area.end = -1) /\ NoArea.end = -1 /\ NoArea.start = -1
  BY Numbers DEF NoArea, None
<1>b. /\ (area' = NoArea /\ area.end = -1) \/ (area' = area /\ area.end >= 0)
      /\ AreaEmpty(area) <=> area.end <= 0
      /\ AreaEnd' = AreaEnd
  <2>1. area' = IF area.end = -1 THEN NoArea ELSE area BY DEF None
  <2>2. AreaEmpty(area) <=> area.end <= 0 BY <1>a DEF AreaEmpty, None
  <2>3. AreaEnd = (IF area.end = -1 THEN 0 ELSE area.end) /\ AreaEnd' = (IF area'.end = -1 THEN 0 ELSE area'.end)
    BY DEF AreaEnd, EndOf, None
  <2> HIDE DEF Epilogue
  <2> QED BY <1>a, <2>1, <2>2, <2>3
<1>c. pc' = IF ~Encrypting /\ AreaEmpty(area) THEN "finish" ELSE "finalSave"
  BY DEF Phases, Requests
<1>1. FlagTypes' BY DEF Types, FlagTypes
<1>2. ControlTypes' BY <1>a, <1>b DEF Types, ControlTypes, Labels, Areas
<1>3. BlockTypes' BY Numbers DEF Types, BlockTypes
<1>4. DiskTypes' BY DiskKept DEF Types
<1>5. UsedTypes' BY FailureCounted DEF Types, UsedTypes
<1>6. Phases' BY <1>c DEF Phases
<1>7. Position' BY Numbers DEF Phases, Position, AreaEnd, EndOf
<1>8. AreaForm' BY <1>a, <1>b, <1>c DEF AreaForm, AreaEmpty, None
<1>9. ZeroedForm' BY <1>a, <1>b, <1>c DEF ZeroedForm, AreaEmpty, None, Phases
<1>10. Mutex' BY DEF Mutex, Aborters, Programs
<1>11. Change' BY DEF Change, Phases
<1>12. Saved' BY DEF Saved
<1>13. Unharmed'
  <2> SUFFICES ASSUME ~excused' PROVE Keys' /\ Lag' /\ Blocks' BY DEF Unharmed
  <2>1. Keys /\ Lag /\ Blocks BY DEF Unharmed
  <2>2. Keys' BY <2>1 DEF Keys, Phases
  <2>3. Lag' BY <2>1, <1>b, Numbers DEF Lag, HeaderEnd, EndOf, None
  <2>4. Blocks' BY <2>1, BlocksKept
  <2> QED BY <2>2, <2>3, <2>4
<1> QED BY <1>1, <1>2, <1>3, <1>4, <1>5, <1>6, <1>7, <1>8, <1>9, <1>10, <1>11, <1>12, <1>13 DEF Types

LEMMA StepFinish == ASSUME SetupInv, Finish PROVE SetupInv'
<1> USE DEF SetupInv, Structure, Finish, AreaEmpty, None, NoArea, Areas, Goto, memory, control, thread, programs, Quiet, Buffered, InLoop, Converting, Closing, Encrypting
<1>1. FlagTypes' BY DEF Types, FlagTypes
<1>2. ControlTypes' BY DEF Types, ControlTypes, Labels, Areas, NoArea
<1>3. BlockTypes' BY Numbers DEF Types, BlockTypes
<1>4. DiskTypes' BY DiskKept DEF Types
<1>5. UsedTypes' BY FailureCounted DEF Types, UsedTypes
<1>6. Phases' BY DEF Phases
<1>7. Position' BY Numbers DEF Phases, Position, AreaEnd, EndOf
<1>8. AreaForm' BY Numbers DEF AreaForm, Phases
<1>9. ZeroedForm' BY DEF ZeroedForm, Phases
<1>10. Mutex' BY DEF Mutex, Aborters, Programs
<1>11. Change' BY DEF Change, Phases
<1>12. Saved' BY DEF Saved
<1>13. Unharmed'
  <2> SUFFICES ASSUME ~excused' PROVE Keys' /\ Lag' /\ Blocks' BY DEF Unharmed
  <2>1. Keys /\ Lag /\ Blocks BY DEF Unharmed
  <2>2. Keys' BY <2>1 DEF Keys, Phases
  <2>3. Lag' BY <2>1, Numbers DEF Lag, Phases, AreaForm, AreaEmpty, AreaEnd, HeaderEnd, EndOf, None, NoArea
  <2>4. Blocks' BY <2>1, BlocksKept
  <2> QED BY <2>2, <2>3, <2>4
<1> QED BY <1>1, <1>2, <1>3, <1>4, <1>5, <1>6, <1>7, <1>8, <1>9, <1>10, <1>11, <1>12, <1>13 DEF Types

LEMMA StepFinalSave == ASSUME SetupInv, FinalSave PROVE SetupInv'
<1> USE DEF SetupInv, Structure, FinalSave, Goto, memory, control, thread, programs, Quiet, Buffered, InLoop, Converting, Closing, Encrypting
<1>a. mounted /\ change.at = "none" /\ request \in Requests BY DEF Phases, Change
<1>b. pc' = IF ~Encrypting /\ ~configured THEN "lock" ELSE "end"
  BY <1>a DEF AfterSave, Requests
<1>c. /\ header' \in Headers
      /\ header' = Zeroed => ~Encrypting /\ AreaEmpty(area)
      /\ header' # Zeroed => header # Zeroed /\ header'.key = header.key
  BY <1>a, SavedFacts, UnsavedExcused DEF ZeroedForm, Types, ControlTypes
<1>d. \/ updateRequired /\ SaveDone /\ EndOf(header'.length) = AreaEnd /\ LoadedArea(header') = area /\ result' = result
      \/ updateRequired /\ SaveFailed /\ header' = header /\ excused' /\ result' = "failed"
      \/ ~updateRequired /\ UNCHANGED <<header, used, excused, result>>
  BY SavedFacts, UnsavedExcused
<1>1. FlagTypes' BY <1>d DEF Types, FlagTypes, SaveDone, SaveFailed
<1>2. ControlTypes' BY <1>b, <1>c, <1>d DEF Types, ControlTypes, Labels
<1>3. BlockTypes' BY <1>b DEF Types, BlockTypes
<1>4. DiskTypes' BY <1>b, DiskKept DEF Types
<1>5. UsedTypes' BY <1>d, FailureCounted DEF Types, UsedTypes, SaveDone, SaveFailed
<1>6. Phases' BY <1>a, <1>b DEF Phases
<1>7. Position' BY <1>b DEF Position
<1>8. AreaForm' BY <1>b DEF AreaForm
<1>9. ZeroedForm' BY <1>b, <1>c DEF ZeroedForm, AreaForm
<1>10. Mutex' BY <1>b DEF Mutex, Aborters, Programs
<1>11. Change' BY <1>a DEF Change
<1>12. Saved' BY <1>d DEF Saved
<1>13. Unharmed'
  <2> SUFFICES ASSUME ~excused' PROVE Keys' /\ Lag' /\ Blocks' BY DEF Unharmed
  <2>1. Keys /\ Lag /\ Blocks BY <1>d DEF Unharmed, SaveDone
  <2>2. Keys' BY <2>1, <1>a, <1>c DEF Keys
  <2>3. Lag' BY <2>1, <1>b, <1>d, Numbers DEF Lag, AreaEnd, HeaderEnd
  <2>4. Blocks' BY <1>b DEF Blocks
  <2> QED BY <2>2, <2>3, <2>4
<1> QED BY <1>1, <1>2, <1>3, <1>4, <1>5, <1>6, <1>7, <1>8, <1>9, <1>10, <1>11, <1>12, <1>13 DEF Types

LEMMA StepLock == ASSUME SetupInv, Lock PROVE SetupInv'
<1> USE DEF SetupInv, Structure, Lock, Goto, memory, control, thread, programs, Quiet, Buffered, InLoop, Converting, Closing, Encrypting
<1>1. FlagTypes' BY DEF Types, FlagTypes
<1>2. ControlTypes' BY DEF Types, ControlTypes, Labels
<1>3. BlockTypes' BY Numbers DEF Types, BlockTypes
<1>4. DiskTypes' BY DiskKept DEF Types
<1>5. UsedTypes' BY FailureCounted DEF Types, UsedTypes
<1>6. Phases' BY DEF Phases
<1>7. Position' BY Numbers DEF Phases, Position, AreaEnd, EndOf
<1>8. AreaForm' BY Numbers DEF AreaForm, Phases
<1>9. ZeroedForm' BY DEF ZeroedForm, Phases
<1>10. Mutex' BY DEF Mutex, Aborters, Programs
<1>11. Change' BY DEF Change, Phases
<1>12. Saved' BY DEF Saved
<1>13. Unharmed'
  <2> SUFFICES ASSUME ~excused' PROVE Keys' /\ Lag' /\ Blocks' BY DEF Unharmed
  <2>1. Keys /\ Lag /\ Blocks BY DEF Unharmed
  <2>2. Keys' BY <2>1 DEF Keys, Phases
  <2>3. Lag' BY <2>1, Numbers DEF Lag, Phases, AreaEnd, HeaderEnd, EndOf
  <2>4. Blocks' BY <2>1, BlocksKept
  <2> QED BY <2>2, <2>3, <2>4
<1> QED BY <1>1, <1>2, <1>3, <1>4, <1>5, <1>6, <1>7, <1>8, <1>9, <1>10, <1>11, <1>12, <1>13 DEF Types

LEMMA StepDismount == ASSUME SetupInv, Dismount PROVE SetupInv'
<1> USE DEF SetupInv, Structure, Dismount, Goto, memory, control, thread, programs, Quiet, Buffered, InLoop, Converting, Closing, Encrypting
<1>1. FlagTypes' BY DEF Types, FlagTypes
<1>2. ControlTypes' BY DEF Types, ControlTypes, Labels
<1>3. BlockTypes' BY Numbers DEF Types, BlockTypes
<1>4. DiskTypes' BY DiskKept DEF Types
<1>5. UsedTypes' BY FailureCounted DEF Types, UsedTypes
<1>6. Phases' BY DEF Phases
<1>7. Position' BY Numbers DEF Phases, Position, AreaEnd, EndOf
<1>8. AreaForm' BY Numbers DEF AreaForm, Phases
<1>9. ZeroedForm' BY DEF ZeroedForm, Phases
<1>10. Mutex' BY DEF Mutex, Aborters, Programs
<1>11. Change' BY DEF Change, Phases
<1>12. Saved' BY DEF Saved
<1>13. Unharmed'
  <2> SUFFICES ASSUME ~excused' PROVE Keys' /\ Lag' /\ Blocks' BY DEF Unharmed
  <2>1. Keys /\ Lag /\ Blocks BY DEF Unharmed
  <2>2. Keys' BY <2>1 DEF Keys, Phases
  <2>3. Lag' BY <2>1, Numbers DEF Lag, Phases, AreaEnd, HeaderEnd, EndOf
  <2>4. Blocks' BY <2>1, BlocksKept
  <2> QED BY <2>2, <2>3, <2>4
<1> QED BY <1>1, <1>2, <1>3, <1>4, <1>5, <1>6, <1>7, <1>8, <1>9, <1>10, <1>11, <1>12, <1>13 DEF Types

LEMMA StepUnlock == ASSUME SetupInv, Unlock PROVE SetupInv'
<1> USE DEF SetupInv, Structure, Unlock, Goto, memory, control, thread, programs, Quiet, Buffered, InLoop, Converting, Closing, Encrypting
<1>1. FlagTypes' BY DEF Types, FlagTypes
<1>2. ControlTypes' BY DEF Types, ControlTypes, Labels
<1>3. BlockTypes' BY Numbers DEF Types, BlockTypes
<1>4. DiskTypes' BY DiskKept DEF Types
<1>5. UsedTypes' BY FailureCounted DEF Types, UsedTypes
<1>6. Phases' BY DEF Phases
<1>7. Position' BY Numbers DEF Phases, Position, AreaEnd, EndOf
<1>8. AreaForm' BY Numbers DEF AreaForm, Phases
<1>9. ZeroedForm' BY DEF ZeroedForm, Phases
<1>10. Mutex' BY DEF Mutex, Aborters, Programs
<1>11. Change' BY DEF Change, Phases
<1>12. Saved' BY DEF Saved
<1>13. Unharmed'
  <2> SUFFICES ASSUME ~excused' PROVE Keys' /\ Lag' /\ Blocks' BY DEF Unharmed
  <2>1. Keys /\ Lag /\ Blocks BY DEF Unharmed
  <2>2. Keys' BY <2>1 DEF Keys, Phases
  <2>3. Lag' BY <2>1, Numbers DEF Lag, Phases, AreaEnd, HeaderEnd, EndOf
  <2>4. Blocks' BY <2>1, BlocksKept
  <2> QED BY <2>2, <2>3, <2>4
<1> QED BY <1>1, <1>2, <1>3, <1>4, <1>5, <1>6, <1>7, <1>8, <1>9, <1>10, <1>11, <1>12, <1>13 DEF Types

LEMMA StepEnd == ASSUME SetupInv, End PROVE SetupInv'
<1> USE DEF SetupInv, Structure, End, Goto, memory, control, thread, programs, Quiet, Buffered, InLoop, Converting, Closing, Encrypting
<1>1. FlagTypes' BY DEF Types, FlagTypes
<1>2. ControlTypes' BY DEF Types, ControlTypes, Labels
<1>3. BlockTypes' BY Numbers DEF Types, BlockTypes
<1>4. DiskTypes' BY DiskKept DEF Types
<1>5. UsedTypes' BY FailureCounted DEF Types, UsedTypes
<1>6. Phases' BY DEF Phases
<1>7. Position' BY Numbers DEF Phases, Position, AreaEnd, EndOf
<1>8. AreaForm' BY Numbers DEF AreaForm, Phases
<1>9. ZeroedForm' BY DEF ZeroedForm, Phases
<1>10. Mutex' BY DEF Mutex, Aborters, Programs
<1>11. Change' BY DEF Change, Phases
<1>12. Saved' BY DEF Saved
<1>13. Unharmed'
  <2> SUFFICES ASSUME ~excused' PROVE Keys' /\ Lag' /\ Blocks' BY DEF Unharmed
  <2>1. Keys /\ Lag /\ Blocks BY DEF Unharmed
  <2>2. Keys' BY <2>1 DEF Keys, Phases
  <2>3. Lag' BY <2>1, Numbers DEF Lag, Phases, AreaEnd, HeaderEnd, EndOf
  <2>4. Blocks' BY <2>1, BlocksKept
  <2> QED BY <2>2, <2>3, <2>4
<1> QED BY <1>1, <1>2, <1>3, <1>4, <1>5, <1>6, <1>7, <1>8, <1>9, <1>10, <1>11, <1>12, <1>13 DEF Types

LEMMA StepResume == ASSUME SetupInv, Resume PROVE SetupInv'
<1> USE DEF SetupInv, Structure, Resume, StartBootEncryptionSetup, Goto, memory, control, thread, programs, Quiet, Buffered, InLoop, Converting, Closing, Encrypting
<1>1. FlagTypes' BY DEF Types, FlagTypes
<1>2. ControlTypes' BY DEF Types, ControlTypes, Labels
<1>3. BlockTypes' BY Numbers DEF Types, BlockTypes
<1>4. DiskTypes' BY DiskKept DEF Types
<1>5. UsedTypes'
  <2>1. used' = [used EXCEPT !.starts = @ + 1] /\ used.starts < MaxStarts OBVIOUS
  <2> QED BY <2>1, SizesAssumption DEF Types, UsedTypes
<1>6. Phases' BY Numbers DEF Phases
<1>7. Position' BY Numbers DEF Phases, Position, AreaEnd, EndOf
<1>8. AreaForm' BY Numbers DEF AreaForm, Phases
<1>9. ZeroedForm' BY DEF ZeroedForm, Phases
<1>10. Mutex' BY DEF Mutex, Aborters, Programs
<1>11. Change' BY DEF Change, Phases
<1>12. Saved' BY DEF Saved
<1>13. Unharmed'
  <2> SUFFICES ASSUME ~excused' PROVE Keys' /\ Lag' /\ Blocks' BY DEF Unharmed
  <2>1. Keys /\ Lag /\ Blocks BY DEF Unharmed
  <2>2. Keys' BY <2>1 DEF Keys, Phases
  <2>3. Lag' BY <2>1, Numbers DEF Lag, Phases, AreaEnd, HeaderEnd, EndOf
  <2>4. Blocks' BY <2>1, BlocksKept
  <2> QED BY <2>2, <2>3, <2>4
<1> QED BY <1>1, <1>2, <1>3, <1>4, <1>5, <1>6, <1>7, <1>8, <1>9, <1>10, <1>11, <1>12, <1>13 DEF Types

LEMMA StepEmergencyClearAllKeys == ASSUME SetupInv, EmergencyClearAllKeys PROVE SetupInv'
<1> USE DEF SetupInv, Structure, EmergencyClearAllKeys, Goto, memory, control, thread, programs, Quiet, Buffered, InLoop, Converting, Closing, Encrypting
<1>1. FlagTypes' BY DEF Types, FlagTypes
<1>2. ControlTypes' BY DEF Types, ControlTypes, Labels
<1>3. BlockTypes' BY Numbers DEF Types, BlockTypes
<1>4. DiskTypes' BY DiskKept DEF Types
<1>5. UsedTypes' BY FailureCounted DEF Types, UsedTypes
<1>6. Phases' BY DEF Phases
<1>7. Position' BY Numbers DEF Phases, Position, AreaEnd, EndOf
<1>8. AreaForm' BY Numbers DEF AreaForm, Phases
<1>9. ZeroedForm' BY DEF ZeroedForm, Phases
<1>10. Mutex' BY DEF Mutex, Aborters, Programs
<1>11. Change' BY DEF Change, Phases
<1>12. Saved' BY DEF Saved
<1>13. Unharmed'
  <2> SUFFICES ASSUME ~excused' PROVE Keys' /\ Lag' /\ Blocks' BY DEF Unharmed
  <2>1. Keys /\ Lag /\ Blocks BY DEF Unharmed
  <2>2. Keys' BY <2>1 DEF Keys, Phases
  <2>3. Lag' BY <2>1, Numbers DEF Lag, Phases, AreaEnd, HeaderEnd, EndOf
  <2>4. Blocks' BY <2>1, BlocksKept
  <2> QED BY <2>2, <2>3, <2>4
<1> QED BY <1>1, <1>2, <1>3, <1>4, <1>5, <1>6, <1>7, <1>8, <1>9, <1>10, <1>11, <1>12, <1>13 DEF Types

LEMMA StepChangeCheck == ASSUME SetupInv, ChangeCheck PROVE SetupInv'
<1> USE DEF SetupInv, Structure, ChangeCheck, Goto, memory, control, thread, programs, Quiet, Buffered, InLoop, Converting, Closing, Encrypting
<1>1. FlagTypes' BY DEF Types, FlagTypes
<1>2. ControlTypes' BY DEF Types, ControlTypes, Labels
<1>3. BlockTypes' BY Numbers DEF Types, BlockTypes
<1>4. DiskTypes' BY DiskKept DEF Types
<1>5. UsedTypes' BY FailureCounted DEF Types, UsedTypes
<1>6. Phases' BY DEF Phases
<1>7. Position' BY Numbers DEF Phases, Position, AreaEnd, EndOf
<1>8. AreaForm' BY Numbers DEF AreaForm, Phases
<1>9. ZeroedForm' BY DEF ZeroedForm, Phases
<1>10. Mutex' BY DEF Mutex, Aborters, Programs
<1>11. Change' BY DEF Change, Phases
<1>12. Saved' BY DEF Saved
<1>13. Unharmed'
  <2> SUFFICES ASSUME ~excused' PROVE Keys' /\ Lag' /\ Blocks' BY DEF Unharmed
  <2>1. Keys /\ Lag /\ Blocks BY DEF Unharmed
  <2>2. Keys' BY <2>1 DEF Keys, Phases
  <2>3. Lag' BY <2>1, Numbers DEF Lag, Phases, AreaEnd, HeaderEnd, EndOf
  <2>4. Blocks' BY <2>1, BlocksKept
  <2> QED BY <2>2, <2>3, <2>4
<1> QED BY <1>1, <1>2, <1>3, <1>4, <1>5, <1>6, <1>7, <1>8, <1>9, <1>10, <1>11, <1>12, <1>13 DEF Types

LEMMA StepChangeRead == ASSUME SetupInv, ChangeRead PROVE SetupInv'
<1> USE DEF SetupInv, Structure, ChangeRead, Goto, memory, control, thread, programs, Quiet, Buffered, InLoop, Converting, Closing, Encrypting
<1>1. FlagTypes' BY DEF Types, FlagTypes
<1>2. ControlTypes' BY Numbers DEF Types, ControlTypes, Labels
<1>3. BlockTypes' BY Numbers DEF Types, BlockTypes
<1>4. DiskTypes' BY DiskKept DEF Types
<1>5. UsedTypes' BY FailureCounted DEF Types, UsedTypes
<1>6. Phases' BY DEF Phases
<1>7. Position' BY Numbers DEF Phases, Position, AreaEnd, EndOf
<1>8. AreaForm' BY Numbers DEF AreaForm, Phases
<1>9. ZeroedForm' BY DEF ZeroedForm, Phases
<1>10. Mutex' BY DEF Mutex, Aborters, Programs
<1>11. Change' BY DEF Change, Phases
<1>12. Saved' BY DEF Saved
<1>13. Unharmed'
  <2> SUFFICES ASSUME ~excused' PROVE Keys' /\ Lag' /\ Blocks' BY DEF Unharmed
  <2>1. Keys /\ Lag /\ Blocks BY DEF Unharmed
  <2>2. Keys' BY <2>1 DEF Keys, Phases
  <2>3. Lag' BY <2>1, Numbers DEF Lag, Phases, AreaEnd, HeaderEnd, EndOf
  <2>4. Blocks' BY <2>1, BlocksKept
  <2> QED BY <2>2, <2>3, <2>4
<1> QED BY <1>1, <1>2, <1>3, <1>4, <1>5, <1>6, <1>7, <1>8, <1>9, <1>10, <1>11, <1>12, <1>13 DEF Types

LEMMA StepChangeWrite == ASSUME SetupInv, ChangeWrite PROVE SetupInv'
<1> USE DEF SetupInv, Structure, ChangeWrite, NoChange, Goto, memory, control, thread, programs, Quiet, Buffered, InLoop, Converting, Closing, Encrypting
<1>a. /\ header # Zeroed /\ change.length = header.length /\ header.key < MaxPasswords /\ pc \in Quiet /\ sysEnc = "main"
  BY DEF Change
<1>b. /\ header' = [length |-> header.length, key |-> header.key + 1]
      /\ header.length \in 0 .. Size /\ header.key + 1 \in 0 .. MaxPasswords
  BY <1>a, Numbers
<1>c. header' \in Headers /\ header' # Zeroed /\ header'.length = header.length
  BY <1>b DEF Headers, Zeroed, None
<1>1. FlagTypes' BY DEF Types, FlagTypes
<1>2. ControlTypes' BY <1>c, Numbers DEF Types, ControlTypes
<1>3. BlockTypes' BY Numbers DEF Types, BlockTypes
<1>4. DiskTypes' BY DiskKept DEF Types
<1>5. UsedTypes' BY FailureCounted DEF Types, UsedTypes
<1>6. Phases' BY DEF Phases
<1>7. Position' BY Numbers DEF Phases, Position, AreaEnd, EndOf
<1>8. AreaForm' BY Numbers DEF AreaForm, Phases
<1>9. ZeroedForm' BY <1>c DEF ZeroedForm
<1>10. Mutex' BY DEF Mutex, Aborters, Programs
<1>11. Change' BY <1>a, <1>c DEF Change
<1>12. Saved' BY <1>c DEF Saved, LoadedArea
<1>13. Unharmed'
  <2> SUFFICES ASSUME ~excused' PROVE Keys' /\ Lag' /\ Blocks' BY DEF Unharmed
  <2>1. Keys /\ Lag /\ Blocks BY DEF Unharmed
  <2>2. Keys' BY <2>1 DEF Keys
  <2>3. Lag' BY <2>1, <1>c DEF Lag, AreaEnd, HeaderEnd
  <2>4. Blocks' BY <2>1, BlocksKept
  <2> QED BY <2>2, <2>3, <2>4
<1> QED BY <1>1, <1>2, <1>3, <1>4, <1>5, <1>6, <1>7, <1>8, <1>9, <1>10, <1>11, <1>12, <1>13 DEF Types

LEMMA StepChangeReopen == ASSUME SetupInv, ChangeReopen PROVE SetupInv'
<1> USE DEF SetupInv, Structure, ChangeReopen, ReopenBootVolumeHeader, NoChange, Goto, memory, control, thread, programs, Quiet, Buffered, InLoop, Converting, Closing, Encrypting
<1>a. header # Zeroed /\ pc \in Quiet BY DEF Change
<1>b. header.key \in 0 .. MaxPasswords BY <1>a, Numbers
<1>1. FlagTypes' BY DEF Types, FlagTypes
<1>2. ControlTypes' BY <1>b, Numbers DEF Types, ControlTypes
<1>3. BlockTypes' BY Numbers DEF Types, BlockTypes
<1>4. DiskTypes' BY DiskKept DEF Types
<1>5. UsedTypes' BY FailureCounted DEF Types, UsedTypes
<1>6. Phases' BY <1>b, <1>a DEF Phases, None
<1>7. Position' BY Numbers DEF Phases, Position, AreaEnd, EndOf
<1>8. AreaForm' BY Numbers DEF AreaForm, Phases
<1>9. ZeroedForm' BY DEF ZeroedForm, Phases
<1>10. Mutex' BY DEF Mutex, Aborters, Programs
<1>11. Change' BY DEF Change, Phases
<1>12. Saved' BY DEF Saved
<1>13. Unharmed'
  <2> SUFFICES ASSUME ~excused' PROVE Keys' /\ Lag' /\ Blocks' BY DEF Unharmed
  <2>1. Keys /\ Lag /\ Blocks BY DEF Unharmed
  <2>2. Keys' BY <2>1, <1>b DEF Keys, Phases, None
  <2>3. Lag' BY <2>1, Numbers DEF Lag, Phases, AreaEnd, HeaderEnd, EndOf
  <2>4. Blocks' BY <2>1, BlocksKept
  <2> QED BY <2>2, <2>3, <2>4
<1> QED BY <1>1, <1>2, <1>3, <1>4, <1>5, <1>6, <1>7, <1>8, <1>9, <1>10, <1>11, <1>12, <1>13 DEF Types

LEMMA StepShutdown == ASSUME SetupInv, Shutdown PROVE SetupInv'
<1> USE DEF SetupInv, Structure, Shutdown, NoChange, Goto, memory, control, thread, programs, Quiet, Buffered, InLoop, Converting, Closing, Encrypting
<1>1. FlagTypes' BY DEF Types, FlagTypes
<1>2. ControlTypes' BY Numbers DEF Types, ControlTypes
<1>3. BlockTypes' BY Numbers DEF Types, BlockTypes
<1>4. DiskTypes' BY DiskKept DEF Types
<1>5. UsedTypes'
  <2>1. used' = [used EXCEPT !.shutdowns = @ + 1] /\ used.shutdowns < MaxShutdowns OBVIOUS
  <2> QED BY <2>1, SizesAssumption DEF Types, UsedTypes
<1>6. Phases' BY DEF Phases
<1>7. Position' BY Numbers DEF Phases, Position, AreaEnd, EndOf
<1>8. AreaForm' BY Numbers DEF AreaForm, Phases
<1>9. ZeroedForm' BY DEF ZeroedForm, Phases
<1>10. Mutex' BY DEF Mutex, Aborters, Programs
<1>11. Change' BY DEF Change, Phases
<1>12. Saved' BY DEF Saved
<1>13. Unharmed'
  <2> SUFFICES ASSUME ~excused' PROVE Keys' /\ Lag' /\ Blocks' BY DEF Unharmed
  <2>1. Keys /\ Lag /\ Blocks BY DEF Unharmed
  <2>2. Keys' BY <2>1 DEF Keys, Phases
  <2>3. Lag' BY <2>1, Numbers DEF Lag, Phases, AreaEnd, HeaderEnd, EndOf
  <2>4. Blocks' BY <2>1, BlocksKept
  <2> QED BY <2>2, <2>3, <2>4
<1> QED BY <1>1, <1>2, <1>3, <1>4, <1>5, <1>6, <1>7, <1>8, <1>9, <1>10, <1>11, <1>12, <1>13 DEF Types

LEMMA StepBoot == ASSUME SetupInv, Boot, UsedTypes', disk' \in [Units -> Contents] PROVE SetupInv'
<1> USE DEF SetupInv, Structure, Boot, NoChange, NoBuffer, NoRequest, Goto, memory, control, thread, programs, Quiet, Buffered, InLoop, Converting, Closing, Encrypting
<1>a. header' = header /\ header \in Headers /\ excused' = excused BY DEF Types, ControlTypes
<1>b. /\ LoadedArea(header) \in Areas
      /\ LoadedArea(header) = NoArea \/ LoadedArea(header).end >= 1
      /\ EndOf(LoadedArea(header).end) = HeaderEnd
  <2>1. CASE header.length \in {0, None}
    BY <2>1 DEF LoadedArea, Areas, NoArea, EndOf, HeaderEnd, None
  <2>2. CASE header.length \notin {0, None}
    <3>1. header.length \in 1 .. Size BY <2>2, Numbers DEF None
    <3>2. LoadedArea(header) = [start |-> 1, end |-> header.length]
      BY <2>2, <3>1 DEF LoadedArea, ConfiguredStart
    <3> QED BY <3>1, <3>2, AreaMade DEF EndOf, HeaderEnd, None
  <2> QED BY <2>1, <2>2
<1>c. header.key \in {None} \cup 0 .. MaxPasswords /\ (header # Zeroed <=> header.key # None)
  BY Numbers DEF None
<1>1. FlagTypes' BY <1>a DEF Types, FlagTypes
<1>2. ControlTypes' BY <1>a, <1>b, <1>c, Numbers DEF Types, ControlTypes, Labels
<1>3. BlockTypes' BY Numbers DEF Types, BlockTypes, ConfiguredStart
<1>4. DiskTypes' BY DEF DiskTypes
<1>5. UsedTypes' OBVIOUS
<1>6. Phases' BY <1>c DEF Phases
<1>7. Position' BY DEF Position
<1>8. AreaForm' BY <1>b DEF AreaForm
<1>9. ZeroedForm' BY DEF ZeroedForm
<1>10. Mutex' BY DEF Mutex, Aborters, Programs
<1>11. Change' BY DEF Change
<1>12. Saved' BY DEF Saved
<1>13. Unharmed'
  <2> SUFFICES ASSUME ~excused' PROVE Keys' /\ Lag' /\ Blocks' BY DEF Unharmed
  <2>1. Keys /\ Lag /\ Blocks BY <1>a DEF Unharmed
  <2>2. Keys' BY DEF Keys
  <2>3. Lag'
    <3>1. AreaEnd' = HeaderEnd /\ HeaderEnd' = HeaderEnd BY <1>a, <1>b DEF AreaEnd, HeaderEnd
    <3> QED BY <3>1 DEF Lag
  <2>4. Blocks' BY DEF Blocks
  <2> QED BY <2>2, <2>3, <2>4
<1> QED BY <1>1, <1>2, <1>3, <1>4, <1>5, <1>6, <1>7, <1>8, <1>9, <1>10, <1>11, <1>12, <1>13 DEF Types

LEMMA StepAbortRequest == ASSUME SetupInv, NEW c \in Aborters, AbortRequest(c) PROVE SetupInv'
<1> USE DEF SetupInv, Structure, AbortRequest, Goto, memory, control, thread, programs, Quiet, Buffered, InLoop, Converting, Closing, Encrypting
<1>1. FlagTypes' BY DEF Types, FlagTypes
<1>2. ControlTypes' BY DEF Types, ControlTypes, Labels
<1>3. BlockTypes' BY Numbers DEF Types, BlockTypes
<1>4. DiskTypes' BY DiskKept DEF Types
<1>5. UsedTypes' BY FailureCounted DEF Types, UsedTypes
<1>6. Phases' BY DEF Phases
<1>7. Position' BY Numbers DEF Phases, Position, AreaEnd, EndOf
<1>8. AreaForm' BY Numbers DEF AreaForm, Phases
<1>9. ZeroedForm' BY DEF ZeroedForm, Phases
<1>10. Mutex' BY DEF Mutex, Aborters, Programs
<1>11. Change' BY DEF Change, Phases
<1>12. Saved' BY DEF Saved
<1>13. Unharmed'
  <2> SUFFICES ASSUME ~excused' PROVE Keys' /\ Lag' /\ Blocks' BY DEF Unharmed
  <2>1. Keys /\ Lag /\ Blocks BY DEF Unharmed
  <2>2. Keys' BY <2>1 DEF Keys, Phases
  <2>3. Lag' BY <2>1, Numbers DEF Lag, Phases, AreaEnd, HeaderEnd, EndOf
  <2>4. Blocks' BY <2>1, BlocksKept
  <2> QED BY <2>2, <2>3, <2>4
<1> QED BY <1>1, <1>2, <1>3, <1>4, <1>5, <1>6, <1>7, <1>8, <1>9, <1>10, <1>11, <1>12, <1>13 DEF Types

LEMMA StepAbortReturn == ASSUME SetupInv, NEW c \in Aborters, AbortReturn(c) PROVE SetupInv'
<1> USE DEF SetupInv, Structure, AbortReturn, Goto, memory, control, thread, programs, Quiet, Buffered, InLoop, Converting, Closing, Encrypting
<1>1. FlagTypes' BY DEF Types, FlagTypes
<1>2. ControlTypes' BY DEF Types, ControlTypes, Labels
<1>3. BlockTypes' BY Numbers DEF Types, BlockTypes
<1>4. DiskTypes' BY DiskKept DEF Types
<1>5. UsedTypes' BY FailureCounted DEF Types, UsedTypes
<1>6. Phases' BY DEF Phases
<1>7. Position' BY Numbers DEF Phases, Position, AreaEnd, EndOf
<1>8. AreaForm' BY Numbers DEF AreaForm, Phases
<1>9. ZeroedForm' BY DEF ZeroedForm, Phases
<1>10. Mutex' BY DEF Mutex, Aborters, Programs
<1>11. Change' BY DEF Change, Phases
<1>12. Saved' BY DEF Saved
<1>13. Unharmed'
  <2> SUFFICES ASSUME ~excused' PROVE Keys' /\ Lag' /\ Blocks' BY DEF Unharmed
  <2>1. Keys /\ Lag /\ Blocks BY DEF Unharmed
  <2>2. Keys' BY <2>1 DEF Keys, Phases
  <2>3. Lag' BY <2>1, Numbers DEF Lag, Phases, AreaEnd, HeaderEnd, EndOf
  <2>4. Blocks' BY <2>1, BlocksKept
  <2> QED BY <2>2, <2>3, <2>4
<1> QED BY <1>1, <1>2, <1>3, <1>4, <1>5, <1>6, <1>7, <1>8, <1>9, <1>10, <1>11, <1>12, <1>13 DEF Types

LEMMA StepCreateSysEncMutex == ASSUME SetupInv, NEW p \in Programs, CreateSysEncMutex(p) PROVE SetupInv'
<1> USE DEF SetupInv, Structure, CreateSysEncMutex, Goto, memory, control, thread, programs, Quiet, Buffered, InLoop, Converting, Closing, Encrypting
<1>1. FlagTypes' BY DEF Types, FlagTypes
<1>2. ControlTypes' BY DEF Types, ControlTypes, Labels
<1>3. BlockTypes' BY Numbers DEF Types, BlockTypes
<1>4. DiskTypes' BY DiskKept DEF Types
<1>5. UsedTypes' BY FailureCounted DEF Types, UsedTypes
<1>6. Phases' BY DEF Phases
<1>7. Position' BY Numbers DEF Phases, Position, AreaEnd, EndOf
<1>8. AreaForm' BY Numbers DEF AreaForm, Phases
<1>9. ZeroedForm' BY DEF ZeroedForm, Phases
<1>10. Mutex' BY DEF Mutex, Aborters, Programs
<1>11. Change' BY DEF Change, Phases
<1>12. Saved' BY DEF Saved
<1>13. Unharmed'
  <2> SUFFICES ASSUME ~excused' PROVE Keys' /\ Lag' /\ Blocks' BY DEF Unharmed
  <2>1. Keys /\ Lag /\ Blocks BY DEF Unharmed
  <2>2. Keys' BY <2>1 DEF Keys, Phases
  <2>3. Lag' BY <2>1, Numbers DEF Lag, Phases, AreaEnd, HeaderEnd, EndOf
  <2>4. Blocks' BY <2>1, BlocksKept
  <2> QED BY <2>2, <2>3, <2>4
<1> QED BY <1>1, <1>2, <1>3, <1>4, <1>5, <1>6, <1>7, <1>8, <1>9, <1>10, <1>11, <1>12, <1>13 DEF Types

LEMMA StepProgramEnds == ASSUME SetupInv, NEW p \in Programs, ProgramEnds(p) PROVE SetupInv'
<1> USE DEF SetupInv, Structure, ProgramEnds, NoChange, Goto, memory, control, thread, programs, Quiet, Buffered, InLoop, Converting, Closing, Encrypting
<1>1. FlagTypes' BY DEF Types, FlagTypes
<1>2. ControlTypes' BY Numbers DEF Types, ControlTypes
<1>3. BlockTypes' BY Numbers DEF Types, BlockTypes
<1>4. DiskTypes' BY DiskKept DEF Types
<1>5. UsedTypes' BY FailureCounted DEF Types, UsedTypes
<1>6. Phases' BY DEF Phases
<1>7. Position' BY Numbers DEF Phases, Position, AreaEnd, EndOf
<1>8. AreaForm' BY Numbers DEF AreaForm, Phases
<1>9. ZeroedForm' BY DEF ZeroedForm, Phases
<1>10. Mutex' BY DEF Mutex, Aborters, Programs
<1>11. Change' BY DEF Change, Phases
<1>12. Saved' BY DEF Saved
<1>13. Unharmed'
  <2> SUFFICES ASSUME ~excused' PROVE Keys' /\ Lag' /\ Blocks' BY DEF Unharmed
  <2>1. Keys /\ Lag /\ Blocks BY DEF Unharmed
  <2>2. Keys' BY <2>1 DEF Keys, Phases
  <2>3. Lag' BY <2>1, Numbers DEF Lag, Phases, AreaEnd, HeaderEnd, EndOf
  <2>4. Blocks' BY <2>1, BlocksKept
  <2> QED BY <2>2, <2>3, <2>4
<1> QED BY <1>1, <1>2, <1>3, <1>4, <1>5, <1>6, <1>7, <1>8, <1>9, <1>10, <1>11, <1>12, <1>13 DEF Types

LEMMA StepUserWrite == ASSUME SetupInv, NEW u \in Units, UserWrite(u) PROVE SetupInv'
<1> USE DEF SetupInv, Structure, UserWrite, Goto, memory, control, thread, programs, Quiet, Buffered, InLoop, Converting, Closing, Encrypting
<1>a. pc \notin {"read"} \cup Buffered BY DEF Phases
<1>1. FlagTypes' BY DEF Types, FlagTypes
<1>2. ControlTypes' BY DEF Types, ControlTypes, Labels
<1>3. BlockTypes' BY Numbers DEF Types, BlockTypes
<1>4. DiskTypes'
  <2>1. Layer(area, u) \in Contents BY DEF Layer, Contents
  <2>2. disk' \in [Units -> Contents] BY <2>1 DEF Types, DiskTypes
  <2> QED BY <1>a, <2>2 DEF DiskTypes
<1>5. UsedTypes' BY FailureCounted DEF Types, UsedTypes
<1>6. Phases' BY DEF Phases
<1>7. Position' BY Numbers DEF Phases, Position, AreaEnd, EndOf
<1>8. AreaForm' BY Numbers DEF AreaForm, Phases
<1>9. ZeroedForm' BY DEF ZeroedForm, Phases
<1>10. Mutex' BY DEF Mutex, Aborters, Programs
<1>11. Change' BY DEF Change, Phases
<1>12. Saved' BY DEF Saved
<1>13. Unharmed'
  <2> SUFFICES ASSUME ~excused' PROVE Keys' /\ Lag' /\ Blocks' BY DEF Unharmed
  <2>1. Keys /\ Lag /\ Blocks BY DEF Unharmed
  <2>2. Keys' BY <2>1 DEF Keys, Phases
  <2>3. Lag' BY <2>1, Numbers DEF Lag, Phases, AreaEnd, HeaderEnd, EndOf
  <2>4. Blocks' BY <1>a DEF Blocks
  <2> QED BY <2>2, <2>3, <2>4
<1> QED BY <1>1, <1>2, <1>3, <1>4, <1>5, <1>6, <1>7, <1>8, <1>9, <1>10, <1>11, <1>12, <1>13 DEF Types

LEMMA StepPowerLoss == ASSUME SetupInv, PowerLoss PROVE SetupInv'
<1>1. UsedTypes'
  <2>1. used' = [used EXCEPT !.crashes = @ + 1] /\ used.crashes < MaxCrashes BY DEF PowerLoss
  <2> QED BY <2>1, SizesAssumption DEF SetupInv, Structure, Types, UsedTypes
<1>2. Types BY DEF SetupInv, Structure
<1>3. disk' \in [Units -> Contents]
  <2>1. CASE pc = "wipe" BY <1>2, <2>1, RuinedBlock, AttemptsBlock DEF PowerLoss, Converting, Buffered, WithinBlock
  <2>2. CASE pc = "write"
    <3>1. buffer.new \in [Block -> Contents] BY <1>2, <2>2 DEF Types, DiskTypes, Buffered
    <3> QED BY <1>2, <2>2, <3>1, AttemptsBlock DEF PowerLoss, Converting, Buffered, WithinBlock
  <2>3. CASE pc = "undo"
    <3>1. Restored \in [Block -> Contents] BY <1>2, <2>3, RestoredBlock DEF Buffered
    <3> QED BY <1>2, <2>3, <3>1, AttemptsBlock DEF PowerLoss, Converting, Buffered, WithinBlock
  <2>4. CASE pc \notin {"wipe", "write", "undo"} BY <1>2, <2>4 DEF PowerLoss, Types, DiskTypes
  <2> QED BY <2>1, <2>2, <2>3, <2>4
<1> QED BY <1>1, <1>3, StepBoot DEF PowerLoss

LEMMA StepPowerOff == ASSUME SetupInv, PowerOff PROVE SetupInv'
<1>1. UsedTypes' /\ disk' \in [Units -> Contents]
  BY DEF PowerOff, SetupInv, Structure, Types, UsedTypes, DiskTypes
<1> QED BY <1>1, StepBoot DEF PowerOff

LEMMA StepNone == ASSUME SetupInv, UNCHANGED vars PROVE SetupInv'
<1> USE DEF SetupInv, Structure, vars, memory, control, thread, programs
<1>1. Types' BY DEF Types, FlagTypes, ControlTypes, BlockTypes, UsedTypes, DiskTypes, Block
<1>2. Phases' /\ Position' /\ AreaForm' /\ ZeroedForm' /\ Mutex' /\ Change' /\ Saved'
  BY DEF Phases, Position, AreaForm, AreaEmpty, ZeroedForm, Mutex, Change, Saved, LoadedArea,
         Encrypting, AreaEnd, EndOf
<1>3. Unharmed'
  BY DEF Unharmed, Keys, Lag, Blocks, Converted, Encrypting, AreaEnd, HeaderEnd, EndOf, Block
<1> QED BY <1>1, <1>2, <1>3

LEMMA StepThread == ASSUME SetupInv, SetupThread PROVE SetupInv'
BY StepBegin, StepHoldAborted, StepHoldFirst, StepLoop, StepHold, StepRead, StepReadFails, StepWipe,
   StepWrite, StepWriteFails, StepUndo, StepAdvance, StepSave, StepEpilogue, StepFinish, StepFinalSave,
   StepLock, StepDismount, StepUnlock, StepEnd DEF SetupThread

\* What holds of the setup thread, the programs and the header in every state.
THEOREM SetupInvariant == Spec => []SetupInv
<1>1. Init => SetupInv
  <2> SUFFICES ASSUME Init PROVE SetupInv OBVIOUS
  <2> USE DEF Init, NoArea, NoChange, NoBuffer, NoRequest, None, ConfiguredStart
  <2>1. Types
    <3>1. FlagTypes BY DEF FlagTypes
    <3>2. ControlTypes
      BY SizesAssumption DEF ControlTypes, Headers, Areas, Aborters, Programs, Labels
    <3>3. BlockTypes /\ UsedTypes BY SizesAssumption DEF BlockTypes, UsedTypes, Converting, Buffered
    <3>4. DiskTypes BY DEF DiskTypes, Contents, Buffered
    <3> QED BY <3>1, <3>2, <3>3, <3>4 DEF Types
  <2>2. Phases /\ Position /\ AreaForm /\ Mutex /\ Change /\ Saved
    BY DEF Phases, Position, AreaForm, Mutex, Change, Saved, Quiet, InLoop, Closing, Converting,
           Buffered, Aborters, Programs
  <2>3. header # Zeroed BY DEF Zeroed
  <2>4. Unharmed /\ ZeroedForm
    BY <2>3, SizesAssumption DEF Unharmed, ZeroedForm, Keys, Lag, Blocks, AreaEnd, HeaderEnd, EndOf,
       InLoop, Closing, Converting, Buffered
  <2> QED BY <2>1, <2>2, <2>4 DEF SetupInv, Structure
<1>2. SetupInv /\ [Next]_vars => SetupInv'
  <2> SUFFICES ASSUME SetupInv, [Next]_vars PROVE SetupInv' OBVIOUS
  <2>1. CASE SetupThread BY <2>1, StepThread
  <2>2. ASSUME NEW p \in Programs, CreateSysEncMutex(p) \/ ProgramEnds(p) \/ Pause(p) PROVE SetupInv'
    BY <2>2, StepCreateSysEncMutex, StepProgramEnds, StepAbortRequest DEF Pause, Aborters
  <2>3. ASSUME NEW c \in Aborters, AbortReturn(c) PROVE SetupInv' BY <2>3, StepAbortReturn
  <2>4. CASE Resume \/ ChangeCheck \/ ChangeRead \/ ChangeWrite \/ ChangeReopen \/ EmergencyClearAllKeys
    BY <2>4, StepResume, StepChangeCheck, StepChangeRead, StepChangeWrite, StepChangeReopen,
       StepEmergencyClearAllKeys
  <2>5. ASSUME NEW u \in Units, UserWrite(u) PROVE SetupInv' BY <2>5, StepUserWrite
  <2>6. CASE PowerLoss \/ Shutdown \/ PowerAborts \/ PowerOff
    BY <2>6, StepPowerLoss, StepShutdown, StepPowerOff, StepAbortRequest DEF PowerAborts, Aborters
  <2>7. CASE UNCHANGED vars BY <2>7, StepNone
  <2> QED BY <2>1, <2>2, <2>3, <2>4, <2>5, <2>6, <2>7 DEF Next
<1> QED BY <1>1, <1>2, PTL DEF Spec

\* Every variable keeps its type, and a block under way lies in the configured
\* area: the block is cut at the end of the area for an encryption and at its
\* start for a decryption.  (SetupThreadProc.)
THEOREM TypesHold == Spec => []TypeOK
<1>1. SetupInv => TypeOK BY TypesCorrect DEF SetupInv, Structure
<1> QED BY <1>1, SetupInvariant, PTL

\* The drive is dismounted with nobody else in a control code, except a caller
\* that waits for the thread.  (SetupThreadProc.)
THEOREM DismountIsExclusive == Spec => []DismountExclusive
<1>1. SetupInv => DismountExclusive
  BY DEF SetupInv, Structure, Types, ControlTypes, Mutex, DismountExclusive
<1> QED BY <1>1, SetupInvariant, PTL

\* A password change writes no header that a setup has made stale.  (ChangePassword.)
THEOREM NoHeaderIsStale == Spec => []NoStaleHeaderWrite
<1>1. SetupInv => NoStaleHeaderWrite
  BY DEF SetupInv, Structure, Phases, Change, NoStaleHeaderWrite, Types, FlagTypes
<1> QED BY <1>1, SetupInvariant, PTL

\* A setup that reported success has left a header from which a restart finds the
\* area that is in memory.  (SetupThreadProc.)
THEOREM SuccessMeansSaved == Spec => []SuccessIsSaved
<1>1. SetupInv => SuccessIsSaved
  <2> SUFFICES ASSUME SetupInv, pc = "ended", result = "ok", updateRequired \/ ~excused
               PROVE  LoadedArea(header) = area
    BY DEF SuccessIsSaved
  <2>1. CASE updateRequired BY <2>1 DEF SetupInv, Saved
  <2>2. CASE ~excused
    <3>1. AreaEnd = HeaderEnd
      BY <2>2 DEF SetupInv, Unharmed, Lag, InLoop, Closing, Converting, Buffered
    <3>2. area = NoArea \/ area.end >= 1
      BY DEF SetupInv, Structure, AreaForm, InLoop, Converting, Buffered
    <3>3. /\ area = [start |-> area.start, end |-> area.end] /\ area.end \in Int
          /\ area.start \in {-1, 1} /\ (area.start = -1 => area.end = -1)
          /\ header.length \in Int /\ header.length >= -1
      BY Numbers DEF SetupInv, Structure
    <3>4. CASE area = NoArea
      <4>1. header.length \in {0, None} BY <3>1, <3>3, <3>4 DEF NoArea, AreaEnd, HeaderEnd, EndOf, None
      <4> QED BY <3>4, <4>1 DEF LoadedArea
    <3>5. CASE area.end >= 1
      <4>1. header.length = area.end /\ area.start = 1
        BY <3>1, <3>3, <3>5 DEF AreaEnd, HeaderEnd, EndOf, None
      <4>2. LoadedArea(header) = [start |-> 1, end |-> area.end]
        BY <3>3, <3>5, <4>1 DEF LoadedArea, ConfiguredStart, None
      <4> QED BY <3>3, <4>1, <4>2
    <3> QED BY <3>2, <3>4, <3>5
  <2> QED BY <2>1, <2>2
<1> QED BY <1>1, SetupInvariant, PTL
-----------------------------------------------------------------------------
(***************************************************************************)
(* SystemEncryption implements SafeConversion, for any size of the area, of  *)
(* a block and of the interval between header saves, and however often the  *)
(* conversion is started, interrupted and failed.                           *)
(***************************************************************************)

\* A unit gives its data back by the area up to AreaEnd.
LEMMA LayerIs ==
  ASSUME Types, NEW u \in Units
  PROVE  Layer(area, u) = IF u <= AreaEnd THEN "cipher" ELSE "plain"
<1>1. /\ area.end \in Int /\ area.end >= -1 /\ area.start \in {-1, 1} /\ (area.start = -1 => area.end = -1)
  BY Numbers
<1>2. u \in Int /\ u >= 1 BY Numbers DEF Units, ConfiguredStart, ConfiguredEnd
<1>3. u \in InArea(area) <=> u <= AreaEnd
  BY <1>1, <1>2 DEF InArea, AreaEmpty, AreaEnd, EndOf, None
<1> QED BY <1>3 DEF Layer

LEMMA LayerIsPrime ==
  ASSUME Types', NEW u \in Units
  PROVE  Layer(area', u) = IF u <= AreaEnd' THEN "cipher" ELSE "plain"
<1>1. /\ area'.end \in Int /\ area'.end >= -1 /\ area'.start \in {-1, 1} /\ (area'.start = -1 => area'.end = -1)
  <2>1. /\ Size \in Nat /\ area' \in Areas
    BY SizesAssumption DEF Types, ControlTypes
  <2> QED BY <2>1 DEF Areas, NoArea, None, ConfiguredStart, ConfiguredEnd
<1>2. u \in Int /\ u >= 1 BY SizesAssumption DEF Units, ConfiguredStart, ConfiguredEnd
<1>3. u \in InArea(area') <=> u <= AreaEnd'
  BY <1>1, <1>2 DEF InArea, AreaEmpty, AreaEnd, EndOf, None
<1> QED BY <1>3 DEF Layer

\* Intact, outside and inside of the thread's buffer.
LEMMA IntactDisk ==
  ASSUME pc \notin Buffered
  PROVE  Intact = {u \in Units : disk[u] = Layer(area, u)}
BY DEF Intact, Buffered

LEMMA IntactDiskPrime ==
  ASSUME pc' \notin Buffered
  PROVE  Intact' = {u \in Units : disk'[u] = Layer(area', u)}
BY DEF Intact, Buffered, Layer, InArea, AreaEmpty

LEMMA IntactBuffer ==
  ASSUME pc \in Buffered
  PROVE  Intact = {u \in Units : IF u \in Block THEN buffer.old[u] = Layer(area, u) ELSE disk[u] = Layer(area, u)}
BY DEF Intact, Buffered

LEMMA IntactBufferPrime ==
  ASSUME pc' \in Buffered
  PROVE  Intact' = {u \in Units : IF u \in Block' THEN buffer'.old[u] = Layer(area', u) ELSE disk'[u] = Layer(area', u)}
BY DEF Intact, Buffered, Layer, InArea, AreaEmpty, Block

\* A step that leaves the disk and what the area says of it alone.
LEMMA IntactKept ==
  ASSUME disk' = disk, pc \notin Buffered, pc' \notin Buffered,
         \A u \in Units : Layer(area', u) = Layer(area, u)
  PROVE  Intact' = Intact
BY IntactDisk, IntactDiskPrime

\* A step that leaves the thread and the disk alone.
LEMMA IntactThread ==
  ASSUME UNCHANGED <<disk, area, pc, offset, block, buffer>>
  PROVE  Intact' = Intact
BY DEF Intact, Layer, InArea, AreaEmpty, Block

\* What a step does that neither loses data nor fails.
Preserved == excused' = excused /\ used'.crashes = used.crashes /\ Intact' = Intact

LEMMA KeptSimple ==
  ASSUME SetupInv, ~excused',
         Begin \/ HoldAborted \/ Loop \/ Hold \/ ReadFails \/ Save \/ FinalSave \/ Lock
           \/ Dismount \/ Unlock \/ End \/ Resume
  PROVE  Preserved
<1> USE DEF memory, control, thread, programs, Goto
<1>1. UsedTypes BY DEF SetupInv, Structure, Types
<1>2. /\ disk' = disk /\ area' = area /\ pc \notin Buffered /\ pc' \notin Buffered
      /\ excused' = excused
  BY DEF Begin, HoldAborted, Loop, Hold, ReadFails, Save, SaveDone, SaveFailed, FinalSave, AfterSave,
         Lock, Dismount, Unlock, End, Resume, StartBootEncryptionSetup, Buffered, SetupInv,
         Structure, Phases, Quiet
<1>3. used'.crashes = used.crashes
  BY <1>1 DEF Begin, HoldAborted, Loop, Hold, ReadFails, Save, SaveDone, SaveFailed, FinalSave,
         Lock, Dismount, Unlock, End, Resume, StartBootEncryptionSetup, CountFailure, UsedTypes
<1>4. Intact' = Intact BY <1>2, IntactKept
<1> QED BY <1>2, <1>3, <1>4 DEF Preserved

\* The area of one unit less than none is that of none.
LEMMA KeptArea ==
  ASSUME SetupInv, HoldFirst \/ Epilogue \/ Finish
  PROVE  Preserved
<1> USE DEF memory, control, thread, programs, Goto
<1>1. /\ disk' = disk /\ pc \notin Buffered /\ pc' \notin Buffered
      /\ excused' = excused /\ used' = used
  BY DEF HoldFirst, StartEncryption, ResumeEncryption, StartDecryption, Epilogue, Finish, Buffered
<1>2. InArea(area') = InArea(area)
  <2>1. CASE HoldFirst
    BY <2>1 DEF HoldFirst, StartEncryption, ResumeEncryption, StartDecryption, InArea, AreaEmpty
  <2>2. CASE Epilogue
    BY <2>2 DEF Epilogue, InArea, AreaEmpty, NoArea
  <2>3. CASE Finish
    BY <2>3 DEF Finish, InArea, AreaEmpty, NoArea, SetupInv, Structure, AreaForm
  <2> QED BY <2>1, <2>2, <2>3
<1>3. Intact' = Intact BY <1>1, <1>2, IntactKept DEF Layer
<1> QED BY <1>1, <1>3 DEF Preserved

LEMMA KeptPrograms ==
  ASSUME SetupInv, ~excused',
         \/ EmergencyClearAllKeys \/ ChangeCheck \/ ChangeRead \/ ChangeWrite \/ ChangeReopen \/ Shutdown
         \/ \E p \in Programs : CreateSysEncMutex(p) \/ ProgramEnds(p)
         \/ \E c \in Aborters : AbortRequest(c)
  PROVE  Preserved
<1> USE DEF memory, control, thread, programs, Goto
<1>1. UsedTypes /\ excused \in BOOLEAN /\ excused' = excused
  BY DEF SetupInv, Structure, Types, FlagTypes, EmergencyClearAllKeys, ChangeCheck, ChangeRead, ChangeWrite,
         ChangeReopen, Shutdown, CreateSysEncMutex, ProgramEnds, AbortRequest
<1>2. UNCHANGED <<disk, area, pc, offset, block, buffer>>
  BY DEF EmergencyClearAllKeys, ChangeCheck, ChangeRead, ChangeWrite, ChangeReopen, Shutdown,
         CreateSysEncMutex, ProgramEnds, AbortRequest
<1>3. used'.crashes = used.crashes
  BY <1>1 DEF EmergencyClearAllKeys, ChangeCheck, ChangeRead, ChangeWrite, ChangeReopen, Shutdown,
         CreateSysEncMutex, ProgramEnds, AbortRequest, UsedTypes
<1> QED BY <1>1, <1>2, <1>3, IntactThread DEF Preserved

LEMMA KeptReturn ==
  ASSUME NEW c \in Aborters, AbortReturn(c)
  PROVE  Preserved
<1>1. /\ disk' = disk /\ area' = area /\ pc \notin Buffered /\ pc' \notin Buffered
      /\ excused' = excused /\ used' = used
  BY DEF AbortReturn, Goto, memory, Buffered
<1> QED BY <1>1, IntactKept DEF Preserved

\* The block is kept in the buffer as long as the disk does not have it.
LEMMA KeptBlock ==
  ASSUME SetupInv, SetupInv', ~excused', Read \/ Wipe \/ Write \/ WriteFails
  PROVE  Preserved
<1> USE DEF memory, control, thread, programs, Goto
<1>1. Types /\ UsedTypes /\ Block \subseteq Units
  BY BlockOnDisk DEF SetupInv, Structure, Types, Read, Wipe, Write, WriteFails, Converting, Buffered
<1>2. /\ area' = area /\ Block' = Block /\ pc' \in Buffered /\ excused' = excused
      /\ WithinBlock(disk') /\ used'.crashes = used.crashes
  <2>1. area' = area /\ Block' = Block /\ pc' \in Buffered /\ excused' = excused
    BY DEF Read, Wipe, Write, WriteFails, Buffered, Block
  <2>2. WithinBlock(disk')
    <3>1. CASE Read BY <1>1, <3>1 DEF Read, WithinBlock, Types, DiskTypes
    <3>2. CASE Wipe BY <1>1, <3>2, OverwrittenBlock, RuinedBlock DEF Wipe, Converting, Buffered
    <3>3. CASE Write BY <1>1, <3>3, WrittenBlock
    <3>4. CASE WriteFails BY <1>1, <3>4, FailedBlock
    <3> QED BY <3>1, <3>2, <3>3, <3>4
  <2>3. used'.crashes = used.crashes
    BY <1>1 DEF Read, Wipe, Write, WriteFails, CountFailure, UsedTypes
  <2> QED BY <2>1, <2>2, <2>3
<1>3. Intact' = {u \in Units : IF u \in Block THEN buffer'.old[u] = Layer(area, u) ELSE disk[u] = Layer(area, u)}
  BY <1>2, IntactBufferPrime DEF WithinBlock
<1>4. CASE Read
  <2>1. \A u \in Block : buffer'.old[u] = disk[u] BY <1>4, ReadBlock
  <2>2. pc \notin Buffered BY <1>4 DEF Read, Buffered
  <2> QED BY <1>2, <1>3, <2>1, <2>2, IntactDisk DEF Preserved
<1>5. CASE Wipe \/ Write \/ WriteFails
  <2>1. pc \in Buffered /\ buffer' = buffer BY <1>5 DEF Wipe, Write, WriteFails, Buffered
  <2> QED BY <1>2, <1>3, <2>1, IntactBuffer DEF Preserved
<1> QED BY <1>4, <1>5

LEMMA KeptUndo ==
  ASSUME SetupInv, ~excused', Undo
  PROVE  Preserved
<1> USE DEF memory, control, thread, programs, Goto
<1>1. Types /\ pc \in Buffered /\ pc \in Converting /\ Block \subseteq Units
  BY BlockOnDisk DEF SetupInv, Structure, Undo, Converting, Buffered
<1>2. /\ area' = area /\ pc' \notin Buffered /\ excused' = excused /\ used' = used
      /\ disk' = Overwritten(Restored)
  BY DEF Undo, Buffered
<1>3. Restored = buffer.old /\ buffer.old \in [Block -> Contents]
  <2>1. ~excused BY <1>2
  <2>2. ~keysErased /\ ~buffer.erased BY <1>1, <2>1 DEF SetupInv, Unharmed, Keys, Blocks
  <2>3. buffer.erased \in BOOLEAN /\ keysErased \in BOOLEAN /\ buffer.old \in [Block -> Contents]
    BY <1>1 DEF Types, DiskTypes, FlagTypes
  <2> QED BY <2>2, <2>3 DEF Restored
<1>4. WithinBlock(disk') /\ \A u \in Block : disk'[u] = buffer.old[u]
  BY <1>1, <1>2, <1>3, OverwrittenBlock
<1>5. Intact' = Intact
  BY <1>1, <1>2, <1>4, IntactBuffer, IntactDiskPrime DEF WithinBlock
<1> QED BY <1>2, <1>5 DEF Preserved

\* A block that is converted changes its layer with the end of the area.
LEMMA KeptAdvance ==
  ASSUME SetupInv, SetupInv', ~excused', Advance
  PROVE  Preserved
<1>1. /\ Types /\ Types' /\ pc \in Buffered /\ pc' \notin Buffered /\ Block \subseteq Units
      /\ disk' = disk /\ excused' = excused /\ used' = used /\ ~excused
  BY BlockOnDisk DEF SetupInv, Structure, Advance, Converting, Buffered, Goto
<1>2. /\ \A u \in Block : buffer.new[u] = Converted(buffer.old[u]) /\ disk[u] = buffer.new[u]
      /\ buffer.old \in [Block -> Contents]
  BY <1>1 DEF SetupInv, Unharmed, Blocks, Advance, Types, DiskTypes
<1>3. /\ offset \in Int /\ block \in Int /\ block >= 0 /\ AreaEnd \in Int
      /\ IF Encrypting THEN offset = AreaEnd + 1 /\ AreaEnd' = AreaEnd + block
                       ELSE offset + block = AreaEnd + 1 /\ AreaEnd' = AreaEnd - block
  <2>1. /\ offset \in Int /\ offset >= 1 /\ block \in Int /\ block >= 0 /\ AreaEnd \in Int
        /\ area = [start |-> area.start, end |-> area.end]
    BY <1>1, Numbers DEF AreaEnd, EndOf, None
  <2>2. /\ IF Encrypting THEN offset = AreaEnd + 1 ELSE offset + block = AreaEnd + 1
        /\ block >= 1
    BY DEF SetupInv, Structure, Position, Phases, Advance, Converting, InLoop, Buffered
  <2>3. /\ offset' = (IF Encrypting THEN offset + block ELSE offset)
        /\ area'.end = offset' - 1
    <3>1. area' = [area EXCEPT !.end = offset' - 1] BY DEF Advance
    <3>2. area'.end = offset' - 1 BY <2>1, <3>1
    <3> QED BY <3>2 DEF Advance, Encrypting
  <2>4. AreaEnd' = offset' - 1 BY <2>1, <2>2, <2>3 DEF AreaEnd, EndOf, None
  <2> QED BY <2>1, <2>2, <2>3, <2>4
<1>4. ASSUME NEW u \in Units
      PROVE  disk'[u] = Layer(area', u) <=>
               IF u \in Block THEN buffer.old[u] = Layer(area, u) ELSE disk[u] = Layer(area, u)
  <2>1. /\ Layer(area, u) = IF u <= AreaEnd THEN "cipher" ELSE "plain"
        /\ Layer(area', u) = IF u <= AreaEnd' THEN "cipher" ELSE "plain"
    BY <1>1, LayerIs, LayerIsPrime
  <2>2. u \in Int BY SizesAssumption DEF Units, ConfiguredStart, ConfiguredEnd
  <2>3. u \in Block <=> offset <= u /\ u <= offset + block - 1 BY <1>3, <2>2 DEF Block
  <2>4. CASE u \notin Block
    <3>1. (u <= AreaEnd) <=> (u <= AreaEnd') BY <1>3, <2>2, <2>3, <2>4
    <3> QED BY <1>1, <2>1, <2>4, <3>1
  <2>5. CASE u \in Block
    <3>1. IF Encrypting THEN ~(u <= AreaEnd) /\ u <= AreaEnd' ELSE u <= AreaEnd /\ ~(u <= AreaEnd')
      BY <1>3, <2>2, <2>3, <2>5
    <3>2. disk'[u] = Converted(buffer.old[u]) BY <1>1, <1>2, <2>5
    <3> QED BY <2>1, <2>5, <3>1, <3>2 DEF Converted
  <2> QED BY <2>4, <2>5
<1>5. Intact' = Intact BY <1>1, <1>4, IntactBuffer, IntactDiskPrime
<1> QED BY <1>1, <1>5 DEF Preserved

\* The area that a restart finds ends where the header says.
LEMMA BootArea ==
  ASSUME Types, Boot
  PROVE  AreaEnd' = HeaderEnd
<1>1. header.length \in Int /\ header.length >= -1 BY Numbers
<1>2. area'.end = IF header.length \in {0, None} THEN None ELSE header.length
  BY <1>1 DEF Boot, LoadedArea, NoArea, ConfiguredStart
<1> QED BY <1>1, <1>2 DEF AreaEnd, HeaderEnd, EndOf, None

LEMMA KeptPowerOff ==
  ASSUME SetupInv, SetupInv', ~excused', PowerOff
  PROVE  Preserved
<1>1. /\ Types /\ Types' /\ disk' = disk /\ used' = used /\ excused' = excused
      /\ pc \notin Buffered /\ pc' \notin Buffered
  BY DEF SetupInv, Structure, PowerOff, Boot, Buffered
<1>2. AreaEnd = HeaderEnd
  BY <1>1 DEF SetupInv, Unharmed, Lag, PowerOff, InLoop, Closing, Converting, Buffered
<1>3. AreaEnd' = AreaEnd BY <1>1, <1>2, BootArea DEF PowerOff
<1>4. \A u \in Units : Layer(area', u) = Layer(area, u)
  BY <1>1, <1>3, LayerIs, LayerIsPrime
<1> QED BY <1>1, <1>4, IntactKept DEF Preserved

LEMMA UnionBound ==
  ASSUME NEW S, NEW T, IsFiniteSet(S), IsFiniteSet(T),
         NEW m \in Int, NEW n \in Int, Cardinality(S) <= m, Cardinality(T) <= n
  PROVE  IsFiniteSet(S \cup T) /\ Cardinality(S \cup T) <= m + n
<1>1. /\ IsFiniteSet(S \cup T)
      /\ Cardinality(S \cup T) = Cardinality(S) + Cardinality(T) - Cardinality(S \cap T)
  BY FS_Union
<1>2. IsFiniteSet(S \cap T) BY FS_Subset
<1>3. Cardinality(S) \in Nat /\ Cardinality(T) \in Nat /\ Cardinality(S \cap T) \in Nat
  BY <1>2, FS_CardinalityType
<1> QED BY <1>1, <1>3

\* A power loss costs at most the block that is torn and the blocks that the
\* header does not know of.
LEMMA LossIsBounded ==
  ASSUME SetupInv, SetupInv', ~excused', PowerLoss
  PROVE  Cardinality(Intact \ Intact') <= Tolerance
<1> DEFINE torn == IF pc \in Buffered THEN Block ELSE {}
           low == IF AreaEnd < HeaderEnd THEN AreaEnd + 1 ELSE HeaderEnd + 1
           high == IF AreaEnd < HeaderEnd THEN HeaderEnd ELSE AreaEnd
<1>1. /\ Types /\ Types' /\ ~excused /\ pc' \notin Buffered
  BY DEF SetupInv, Structure, PowerLoss, Boot, Buffered
<1>2. /\ AreaEnd \in Int /\ HeaderEnd \in Int /\ AreaEnd' = HeaderEnd
      /\ offset \in Int /\ block \in Nat /\ block <= BlockSize /\ bytes \in Nat
      /\ BlockSize \in Nat /\ Threshold \in Nat /\ BlockSize >= 1 /\ Threshold >= 1
  BY <1>1, Numbers, BootArea DEF AreaEnd, HeaderEnd, EndOf, None, PowerLoss
<1>3. \A u \in Units \ torn : disk'[u] = disk[u]
  <2>1. CASE pc \notin Buffered BY <2>1 DEF PowerLoss, Buffered
  <2>2. CASE pc \in Buffered
    <3>1. pc \in Converting BY <2>2 DEF Converting
    <3>2. Restored \in [Block -> Contents] /\ Ruined \in [Block -> Contents] /\ buffer.new \in [Block -> Contents]
      BY <1>1, <2>2, RestoredBlock, RuinedBlock DEF Types, DiskTypes
    <3>3. disk' = disk \/ \E f \in [Block -> Contents] : disk' \in Attempts(f)
      BY <2>2, <3>2 DEF PowerLoss, Buffered
    <3> QED BY <1>1, <2>2, <3>1, <3>3, AttemptsBlock DEF WithinBlock
  <2> QED BY <2>1, <2>2
<1>4. Intact \ Intact' \subseteq torn \cup low .. high
  <2> SUFFICES ASSUME NEW u \in Intact, u \notin torn, u \notin low .. high PROVE u \in Intact'
    OBVIOUS
  <2>1. u \in Units /\ disk[u] = Layer(area, u) BY DEF Intact, Buffered
  <2>2. u \in Int BY <2>1, SizesAssumption DEF Units, ConfiguredStart, ConfiguredEnd
  <2>3. u <= AreaEnd <=> u <= AreaEnd' BY <1>2, <2>2
  <2>4. Layer(area', u) = Layer(area, u) BY <1>1, <2>1, <2>3, LayerIs, LayerIsPrime
  <2> QED BY <1>1, <1>3, <2>1, <2>4, IntactDiskPrime
<1>5. IsFiniteSet(torn) /\ IsFiniteSet(low .. high)
  BY <1>2, FS_Interval, FS_EmptySet DEF Block
<1>6. Cardinality(torn) <= (IF pc \in Buffered THEN BlockSize ELSE 0)
  <2>1. CASE pc \in Buffered
    <3>1. Cardinality(Block) = IF offset > offset + block - 1 THEN 0 ELSE (offset + block - 1) - offset + 1
      BY <1>2, FS_Interval DEF Block
    <3> QED BY <1>2, <2>1, <3>1
  <2>2. CASE pc \notin Buffered BY <2>2, FS_EmptySet
  <2> QED BY <2>1, <2>2
<1>7. Cardinality(low .. high) <= (IF pc \in Buffered THEN Threshold - 1 ELSE Tolerance)
  <2>1. Cardinality(low .. high) = IF low > high THEN 0 ELSE high - low + 1
    <3>1. low \in Int /\ high \in Int BY <1>2
    <3> HIDE DEF low, high
    <3> QED BY <3>1, FS_Interval
  <2>2. Cardinality(low .. high) = IF AreaEnd < HeaderEnd THEN HeaderEnd - AreaEnd ELSE AreaEnd - HeaderEnd
    BY <1>2, <2>1
  <2>3. Lag BY <1>1 DEF SetupInv, Unharmed
  <2>4. CASE pc \in InLoop \cup Closing
    <3>1. /\ AreaEnd - HeaderEnd <= bytes /\ HeaderEnd - AreaEnd <= bytes
          /\ bytes < Threshold + BlockSize
          /\ pc \in Buffered => bytes < Threshold
      BY <1>2, <2>3, <2>4 DEF Lag, Buffered
    <3> QED BY <1>2, <2>2, <3>1 DEF Tolerance
  <2>5. CASE pc \notin InLoop \cup Closing
    <3>1. AreaEnd = HeaderEnd /\ pc \notin Buffered BY <2>3, <2>5 DEF Lag, InLoop, Converting
    <3> QED BY <1>2, <2>2, <3>1 DEF Tolerance
  <2> QED BY <2>4, <2>5
<1>8. /\ IsFiniteSet(torn \cup low .. high)
      /\ Cardinality(torn \cup low .. high) <= Tolerance
  <2> DEFINE t == IF pc \in Buffered THEN BlockSize ELSE 0
             l == IF pc \in Buffered THEN Threshold - 1 ELSE Tolerance
  <2>1. t \in Int /\ l \in Int /\ t + l <= Tolerance BY <1>2 DEF Tolerance
  <2>2. Cardinality(torn) <= t /\ Cardinality(low .. high) <= l BY <1>6, <1>7
  <2>3. /\ IsFiniteSet(torn \cup low .. high)
        /\ Cardinality(torn \cup low .. high) <= t + l
    <3> HIDE DEF torn, low, high, t, l
    <3> QED BY <1>5, <2>1, <2>2, UnionBound
  <2>4. Cardinality(torn \cup low .. high) \in Nat BY <2>3, FS_CardinalityType
  <2>5. Tolerance \in Int BY <1>2 DEF Tolerance
  <2> HIDE DEF torn, low, high, t, l
  <2> QED BY <2>1, <2>3, <2>4, <2>5
<1>9. /\ Cardinality(Intact \ Intact') <= Cardinality(torn \cup low .. high)
      /\ Cardinality(Intact \ Intact') \in Nat
  <2> HIDE DEF torn, low, high
  <2>1. IsFiniteSet(Intact \ Intact') /\ Cardinality(Intact \ Intact') <= Cardinality(torn \cup low .. high)
    BY <1>4, <1>8, FS_Subset
  <2> QED BY <2>1, FS_CardinalityType
<1>10. Cardinality(torn \cup low .. high) \in Nat /\ Tolerance \in Int
  <2> HIDE DEF torn, low, high
  <2> QED BY <1>2, <1>8, FS_CardinalityType DEF Tolerance
<1> HIDE DEF torn, low, high
<1> QED BY <1>8, <1>9, <1>10

LEMMA PromisedCardinality == ASSUME NEW S PROVE Promise!Cardinality(S) = Cardinality(S)
BY DEF Cardinality, Promise!Cardinality, IsFiniteSet, Promise!IsFiniteSet

\* A client that writes a unit has its data back; there is no buffer then.
LEMMA UserGains ==
  ASSUME SetupInv, NEW u \in Units, UserWrite(u)
  PROVE  Intact' = Intact \cup {u} /\ UNCHANGED <<used, excused>>
<1>1. /\ pc \notin Buffered /\ pc' \notin Buffered /\ area' = area /\ UNCHANGED <<used, excused>>
      /\ disk' = [disk EXCEPT ![u] = Layer(area, u)] /\ disk \in [Units -> Contents]
  BY DEF UserWrite, SetupInv, Structure, Types, DiskTypes, Phases, thread, memory
<1> QED BY <1>1, IntactDisk, IntactDiskPrime

\* What was lost is excused, or the power was.
LEMMA Excused ==
  ASSUME SetupInv, [Next]_vars, excused'
  PROVE  Promise!Next \/ UNCHANGED <<Intact, used.crashes, excused>>
<1> USE DEF memory, control, thread, programs
<1>1. Intact' \in SUBSET Units BY DEF Intact
<1>2. UsedTypes /\ excused \in BOOLEAN BY DEF SetupInv, Structure, Types, FlagTypes
<1>3. CASE PowerLoss
  <2>1. used'.crashes = used.crashes + 1 /\ excused' = excused
    BY <1>2, <1>3 DEF PowerLoss, Boot, UsedTypes
  <2> QED BY <1>1, <2>1 DEF Promise!Next, Promise!PowerLoss
<1>4. CASE ~PowerLoss
  <2>1. used'.crashes = used.crashes
    <3>1. CASE SetupThread
      BY <1>2, <3>1 DEF SetupThread, UsedTypes, CountFailure, Begin, HoldAborted, HoldFirst, Loop, Hold, Read,
         ReadFails, Wipe, Write, WriteFails, Undo, Advance, Save, SaveDone, SaveFailed, Epilogue, Finish,
         FinalSave, Lock, Dismount, Unlock, End
    <3>2. CASE UNCHANGED vars BY <3>2 DEF vars
    <3>3. CASE ~SetupThread /\ ~UNCHANGED vars
      BY <1>2, <1>4, <3>3 DEF Next, UsedTypes, EmergencyClearAllKeys, CountFailure, CreateSysEncMutex,
         ProgramEnds, Pause, AbortRequest, AbortReturn, Resume, ChangeCheck, ChangeRead, ChangeWrite,
         ChangeReopen, UserWrite, Shutdown, PowerAborts, PowerOff
    <3> QED BY <3>1, <3>2, <3>3
  <2>2. excused' = TRUE
    <3>1. excused' \in BOOLEAN
      BY DEF SetupInv
    <3> QED BY <3>1
  <2> QED BY <1>1, <2>1, <2>2 DEF Promise!Next, Promise!Fail
<1> QED BY <1>3, <1>4

\* As long as nothing fails, only the power loses data.
LEMMA Faithful ==
  ASSUME SetupInv, SetupInv', [Next]_vars, ~excused'
  PROVE  Promise!Next \/ UNCHANGED <<Intact, used.crashes, excused>>
<1>1. CASE SetupThread
  <2>1. Preserved
    BY <1>1, KeptSimple, KeptArea, KeptBlock, KeptUndo, KeptAdvance DEF SetupThread
  <2> QED BY <2>1 DEF Preserved
<1>2. CASE \/ EmergencyClearAllKeys \/ ChangeCheck \/ ChangeRead \/ ChangeWrite \/ ChangeReopen \/ Shutdown
           \/ PowerAborts \/ Resume \/ PowerOff
           \/ \E p \in Programs : CreateSysEncMutex(p) \/ ProgramEnds(p) \/ Pause(p)
           \/ \E c \in Aborters : AbortReturn(c)
  <2>1. Preserved
    BY <1>2, KeptSimple, KeptPrograms, KeptReturn, KeptPowerOff DEF Pause, PowerAborts, Aborters
  <2> QED BY <2>1 DEF Preserved
<1>3. ASSUME NEW u \in Units, UserWrite(u) PROVE Promise!Next
  BY <1>3, UserGains DEF Promise!Next, Promise!UserWrite
<1>4. CASE PowerLoss
  <2>1. used'.crashes = used.crashes + 1 /\ excused' = excused
    BY <1>4 DEF PowerLoss, Boot, SetupInv, Structure, Types, UsedTypes
  <2>2. Intact' \in SUBSET Units BY DEF Intact
  <2>3. Cardinality(Intact \ Intact') <= Tolerance BY <1>4, LossIsBounded
  <2> QED BY <2>1, <2>2, <2>3, PromisedCardinality DEF Promise!Next, Promise!PowerLoss
<1>5. CASE UNCHANGED vars
  <2>1. Intact' = Intact BY <1>5, IntactThread DEF vars, memory, thread
  <2> QED BY <1>5, <2>1 DEF vars
<1> QED BY <1>1, <1>2, <1>3, <1>4, <1>5 DEF Next

\* The conversion of the system drive is safe: pausing, resuming, reversing,
\* shutting down, changing the password and a write that fails once lose nothing,
\* and a power loss costs less than a threshold and a block.  (SetupThreadProc,
\* SaveDriveVolumeHeader, MountDrive.)
THEOREM ConversionIsSafe == Spec => IsSafeConversion
<1>1. Init => Promise!Init
  <2> SUFFICES ASSUME Init PROVE Promise!Init OBVIOUS
  <2>1. Intact = Units
    BY DEF Init, Intact, Layer, InArea, AreaEmpty, NoArea, Units
  <2> QED BY <2>1 DEF Init, Promise!Init
<1>2. SetupInv /\ SetupInv' /\ [Next]_vars => [Promise!Next]_(Promise!vars)
  <2> SUFFICES ASSUME SetupInv, SetupInv', [Next]_vars
               PROVE  Promise!Next \/ UNCHANGED <<Intact, used.crashes, excused>>
    BY DEF Promise!vars
  <2> QED BY Excused, Faithful
<1> QED BY <1>1, <1>2, SetupInvariant, PTL DEF Spec, IsSafeConversion, Promise!Spec
=============================================================================
