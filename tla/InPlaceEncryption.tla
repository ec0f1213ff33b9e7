-------------------------- MODULE InPlaceEncryption --------------------------
(***************************************************************************)
(* Encryption and decryption in place of a partition that is not the system *)
(* (Format/InPlace.c), the wizard that starts, defers and resumes it        *)
(* (Format/Tcformat.c), and the mount that refuses an unfinished volume     *)
(* (Driver/Ntvol.c).                                                        *)
(*                                                                          *)
(* The file system fills the positions 0 .. N - 1 of the partition while it *)
(* is plain and O .. O + N - 1 while it is encrypted: every unit moves by   *)
(* the size of the header group that the finished volume has in front.      *)
(* Encryption goes backwards and decryption forwards, each over the units   *)
(* it has just moved, so that the header at the end, saved now and then,    *)
(* is all that tells which layout a unit has.                               *)
(***************************************************************************)
EXTENDS Integers, FiniteSets

CONSTANTS
  N,             \* units of the file system, shrunk to leave room for the headers
  O,             \* TC_VOLUME_DATA_OFFSET = TC_VOLUME_HEADER_GROUP_SIZE, in units
  ChunkSize,     \* TC_MAX_NONSYS_INPLACE_ENC_WORK_CHUNK_SIZE, in units
  Interval,      \* TC_NONSYS_INPLACE_ENC_HEADER_UPDATE_INTERVAL, in units
  MaxStarts,     \* bound: conversions started or resumed
  MaxFailures,   \* bound: failed reads and writes
  MaxCrashes     \* bound: power losses and crashes

\* The initial portion of the file system that is concealed lies in unit 0, and
\* the interval is a whole number of chunks.
ASSUME SizesAssumption ==
  /\ {N, O, ChunkSize, Interval} \subseteq Nat \ {0}
  /\ O <= N /\ Interval % ChunkSize = 0
  /\ {MaxStarts, MaxFailures, MaxCrashes} \subseteq Nat

Units == 0 .. N - 1
Positions == 0 .. N + 2 * O - 1
PrimaryAt == 0
BackupAt == N + O

\* What a position holds: the data of a unit, plain or encrypted for the place
\* it belongs to, with the concealing pattern over it or not; a header with the
\* length of its area and TC_HEADER_FLAG_NONSYS_INPLACE_ENC; zeros or junk.
Plain(u) == [kind |-> "plain", of |-> u, mark |-> FALSE]
Cipher(u) == [kind |-> "cipher", of |-> u, mark |-> FALSE]
Header(l, f) == [kind |-> "header", of |-> l, mark |-> f]
Junk == [kind |-> "junk", of |-> 0, mark |-> FALSE]
Zeros == [kind |-> "zeros", of |-> 0, mark |-> FALSE]
Contents ==
  [kind : {"plain", "cipher"}, of : Units, mark : BOOLEAN]
    \cup [kind : {"header"}, of : 0 .. N, mark : BOOLEAN] \cup {Junk, Zeros}

VARIABLES
  dev,        \* position -> content
  count,      \* the number of conversions in the configuration file
  mode,       \* what the wizard does with the partition: encrypt, decrypt or none
  resumed,    \* bInPlaceEncNonSysResumed
  wipe,       \* nWipeMode is not TC_WIPE_NONE
  cancel,     \* bVolTransformThreadCancel
  ui,         \* what the wizard has told last: NonSysInplaceEncStatus
  pc, length, flag, dist, buffer, pause, changed, result,   \* the thread's variables
  used,       \* what was used of the bounds
  losses,     \* power losses so far
  excused,    \* a failure after which data may be lost
  found       \* what the last opening of a header with nothing encrypted found
wizard == <<mode, resumed, wipe, cancel, ui>>
thread == <<length, flag, dist, buffer, pause, changed, result>>
vars == <<dev, count, wizard, pc, thread, used, losses, excused, found>>

-----------------------------------------------------------------------------
Smaller(a, b) == IF a < b THEN a ELSE b
Overwritten(f) == [p \in Positions |-> IF p \in DOMAIN f THEN f[p] ELSE dev[p]]

\* The devices that a write of f may leave when it does not end: every position
\* old or new, or wiped already.
Torn(f, wiped) ==
  {[p \in Positions |-> IF p \in new THEN f[p] ELSE IF p \in gone THEN Junk ELSE dev[p]] :
     new \in SUBSET DOMAIN f, gone \in IF wiped THEN SUBSET DOMAIN f ELSE {{}}}

\* The pattern of ConcealNTFS is its own inverse.
Toggle(c) == IF c.kind \in {"plain", "cipher"} THEN [c EXCEPT !.mark = ~@] ELSE Junk
Encrypt(c, u) == IF c.kind = "plain" /\ c.of = u THEN [c EXCEPT !.kind = "cipher"] ELSE Junk
Decrypt(c, u) == IF c.kind = "cipher" /\ c.of = u THEN [c EXCEPT !.kind = "plain"] ELSE Junk

\* EncryptedAreaStart follows from the length: the area ends with the data area.
AreaStart == N + O - length
Remaining == IF mode = "encrypt" THEN N - length ELSE length
Chunk == Smaller(Remaining, ChunkSize)
\* The units of the chunk, where they lie now and where they go.
ChunkUnits ==
  IF mode = "encrypt" THEN AreaStart - Chunk - O .. AreaStart - O - 1
                      ELSE AreaStart - O .. AreaStart - O + Chunk - 1
Source(u) == IF mode = "encrypt" THEN u ELSE u + O
Target(u) == IF mode = "encrypt" THEN u + O ELSE u
Moved == [p \in {Target(u) : u \in ChunkUnits} |-> buffer[CHOOSE u \in ChunkUnits : Target(u) = p]]

Opens(c) == c.kind = "header"
\* MountVolume: an unfinished in-place conversion is refused.
MountAccepts(c) == Opens(c) /\ (c.mark => c.of = N)
\* The scan for interrupted conversions opens the backup header.
ScanFinds == LET h == dev[BackupAt] IN Opens(h) /\ h.mark /\ h.of # N

\* The file system is there for the operating system to mount.
Exposed == dev[0] = Plain(0)

CanFail == used.failures < MaxFailures
CountFailure == used' = [used EXCEPT !.failures = @ + 1]
Fails(label) == CanFail /\ CountFailure /\ pc' = label /\ result' = "error"

Init ==
  /\ dev \in {[p \in Positions |-> IF p \in Units THEN Plain(p) ELSE Junk],
              [p \in Positions |-> IF p \in {PrimaryAt, BackupAt} THEN Header(N, FALSE)
                                   ELSE IF p - O \in Units THEN Cipher(p - O) ELSE Junk]}
  /\ count = 0 /\ mode = "none" /\ resumed = FALSE /\ wipe = FALSE /\ cancel = FALSE
  /\ ui = "none" /\ pc = "idle"
  /\ length = 0 /\ flag = FALSE /\ dist = 0 /\ buffer = <<>> /\ pause = FALSE
  /\ changed = FALSE /\ result = "none"
  /\ used = [starts |-> 0, failures |-> 0, crashes |-> 0]
  /\ losses = 0 /\ excused = FALSE /\ found = [visible |-> FALSE, uncounted |-> FALSE]

-----------------------------------------------------------------------------
(* The wizard.                                                              *)

CountStart == used.starts < MaxStarts /\ used' = [used EXCEPT !.starts = @ + 1]

\* The thread starts with its variables as initialised.
Launch(label) ==
  /\ pc = "idle" /\ CountStart
  /\ pc' = label /\ result' = "none" /\ pause' = FALSE /\ changed' = FALSE /\ dist' = 0
  /\ cancel' = FALSE
  /\ UNCHANGED <<dev, count, length, flag, buffer, losses, found>>

\* CheckRequirementsForNonSysInPlaceEnc wants a mounted NTFS file system; it does
\* not see that one that was never concealed is encrypted in part: what was then
\* encrypted is lost.
StartEncryption ==
  /\ mode = "none" /\ Exposed
  /\ mode' = "encrypt" /\ wipe' \in BOOLEAN /\ resumed' = FALSE /\ ui' = "preparing"
  /\ Launch("writeBackup") /\ excused' = (excused \/ (Opens(dev[BackupAt]) /\ dev[BackupAt].of > 0))

\* The volume is mounted by either header first.
StartDecryption ==
  /\ mode = "none" /\ MountAccepts(dev[PrimaryAt]) /\ MountAccepts(dev[BackupAt])
  /\ mode' = "decrypt" /\ resumed' = FALSE /\ ui' = "preparing"
  /\ Launch("open") /\ UNCHANGED <<wipe, excused>>

\* Resume in the wizard that has paused or has met an error.
ResumeHere ==
  /\ mode # "none" /\ resumed
  /\ Launch("open") /\ UNCHANGED <<mode, wipe, resumed, ui, excused>>

\* Resume in another wizard, which asks the user for the direction.
ResumeElsewhere ==
  /\ mode = "none" /\ ScanFinds
  /\ mode' \in {"encrypt", "decrypt"} /\ wipe' \in BOOLEAN /\ resumed' = TRUE
  /\ ui' = "preparing"
  /\ Launch("open") /\ UNCHANGED excused

\* Pause, or the confirmed deferral, which waits for the thread to end.
Cancel ==
  /\ pc # "idle" /\ ~cancel /\ cancel' = TRUE
  /\ UNCHANGED <<dev, count, mode, resumed, wipe, ui, pc, thread, used, losses, excused, found>>

ExitWizard ==
  /\ pc = "idle" /\ mode # "none"
  /\ mode' = "none" /\ resumed' = FALSE
  /\ UNCHANGED <<dev, count, wipe, cancel, ui, pc, thread, used, losses, excused, found>>

-----------------------------------------------------------------------------
(* EncryptPartitionInPlaceBegin, after the file system was shrunk.          *)

\* The header group at the end is written whole, or in part.
WriteBackupHeader ==
  /\ pc = "writeBackup"
  /\ LET f == [p \in BackupAt .. BackupAt + O - 1 |-> IF p = BackupAt THEN Header(0, TRUE) ELSE Junk]
     IN \/ dev' = Overwritten(f) /\ pc' = "verify" /\ UNCHANGED <<used, result>>
        \/ Fails("end") /\ dev' \in Torn(f, FALSE)
  /\ UNCHANGED <<count, wizard, length, flag, dist, buffer, pause, changed, losses, excused, found>>

VerifyBackupHeader ==
  /\ pc = "verify"
  /\ \/ Opens(dev[BackupAt]) /\ pc' = "conceal" /\ UNCHANGED <<used, result>>
     \/ ~Opens(dev[BackupAt]) /\ pc' = "end" /\ result' = "error" /\ UNCHANGED used
     \/ Fails("end")
  /\ UNCHANGED <<dev, count, wizard, length, flag, dist, buffer, pause, changed, losses,
                 excused, found>>

\* A write that fails is undone until the undoing succeeds.
ConcealNTFS == dev' = [dev EXCEPT ![0] = Toggle(@)]

Conceal ==
  /\ pc = "conceal"
  /\ \/ ConcealNTFS /\ pc' = "register" /\ UNCHANGED <<used, result>>
     \/ Fails("end") /\ UNCHANGED dev
  /\ UNCHANGED <<count, wizard, length, flag, dist, buffer, pause, changed, losses, excused, found>>

\* SaveNonSysInPlaceEncSettings: the file is removed at zero.
SaveCount(delta) == count' = IF count + delta < 1 THEN 0 ELSE count + delta

Register ==
  /\ pc = "register" /\ SaveCount(1) /\ pc' = "open"
  /\ UNCHANGED <<dev, wizard, thread, used, losses, excused, found>>

-----------------------------------------------------------------------------
(* EncryptPartitionInPlaceResume and DecryptPartitionInPlace.               *)

OpenBackupHeader == Opens(dev[BackupAt]) /\ length' = dev[BackupAt].of /\ flag' = dev[BackupAt].mark

\* A decryption that has not been resumed counts itself as one in progress.
OpenVolume ==
  /\ pc = "open" /\ OpenBackupHeader
  /\ resumed' = TRUE
  /\ IF mode = "decrypt" /\ ~resumed /\ length' = N THEN SaveCount(1) ELSE UNCHANGED count
  /\ pc' = "loop" /\ ui' = "running"
  /\ found' = IF length' = 0 THEN [visible |-> Exposed, uncounted |-> count = 0] ELSE found
  /\ UNCHANGED <<dev, mode, wipe, cancel, dist, buffer, pause, changed, result, used, losses,
                 excused>>

CannotOpenVolume ==
  /\ pc = "open"
  /\ resumed' = (resumed \/ mode = "encrypt")
  /\ \/ Fails("end")
     \/ ~Opens(dev[BackupAt]) /\ pc' = "end" /\ result' = "error" /\ UNCHANGED used
  /\ UNCHANGED <<dev, count, mode, wipe, cancel, ui, length, flag, dist, buffer, pause, changed,
                 losses, excused, found>>

\* Mutant: encryption does not reveal unit 0.
Transformed_Concealed(u, c) ==
  LET new == IF mode = "encrypt" THEN Encrypt(c, u) ELSE Decrypt(c, u)
  IN IF u = 0 /\ mode = "decrypt" THEN Toggle(new) ELSE new

\* The chunk is read and transformed in memory; unit 0 is revealed before it is
\* encrypted, and concealed after it is decrypted.
Transformed(u, c) ==
  LET new == IF mode = "encrypt" THEN Encrypt(c, u) ELSE Decrypt(c, u)
  IN IF u = 0 THEN Toggle(new) ELSE new

ReadChunk ==
  /\ pc = "loop" /\ Remaining > 0
  /\ buffer' = [u \in ChunkUnits |-> Transformed(u, dev[Source(u)])]
  /\ pc' = "write"
  /\ UNCHANGED <<dev, count, wizard, length, flag, dist, pause, changed, result, used, losses,
                 excused, found>>

\* An unreadable unit ends the thread, or the user gives it up: encryption zeroes
\* it on the medium and reads again, decryption goes on with zeros for ciphertext.
ReadFails ==
  /\ pc = "loop" /\ Remaining > 0
  /\ Fails("closing") /\ UNCHANGED <<dev, buffer, excused>>
  /\ UNCHANGED <<count, wizard, length, flag, dist, pause, changed, losses, found>>

GiveUpUnit ==
  /\ pc = "loop" /\ Remaining > 0 /\ ~cancel /\ CanFail /\ CountFailure
  /\ excused' = TRUE
  /\ \E lost \in ChunkUnits :
       IF mode = "encrypt"
       THEN dev' = [dev EXCEPT ![Source(lost)] = Zeros] /\ UNCHANGED <<pc, buffer>>
       ELSE /\ buffer' = [u \in ChunkUnits |->
                            Transformed(u, IF u = lost THEN Zeros ELSE dev[Source(u)])]
            /\ pc' = "write" /\ UNCHANGED dev
  /\ UNCHANGED <<count, wizard, length, flag, dist, pause, changed, result, losses, found>>

\* Mutant: the distance to the last header update is not counted.
Advance_Uncounted ==
  /\ length' = IF mode = "encrypt" THEN length + Chunk ELSE length - Chunk
  /\ dist' = dist /\ changed' = TRUE

Advance ==
  /\ length' = IF mode = "encrypt" THEN length + Chunk ELSE length - Chunk
  /\ dist' = dist + Chunk /\ changed' = TRUE

WriteChunk ==
  /\ pc = "write"
  /\ dev' = Overwritten(Moved)
  /\ Advance /\ buffer' = <<>>
  /\ pc' = IF dist' >= Interval THEN "update" ELSE "poll"
  /\ UNCHANGED <<count, wizard, flag, pause, result, used, losses, excused, found>>

\* Encryption writes back the plaintext of the chunk that it may have run over:
\* the part of the target that is part of the source too.
Undone(d) ==
  LET back == {u \in ChunkUnits : \E v \in ChunkUnits : Target(v) = u}
  IN [p \in Positions |-> IF p \in back THEN Decrypt(buffer[p], p) ELSE d[p]]

UndoWorks == mode = "encrypt" /\ Chunk > O

WriteFails ==
  /\ pc = "write" /\ Fails("closing")
  /\ \E torn \in Torn(Moved, wipe /\ mode = "encrypt") :
       \/ UndoWorks /\ dev' = Undone(torn) /\ UNCHANGED excused
       \/ Chunk <= O /\ dev' = torn /\ UNCHANGED excused
       \* The undoing fails too, or there is none.
       \/ Chunk > O /\ dev' = torn /\ excused' = TRUE
  /\ buffer' = <<>>
  /\ UNCHANGED <<count, wizard, length, flag, dist, pause, changed, losses, found>>

\* Mutant: the header keeps the flag it had.
FastVolumeHeaderUpdate_Unflagged ==
  /\ Opens(dev[BackupAt])
  /\ dev' = [dev EXCEPT ![BackupAt] = Header(length, flag)]
  /\ UNCHANGED flag

\* FastVolumeHeaderUpdate: only the backup header, which must still be one.
FastVolumeHeaderUpdate ==
  /\ Opens(dev[BackupAt])
  /\ dev' = [dev EXCEPT ![BackupAt] = Header(length, TRUE)]
  /\ flag' = TRUE

\* Mutant: the distance is not reset.
UpdateHeader_Endless(at, next) ==
  /\ pc = at
  /\ \/ FastVolumeHeaderUpdate /\ pc' = next /\ UNCHANGED <<dist, used, result>>
     \/ Fails("closing") /\ UNCHANGED <<dev, flag, dist>>
  /\ UNCHANGED <<count, wizard, length, buffer, pause, changed, losses, excused, found>>

UpdateHeader(at, next) ==
  /\ pc = at
  /\ \/ FastVolumeHeaderUpdate /\ pc' = next /\ dist' = 0 /\ UNCHANGED <<used, result>>
     \/ Fails("closing") /\ UNCHANGED <<dev, flag, dist>>
  /\ UNCHANGED <<count, wizard, length, buffer, pause, changed, losses, excused, found>>

IntervalUpdate == UpdateHeader("update", "poll")

\* The request to pause is looked at after a chunk.
Poll ==
  /\ pc = "poll"
  /\ pause' = cancel /\ pc' = IF cancel THEN "final" ELSE "loop"
  /\ UNCHANGED <<dev, count, wizard, length, flag, dist, buffer, changed, result, used, losses,
                 excused, found>>

LeaveLoop ==
  /\ pc = "loop" /\ Remaining = 0 /\ pc' = "final"
  /\ UNCHANGED <<dev, count, wizard, thread, used, losses, excused, found>>

FinalUpdate == UpdateHeader("final", IF pause THEN "pause" ELSE "finish")

Pause ==
  /\ pc = "pause" /\ result' = "paused" /\ ui' = "paused" /\ pc' = "closing"
  /\ changed' = (changed /\ mode = "encrypt")   \* decryption has closed the device
  /\ UNCHANGED <<dev, count, mode, resumed, wipe, cancel, length, flag, dist, buffer, pause,
                 used, losses, excused, found>>

\* The primary header group: the header, random data, a fake hidden header.
PrimaryGroup == [p \in 0 .. O - 1 |-> IF p = PrimaryAt THEN Header(length, TRUE) ELSE Junk]

WritePrimaryHeader ==
  /\ pc = "finish" /\ mode = "encrypt"
  /\ \/ dev' = Overwritten(PrimaryGroup) /\ pc' = "unregister" /\ UNCHANGED <<used, result>>
     \/ Fails("closing") /\ dev' \in Torn(PrimaryGroup, FALSE)
  /\ UNCHANGED <<count, wizard, length, flag, dist, buffer, pause, changed, losses, excused, found>>

RevealNTFS ==
  /\ pc = "finish" /\ mode = "decrypt"
  /\ changed' = FALSE
  /\ \/ ConcealNTFS /\ pc' = "zero" /\ UNCHANGED <<used, result>>
     \/ Fails("closing") /\ UNCHANGED dev
  /\ UNCHANGED <<count, wizard, length, flag, dist, buffer, pause, losses, excused, found>>

\* Mutant: only the header group is zeroed.
Zeroed_HeaderOnly(last) == [p \in Positions |-> IF p \in BackupAt .. last THEN Zeros ELSE dev[p]]

\* What remains of the ciphertext, and the backup header, sector by sector.
Zeroed(last) == [p \in Positions |-> IF p \in N .. last THEN Zeros ELSE dev[p]]

ZeroRest ==
  /\ pc = "zero"
  /\ \/ dev' = Zeroed(N + 2 * O - 1) /\ pc' = "unregister" /\ UNCHANGED <<used, result>>
     \/ Fails("closing") /\ \E last \in N - 1 .. N + 2 * O - 2 : dev' = Zeroed(last)
  /\ UNCHANGED <<count, wizard, length, flag, dist, buffer, pause, changed, losses, excused, found>>

Unregister ==
  /\ pc = "unregister" /\ SaveCount(-1)
  /\ result' = "ok" /\ pc' = "closing"
  /\ ui' = IF mode = "encrypt" THEN "encrypted" ELSE "decrypted"
  /\ UNCHANGED <<dev, mode, resumed, wipe, cancel, length, flag, dist, buffer, pause, changed,
                 used, losses, excused, found>>

\* closing_seq saves the area once more and does not look whether that worked.
Close ==
  /\ pc = "closing" /\ pc' = "end"
  /\ \/ changed /\ FastVolumeHeaderUpdate /\ UNCHANGED <<used, excused>>
     \/ /\ changed /\ CanFail /\ CountFailure /\ UNCHANGED <<dev, flag>>
        /\ excused' = (excused \/ dev[BackupAt] # Header(length, TRUE))
     \/ ~changed /\ UNCHANGED <<dev, flag, used, excused>>
  /\ UNCHANGED <<count, wizard, length, dist, buffer, pause, changed, result, losses, found>>

\* After an error a conversion that was never resumed is over for the wizard.
EndThread ==
  /\ pc = "end" /\ pc' = "idle" /\ cancel' = FALSE
  /\ ui' = IF result = "error" THEN (IF resumed THEN "paused" ELSE "error") ELSE ui
  /\ mode' = IF result = "ok" \/ (result = "error" /\ ~resumed) THEN "none" ELSE mode
  /\ UNCHANGED <<dev, count, resumed, wipe, thread, used, losses, excused, found>>

-----------------------------------------------------------------------------
\* A power loss or a crash of the system: a write on its way is torn.
InFlight ==
  CASE pc = "write" -> Torn(Moved, wipe /\ mode = "encrypt")
    [] pc = "writeBackup" ->
         Torn([p \in BackupAt .. BackupAt + O - 1 |-> IF p = BackupAt THEN Header(0, TRUE) ELSE Junk], FALSE)
    [] pc = "finish" /\ mode = "encrypt" -> Torn(PrimaryGroup, FALSE)
    [] pc = "zero" -> {Zeroed(last) : last \in N - 1 .. N + 2 * O - 1}
    [] OTHER -> {dev}

Crash ==
  /\ used.crashes < MaxCrashes /\ (pc # "idle" \/ mode # "none")
  /\ used' = [used EXCEPT !.crashes = @ + 1] /\ losses' = losses + 1
  /\ dev' \in InFlight
  /\ mode' = "none" /\ resumed' = FALSE /\ wipe' = FALSE /\ cancel' = FALSE /\ ui' = "none"
  /\ pc' = "idle" /\ length' = 0 /\ flag' = FALSE /\ dist' = 0 /\ buffer' = <<>>
  /\ pause' = FALSE /\ changed' = FALSE /\ result' = "none"
  /\ UNCHANGED <<count, excused, found>>

BeginStep == WriteBackupHeader \/ VerifyBackupHeader \/ Conceal \/ Register
LoopStep ==
  \/ ReadChunk \/ ReadFails \/ GiveUpUnit \/ WriteChunk \/ WriteFails
  \/ IntervalUpdate \/ Poll \/ LeaveLoop \/ FinalUpdate
EndStep == Pause \/ WritePrimaryHeader \/ RevealNTFS \/ ZeroRest \/ Unregister \/ Close \/ EndThread
ThreadStep == BeginStep \/ OpenVolume \/ CannotOpenVolume \/ LoopStep \/ EndStep
UserStep == StartEncryption \/ StartDecryption \/ ResumeHere \/ ResumeElsewhere \/ Cancel \/ ExitWizard

Next == ThreadStep \/ UserStep \/ Crash

Spec == Init /\ [][Next]_vars

-----------------------------------------------------------------------------
(* Properties.                                                              *)

Labels == {"idle", "writeBackup", "verify", "conceal", "register", "open", "loop", "write",
           "update", "poll", "final", "pause", "finish", "zero", "unregister", "closing", "end"}

\* The variables keep their types, and a thread that works on the device has
\* the header's area or more of the conversion behind it.
TypeOK ==
  /\ dev \in [Positions -> Contents] /\ count \in 0 .. MaxStarts
  /\ mode \in {"none", "encrypt", "decrypt"} /\ {resumed, wipe, cancel} \subseteq BOOLEAN
  /\ ui \in {"none", "preparing", "running", "paused", "error", "encrypted", "decrypted"}
  /\ pc \in Labels /\ length \in 0 .. N /\ dist \in 0 .. Interval
  /\ {flag, pause, changed, excused} \subseteq BOOLEAN
  /\ found \in [visible : BOOLEAN, uncounted : BOOLEAN]
  /\ buffer \in {<<>>} \cup [ChunkUnits -> Contents]
  /\ result \in {"none", "ok", "paused", "error"} /\ losses \in 0 .. MaxCrashes

\* While the thread works its area counts, afterwards that of the header.
Loaded == pc \in {"loop", "write", "update", "poll", "final", "pause", "finish", "zero",
                  "unregister", "closing"}
CurrentLength ==
  IF Loaded THEN length ELSE IF Opens(dev[BackupAt]) THEN dev[BackupAt].of ELSE 0

\* A unit of the area lies encrypted at its new place, the others plain at the old.
Readable(u) ==
  LET c == IF u >= N - CurrentLength THEN dev[u + O] ELSE dev[u]
  IN c.of = u /\ c.kind = IF u >= N - CurrentLength THEN "cipher" ELSE "plain"

Lag == IF Interval > O THEN Interval - O ELSE 0

Promise == INSTANCE SafeConversion
  WITH Units <- Units, Tolerance <- Lag, intact <- {u \in Units : Readable(u)}

\* A conversion that is paused, resumed in either direction, deferred, or ended
\* by an error that the code undoes loses no unit, and a power loss no more than
\* the header may lag behind (InPlace.c:896-1082, 1513-1670, 1758-1770).
IsSafeConversion == Promise!Spec

\* When the wizard says that the partition is encrypted, no plaintext is left
\* where the moving layout was and both headers open the whole volume; when it
\* says decrypted, no header is left and no ciphertext behind the file system
\* (InPlace.c:1091-1205, 1704-1727).  Only the first of these is not kept
\* after a power loss: where it struck a decryption that is then resumed as an
\* encryption, the header counts units as encrypted that are plain.
FinishedLeavesNothing ==
  /\ ui = "encrypted" =>
       /\ losses = 0 /\ ~excused => \A p \in Positions : dev[p].kind # "plain"
       /\ pc = "idle" => {dev[PrimaryAt], dev[BackupAt]} = {Header(N, TRUE)}
  /\ ui = "decrypted" =>
       \A p \in Positions : dev[p].kind # "header" /\ (p >= N => dev[p].kind # "cipher")

\* What stands outside the header agrees with it, as far as it did when the
\* conversion was last opened with nothing encrypted: a file system that was found
\* visible there stays so until its first unit is encrypted, every other one is
\* concealed as soon as a unit is; a finished conversion leaves no concealing if
\* the file system was concealed there, and conceals it if it was visible (unless
\* unit 0 was lost); and one that stopped with something encrypted is in the
\* configuration file, by which the wizard is started at the next logon, unless it
\* was not in it there (InPlace.c:676, 705, 961, 1489, 1612, 1695).
TracesAgree ==
  /\ Exposed /\ CurrentLength > 0 => found.visible
  /\ ui = "encrypted" /\ dev[O].kind = "cipher" => (dev[O].mark <=> found.visible)
  /\ ui = "decrypted" /\ dev[0].kind = "plain" => (dev[0].mark <=> found.visible)
  /\ pc = "idle" /\ ScanFinds /\ dev[BackupAt].of > 0 => count > 0 \/ found.uncounted

\* "The backup header is valid so we know we should be able to safely resume
\* in-place encryption of this partition even if the system/app crashes."
\* (InPlace.c:672): an encryption that the wizard calls finished has left the
\* first unit as it was, not under the concealing pattern.
ResumedSafely == ui = "encrypted" => ~dev[O].mark

\* A header that a mount accepts while the wizard does nothing tells the truth:
\* the whole data area is encrypted, except for at most Lag units for each power
\* loss (Ntvol.c:686, InPlace.c:1871).  The comment at InPlace.c:1882 has no such
\* exception, but the flag is not set before the first interval of a decryption is
\* over.  Nothing is said after a failure that loses data, nor after an
\* encryption that was begun over an area that was encrypted in part.
MountTellsTruth ==
  pc = "idle" /\ ~excused =>
    \A p \in {PrimaryAt, BackupAt} :
      MountAccepts(dev[p]) =>
        Cardinality({u \in Units : ~(dev[u + O].kind = "cipher" /\ dev[u + O].of = u)}) <= losses * Lag

\* "You will be able to resume the process of encryption/decryption and it will
\* continue from the point where it was stopped." (Common/Language.xml:1048): the
\* wizard that was closed after a pause finds the volume again.
DeferredIsFound == ui = "paused" /\ result = "paused" /\ mode = "none" => ScanFinds
=============================================================================
