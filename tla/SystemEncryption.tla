-------------------------- MODULE SystemEncryption --------------------------
(***************************************************************************)
(* Encryption and decryption of the running system drive: the setup thread  *)
(* of Driver/DriveFilter.c, the control codes that start and abort it, the  *)
(* header it saves and finds again after a restart, and the programs that   *)
(* start, pause and change the password (Format/Tcformat.c, Mount/Mount.c,  *)
(* Common/BootEncryption.cpp).                                              *)
(*                                                                          *)
(* The disk is a function from units (sectors) to what is on them, seen by  *)
(* the keys of the drive: "plain", "cipher", or "bad" when it is neither.   *)
(* The I/O queue is seen through its hold only, as EncryptedIoQueue has     *)
(* shown it: while the queue is held no client reaches the disk, otherwise  *)
(* a client reads and writes whole units by the area in memory.             *)
(***************************************************************************)
EXTENDS Integers, FiniteSets

CONSTANTS
  Size,            \* units in the configured area
  BlockSize,       \* TC_ENCRYPTION_SETUP_IO_BLOCK_SIZE, in units
  Threshold,       \* TC_ENCRYPTION_SETUP_HEADER_UPDATE_THRESHOLD, in units
  MaxStarts,       \* bound: setups started
  MaxCrashes,      \* bound: power losses
  MaxShutdowns,    \* bound: orderly shutdowns
  MaxFailures,     \* bound: failed reads, writes and header saves
  MaxPasswords     \* bound: password changes

ASSUME SizesAssumption ==
  /\ {Size, BlockSize, Threshold} \subseteq Nat \ {0}
  /\ {MaxStarts, MaxCrashes, MaxShutdowns, MaxFailures, MaxPasswords} \subseteq Nat

None == -1
ConfiguredStart == 1
ConfiguredEnd == Size
Units == ConfiguredStart .. ConfiguredEnd
Contents == {"plain", "cipher", "bad"}

\* The header of the boot drive: its area and the key that opens it; zeroed
\* at the end of a decryption.
Zeroed == [length |-> None, key |-> None]
Headers == [length : 0 .. Size, key : 0 .. MaxPasswords] \cup {Zeroed}

Programs == {"wizard", "main"}
Aborters == Programs \cup {"power"}

VARIABLES
  disk,        \* unit -> what is on it
  header,      \* the header on the disk
  area,        \* Queue.EncryptedAreaStart and End
  configured,  \* ConfiguredEncryptedAreaEnd: known, or cleared at the end of a decryption
  headerKey,   \* HeaderCryptoInfo, by the key it holds, or None
  mounted,     \* DriveMounted
  keysErased,  \* the keys were burnt and clients are blocked
  request,     \* SetupRequest
  inProgress,  \* SetupInProgress
  abort,       \* EncryptionSetupThreadAbortRequested
  mutex,       \* the owner of RootDeviceControlMutex, or "free"
  shutdown,    \* DriverShuttingDown
  pc, offset, block, bytes, updateRequired, held, result,   \* SetupThreadProc
  buffer,      \* what the thread has read of the block, and whether with erased keys
  sysEnc,      \* the program that has the system encryption mutex, or "free"
  change,      \* ChangePassword of the main program
  used,        \* what was used of the bounds
  excused      \* a failure after which data may be lost

memory == <<area, configured, headerKey, mounted, keysErased>>
control == <<request, inProgress, abort, mutex, shutdown>>
thread == <<pc, offset, block, bytes, updateRequired, held, result, buffer>>
programs == <<sysEnc, change>>
vars == <<disk, header, memory, control, thread, programs, used, excused>>

NoArea == [start |-> None, end |-> None]
NoBuffer == [old |-> <<>>, new |-> <<>>, erased |-> FALSE]
NoChange == [at |-> "none", length |-> 0]
NoRequest == [mode |-> "none", wipe |-> FALSE, skip |-> FALSE]
Requests ==
  [mode : {"encrypt"}, wipe : BOOLEAN, skip : BOOLEAN]
    \cup [mode : {"decrypt"}, wipe : {FALSE}, skip : BOOLEAN]

-----------------------------------------------------------------------------
\* EncryptedAreaEnd <= EncryptedAreaStart counted in bytes, where the end is the
\* last byte of a unit and the start the first, says that no unit lies between.
AreaEmpty(a) == a.start = None \/ a.end = None \/ a.end < a.start
InArea(a) == IF AreaEmpty(a) THEN {} ELSE a.start .. a.end
Layer(a, u) == IF u \in InArea(a) THEN "cipher" ELSE "plain"

\* The area that MountDrive loads from a header.
LoadedArea(h) ==
  IF h.length \in {0, None} THEN NoArea
  ELSE [start |-> ConfiguredStart, end |-> ConfiguredStart + h.length - 1]

\* EncryptDataUnits and DecryptDataUnits; burnt keys yield garbage.
Transform(mode, c) ==
  CASE keysErased -> "bad"
    [] ~keysErased /\ mode = "encrypt" /\ c = "plain" -> "cipher"
    [] ~keysErased /\ mode = "decrypt" /\ c = "cipher" -> "plain"
    [] OTHER -> "bad"

Block == offset .. offset + block - 1
Overwritten(f) == [u \in Units |-> IF u \in DOMAIN f THEN f[u] ELSE disk[u]]
Ruined == [u \in Block |-> "bad"]
\* The block before its transformation, won back from the buffer with the keys
\* as they are now.
Restored == IF buffer.erased = keysErased THEN buffer.old ELSE Ruined

CanFail == used.failures < MaxFailures
CountFailure == used' = [used EXCEPT !.failures = @ + 1]

Init ==
  /\ disk = [u \in Units |-> "plain"]
  /\ header = [length |-> 0, key |-> 0]
  /\ area = NoArea /\ configured = TRUE /\ headerKey = 0
  /\ mounted = TRUE /\ keysErased = FALSE
  /\ request = NoRequest /\ inProgress = FALSE /\ abort = FALSE
  /\ mutex = "free" /\ shutdown = FALSE
  /\ pc = "none" /\ offset = ConfiguredStart /\ block = 0 /\ bytes = 0
  /\ updateRequired = FALSE /\ held = FALSE /\ result = "none"
  /\ buffer = NoBuffer
  /\ sysEnc = "free" /\ change = NoChange
  /\ used = [starts |-> 0, crashes |-> 0, shutdowns |-> 0, failures |-> 0]
  /\ excused = FALSE

-----------------------------------------------------------------------------
(* SetupThreadProc.                                                         *)

Goto(label) == pc' = label

\* Memory for the buffers may be missing; so may the keys of the header.
Begin ==
  /\ pc = "begin"
  /\ \/ headerKey # None /\ Goto("holdFirst") /\ result' = "failed" /\ UNCHANGED used
     \/ (headerKey = None \/ CanFail) /\ Goto("end") /\ result' = "failed" /\ CountFailure
  /\ UNCHANGED <<disk, header, memory, control, offset, block, bytes, updateRequired,
                 held, buffer, programs, excused>>

\* Every hold waits for the queue to be idle, and ends early on an abort.
HoldAborted ==
  /\ pc \in {"holdFirst", "hold"} /\ abort
  /\ Goto("epilogue") /\ result' = "ok"
  /\ UNCHANGED <<disk, header, memory, control, offset, block, bytes, updateRequired,
                 held, buffer, programs, used, excused>>

StartEncryption ==
  /\ request.mode = "encrypt" /\ (area.start = None \/ area.end = None)
  /\ area' = [start |-> ConfiguredStart, end |-> None]
  /\ offset' = ConfiguredStart
  /\ Goto("loop") /\ held' = FALSE /\ UNCHANGED result

ResumeEncryption ==
  /\ request.mode = "encrypt" /\ ~(area.start = None \/ area.end = None)
  /\ UNCHANGED area
  /\ IF area.end = ConfiguredEnd
       THEN Goto("epilogue") /\ held' = TRUE /\ UNCHANGED <<offset, result>>
       ELSE Goto("loop") /\ held' = FALSE /\ offset' = area.end + 1 /\ UNCHANGED result

StartDecryption ==
  /\ request.mode = "decrypt"
  /\ UNCHANGED area
  /\ IF area.start = None \/ area.end = None
       THEN Goto("epilogue") /\ held' = TRUE /\ result' = "ok" /\ UNCHANGED offset
       ELSE Goto("loop") /\ held' = FALSE /\ offset' = area.end + 1 /\ UNCHANGED result

HoldFirst ==
  /\ pc = "holdFirst"
  /\ StartEncryption \/ ResumeEncryption \/ StartDecryption
  /\ UNCHANGED <<disk, header, configured, headerKey, mounted, keysErased, control, block,
                 bytes, updateRequired, buffer, programs, used, excused>>

\* Faults: no cut at the end of the area; no end of a decryption.
NextBlock_Uncut ==
  IF request.mode = "encrypt"
    THEN [block |-> block, offset |-> offset, last |-> offset > ConfiguredEnd]
    ELSE LET b == IF offset - block < area.start THEN offset - area.start ELSE block
         IN [block |-> b, offset |-> offset - b, last |-> b = 0]
NextBlock_Endless ==
  IF request.mode = "encrypt"
    THEN LET b == IF offset + block > ConfiguredEnd + 1 THEN ConfiguredEnd + 1 - offset ELSE block
         IN [block |-> b, offset |-> offset, last |-> offset > ConfiguredEnd]
    ELSE LET b == IF offset - block < area.start THEN offset - area.start ELSE block
         IN [block |-> b, offset |-> offset - b, last |-> FALSE]

\* The next block: upwards for an encryption, downwards for a decryption, cut
\* at the end of the area.
NextBlock ==
  IF request.mode = "encrypt"
    THEN LET b == IF offset + block > ConfiguredEnd + 1 THEN ConfiguredEnd + 1 - offset ELSE block
         IN [block |-> b, offset |-> offset, last |-> offset > ConfiguredEnd]
    ELSE LET b == IF offset - block < area.start THEN offset - area.start ELSE block
         IN [block |-> b, offset |-> offset - b, last |-> b = 0]

Loop ==
  /\ pc = "loop"
  /\ IF abort
       THEN Goto("epilogue") /\ result' = "ok" /\ UNCHANGED <<offset, block>>
       ELSE /\ block' = NextBlock.block /\ offset' = NextBlock.offset
            /\ IF NextBlock.last THEN Goto("epilogue") /\ result' = "ok"
                                 ELSE Goto("hold") /\ UNCHANGED result
  /\ UNCHANGED <<disk, header, memory, control, bytes, updateRequired, held, buffer,
                 programs, used, excused>>

Hold ==
  /\ pc = "hold"
  /\ held' = TRUE /\ Goto("read")
  /\ UNCHANGED <<disk, header, memory, control, offset, block, bytes, updateRequired,
                 result, buffer, programs, used, excused>>

\* TCReadDevice and the transformation of what was read.
Read ==
  /\ pc = "read"
  /\ buffer' = [old |-> [u \in Block |-> disk[u]],
                new |-> [u \in Block |-> Transform(request.mode, disk[u])],
                erased |-> keysErased]
  /\ Goto(IF request.wipe THEN "wipe" ELSE "write")
  /\ UNCHANGED <<disk, header, memory, control, offset, block, bytes, updateRequired,
                 held, result, programs, used, excused>>

\* A sector cannot be read: with ZeroUnreadableSectors or
\* DiscardUnreadableEncryptedSectors it is given up and the block read again.
ReadFails ==
  /\ pc = "read" /\ CanFail /\ CountFailure
  /\ IF request.skip
       THEN /\ \E u \in Block : disk' = [disk EXCEPT ![u] = "bad"]
            /\ excused' = TRUE /\ UNCHANGED pc
       ELSE Goto("epilogue") /\ UNCHANGED <<disk, excused>>
  /\ UNCHANGED <<header, memory, control, offset, block, bytes, updateRequired, held,
                 result, buffer, programs>>

\* A pass of WipeBuffer over the block; the passes differ in their pattern only.
Wipe ==
  /\ pc = "wipe"
  /\ disk' = Overwritten(Ruined) /\ Goto("write")
  /\ UNCHANGED <<header, memory, control, offset, block, bytes, updateRequired, held,
                 result, buffer, programs, used, excused>>

Write ==
  /\ pc = "write"
  /\ disk' = Overwritten(buffer.new) /\ Goto("advance")
  /\ UNCHANGED <<header, memory, control, offset, block, bytes, updateRequired, held,
                 result, buffer, programs, used, excused>>

\* A write that fails may have reached the disk, wholly or in part.
Attempts(f) == {disk, Overwritten(f), Overwritten(Ruined)}

WriteFails ==
  /\ pc \in {"wipe", "write"} /\ CanFail /\ CountFailure
  /\ disk' \in Attempts(IF pc = "wipe" THEN Ruined ELSE buffer.new)
  /\ Goto("undo")
  /\ UNCHANGED <<header, memory, control, offset, block, bytes, updateRequired, held,
                 result, buffer, programs, excused>>

Undo ==
  /\ pc = "undo"
  /\ \/ disk' = Overwritten(Restored) /\ UNCHANGED <<used, excused>>
     \/ disk' \in Attempts(Restored) /\ CanFail /\ CountFailure /\ excused' = TRUE
  /\ Goto("epilogue") /\ buffer' = NoBuffer
  /\ UNCHANGED <<header, memory, control, offset, block, bytes, updateRequired, held,
                 result, programs>>

\* Fault: the move of the area does not ask for a new header.
Advance_NotRequired ==
  /\ pc = "advance"
  /\ offset' = IF request.mode = "encrypt" THEN offset + block ELSE offset
  /\ area' = [area EXCEPT !.end = offset' - 1]
  /\ updateRequired' = updateRequired /\ held' = FALSE /\ buffer' = NoBuffer
  /\ bytes' = bytes + block
  /\ Goto(IF bytes' >= Threshold THEN "save" ELSE "loop")
  /\ UNCHANGED <<disk, header, configured, headerKey, mounted, keysErased, control, block,
                 result, programs, used, excused>>

\* The offset, the end of the encrypted area, and the queue again.
Advance ==
  /\ pc = "advance"
  /\ offset' = IF request.mode = "encrypt" THEN offset + block ELSE offset
  /\ area' = [area EXCEPT !.end = offset' - 1]
  /\ updateRequired' = TRUE /\ held' = FALSE /\ buffer' = NoBuffer
  /\ bytes' = bytes + block
  /\ Goto(IF bytes' >= Threshold THEN "save" ELSE "loop")
  /\ UNCHANGED <<disk, header, configured, headerKey, mounted, keysErased, control, block,
                 result, programs, used, excused>>

\* SaveDriveVolumeHeader: a header it cannot decrypt is left as it is.
SavedHeader ==
  CASE AreaEmpty(area) /\ request.mode = "decrypt" -> Zeroed
    [] AreaEmpty(area) /\ request.mode # "decrypt" -> header
    [] OTHER -> [header EXCEPT !.length = area.end + 1 - area.start]
HeaderOpens == AreaEmpty(area) \/ (headerKey = header.key /\ ~keysErased)

SaveDone == HeaderOpens /\ header' = SavedHeader /\ UNCHANGED <<used, excused>>
SaveFailed ==
  /\ UNCHANGED header
  /\ \/ ~HeaderOpens /\ UNCHANGED <<used, excused>>
     \/ CanFail /\ CountFailure /\ excused' = TRUE

Save ==
  /\ pc = "save" /\ Goto("loop")
  /\ \/ SaveDone /\ updateRequired' = FALSE /\ bytes' = 0
     \/ SaveFailed /\ UNCHANGED <<updateRequired, bytes>>
  /\ UNCHANGED <<disk, memory, control, offset, block, held, result, buffer, programs>>

\* abort: and err:
Epilogue ==
  /\ pc = "epilogue"
  /\ area' = IF area.end = None THEN NoArea ELSE area
  /\ held' = FALSE
  /\ Goto(IF request.mode = "decrypt" /\ AreaEmpty(area) THEN "finish" ELSE "finalSave")
  /\ UNCHANGED <<disk, header, configured, headerKey, mounted, keysErased, control, offset,
                 block, bytes, updateRequired, result, buffer, programs, used, excused>>

\* Decrypted: the areas are cleared under a last hold.
Finish ==
  /\ pc = "finish"
  /\ area' = NoArea /\ configured' = FALSE /\ updateRequired' = TRUE
  /\ Goto("finalSave")
  /\ UNCHANGED <<disk, header, headerKey, mounted, keysErased, control, offset, block, bytes,
                 held, result, buffer, programs, used, excused>>

AfterSave == IF request.mode = "decrypt" /\ ~configured /\ mounted THEN "lock" ELSE "end"

\* Fault: the status of the last save does not become the result.
FinalSave_Unchecked ==
  /\ pc = "finalSave" /\ Goto(AfterSave)
  /\ \/ ~updateRequired /\ UNCHANGED <<header, used, excused>>
     \/ updateRequired /\ (SaveDone \/ SaveFailed)
  /\ UNCHANGED <<disk, memory, control, offset, block, bytes, updateRequired, held, result,
                 buffer, programs>>

FinalSave ==
  /\ pc = "finalSave" /\ Goto(AfterSave)
  /\ \/ ~updateRequired /\ UNCHANGED <<header, result, used, excused>>
     \/ updateRequired /\ SaveDone /\ UNCHANGED result
     \/ updateRequired /\ SaveFailed /\ result' = "failed"
  /\ UNCHANGED <<disk, memory, control, offset, block, bytes, updateRequired, held, buffer,
                 programs>>

\* Fault: the wait for the mutex does not notice an abort.
Lock_Deaf ==
  \/ /\ pc = "lock" /\ Goto("dismount")
     /\ mutex = "free" /\ mutex' = "setup"
     /\ UNCHANGED <<disk, header, memory, request, inProgress, abort, shutdown, offset, block,
                    bytes, updateRequired, held, result, buffer, programs, used, excused>>
  \/ pc = "lock" /\ mutex # "free" /\ UNCHANGED vars

\* RootDeviceControlMutexAcquireNoWait, tried until an abort is requested.
Lock ==
  /\ pc = "lock" /\ Goto("dismount")
  /\ \/ mutex = "free" /\ mutex' = "setup"
     \/ mutex # "free" /\ abort /\ UNCHANGED mutex
  /\ UNCHANGED <<disk, header, memory, request, inProgress, abort, shutdown, offset, block,
                 bytes, updateRequired, held, result, buffer, programs, used, excused>>

\* DismountDrive with the queue left running.
Dismount ==
  /\ pc = "dismount" /\ Goto("unlock")
  /\ headerKey' = None /\ mounted' = FALSE
  /\ UNCHANGED <<disk, header, area, configured, keysErased, control, offset, block, bytes,
                 updateRequired, held, result, buffer, programs, used, excused>>

Unlock ==
  /\ pc = "unlock" /\ Goto("end")
  /\ mutex' = IF abort THEN mutex ELSE "free"
  /\ UNCHANGED <<disk, header, memory, request, inProgress, abort, shutdown, offset, block,
                 bytes, updateRequired, held, result, buffer, programs, used, excused>>

End ==
  /\ pc = "end" /\ Goto("ended")
  /\ inProgress' = FALSE
  /\ UNCHANGED <<disk, header, memory, request, abort, mutex, shutdown, offset, block, bytes,
                 updateRequired, held, result, buffer, programs, used, excused>>

SetupThread ==
  \/ Begin \/ HoldAborted \/ HoldFirst \/ Loop \/ Hold \/ Read \/ ReadFails \/ Wipe
  \/ Write \/ WriteFails \/ Undo \/ Advance \/ Save \/ Epilogue \/ Finish \/ FinalSave
  \/ Lock \/ Dismount \/ Unlock \/ End

-----------------------------------------------------------------------------
(* Control codes.  ProcessMainDeviceControlIrp runs under the root mutex, so *)
(* one that does not wait is a single step taken while the mutex is free.    *)

\* StartBootEncryptionSetup; a finished thread is reaped first.
StartBootEncryptionSetup(r) ==
  /\ mutex = "free" /\ ~inProgress /\ mounted
  /\ request' = r /\ abort' = FALSE /\ inProgress' = TRUE
  /\ Goto("begin") /\ block' = BlockSize /\ bytes' = 0
  /\ updateRequired' = FALSE /\ result' = "failed"
  /\ UNCHANGED <<disk, header, memory, mutex, shutdown, offset, held, buffer, programs, excused>>

\* AbortBootEncryptionSetup: the caller waits for the thread and keeps the mutex.
AbortRequest(c) ==
  /\ mutex = "free" /\ pc # "none"
  /\ mutex' = c /\ abort' = TRUE
  /\ UNCHANGED <<disk, header, memory, request, inProgress, shutdown, thread, programs, used,
                 excused>>

AbortReturn(c) ==
  /\ mutex = c /\ pc = "ended"
  /\ mutex' = "free" /\ Goto("none")
  /\ UNCHANGED <<disk, header, memory, request, inProgress, abort, shutdown, offset, block,
                 bytes, updateRequired, held, result, buffer, programs, used, excused>>

\* ReopenBootVolumeHeader with the password that opens the header on the disk.
ReopenBootVolumeHeader ==
  headerKey' = IF mounted /\ headerKey # None THEN header.key ELSE headerKey

\* Clients are blocked and the keys burnt; a running setup is not told.
EmergencyClearAllKeys ==
  /\ mutex = "free" /\ mounted /\ ~keysErased
  /\ CanFail /\ CountFailure
  /\ keysErased' = TRUE /\ excused' = TRUE
  /\ UNCHANGED <<disk, header, area, configured, headerKey, mounted, control, thread, programs>>

-----------------------------------------------------------------------------
(* The programs.  CreateSysEncMutex keeps all but one from dealing with      *)
(* system encryption; it is lost with the process that has it.               *)

CreateSysEncMutex(p) ==
  /\ sysEnc = "free" /\ ~shutdown /\ sysEnc' = p
  /\ UNCHANGED <<disk, header, memory, control, thread, change, used, excused>>

\* The program ends, or dies.
ProgramEnds(p) ==
  /\ sysEnc = p /\ mutex # p
  /\ sysEnc' = "free" /\ change' = NoChange
  /\ excused' = (excused \/ change.at = "written")
  /\ UNCHANGED <<disk, header, memory, control, thread, used>>

\* Fault: a setup is started without the system encryption mutex.
Resume_Unguarded ==
  /\ used.starts < MaxStarts
  /\ \E r \in Requests : StartBootEncryptionSetup(r)
  /\ used' = [used EXCEPT !.starts = @ + 1]

\* SysEncResume
Resume ==
  /\ sysEnc = "wizard" /\ used.starts < MaxStarts
  /\ \E r \in Requests : StartBootEncryptionSetup(r)
  /\ used' = [used EXCEPT !.starts = @ + 1]

\* SysEncPause, or the main program before a decryption.
Pause(p) == sysEnc = p /\ change = NoChange /\ inProgress /\ AbortRequest(p)

\* ChangePassword: no setup may be under way.
ChangeCheck ==
  /\ sysEnc = "main" /\ change.at = "none" /\ mutex = "free" /\ ~inProgress
  /\ header.key < MaxPasswords
  /\ change' = [change EXCEPT !.at = "checked"]
  /\ UNCHANGED <<disk, header, memory, control, thread, sysEnc, used, excused>>

ChangeRead ==
  /\ change.at = "checked" /\ ~keysErased /\ header # Zeroed
  /\ change' = [at |-> "read", length |-> header.length]
  /\ UNCHANGED <<disk, header, memory, control, thread, sysEnc, used, excused>>

\* A header of the new password around the area that was read.
ChangeWrite ==
  /\ change.at = "read" /\ ~keysErased
  /\ header' = [length |-> change.length, key |-> header.key + 1]
  /\ change' = [NoChange EXCEPT !.at = "written"]
  /\ UNCHANGED <<disk, memory, control, thread, sysEnc, used, excused>>

ChangeReopen ==
  /\ change.at = "written" /\ mutex = "free"
  /\ ReopenBootVolumeHeader
  /\ change' = NoChange
  /\ UNCHANGED <<disk, header, area, configured, mounted, keysErased, control, thread, sysEnc,
                 used, excused>>

\* A client of the drive writes a unit that it could not read.
UserWrite(u) ==
  /\ ~held /\ ~keysErased /\ ~shutdown
  /\ disk[u] # Layer(area, u)
  /\ disk' = [disk EXCEPT ![u] = Layer(area, u)]
  /\ UNCHANGED <<header, memory, control, thread, programs, used, excused>>

-----------------------------------------------------------------------------
(* Power.                                                                    *)

\* The drive is mounted anew from the header on the disk.
Boot ==
  /\ area' = LoadedArea(header) /\ configured' = (header # Zeroed)
  /\ headerKey' = header.key /\ mounted' = (header # Zeroed) /\ keysErased' = FALSE
  /\ request' = NoRequest /\ inProgress' = FALSE /\ abort' = FALSE
  /\ mutex' = "free" /\ shutdown' = FALSE
  /\ pc' = "none" /\ offset' = ConfiguredStart /\ block' = 0 /\ bytes' = 0
  /\ updateRequired' = FALSE /\ held' = FALSE /\ result' = "none" /\ buffer' = NoBuffer
  /\ sysEnc' = "free" /\ change' = NoChange
  /\ UNCHANGED <<header, excused>>

\* A write under way may be torn.
PowerLoss ==
  /\ used.crashes < MaxCrashes /\ used' = [used EXCEPT !.crashes = @ + 1]
  /\ disk' \in CASE pc = "wipe" -> Attempts(Ruined)
                 [] pc = "write" -> Attempts(buffer.new)
                 [] pc = "undo" -> Attempts(Restored)
                 [] OTHER -> {disk}
  /\ Boot

\* IRP_MJ_SHUTDOWN: the programs are gone, and a setup is aborted.
Shutdown ==
  /\ ~shutdown /\ used.shutdowns < MaxShutdowns
  /\ mutex \notin Programs
  /\ shutdown' = TRUE /\ sysEnc' = "free" /\ change' = NoChange
  /\ excused' = (excused \/ change.at = "written")
  /\ used' = [used EXCEPT !.shutdowns = @ + 1]
  /\ UNCHANGED <<disk, header, memory, request, inProgress, abort, mutex, thread>>

\* Also DispatchPower before the system hibernates.
PowerAborts == (shutdown \/ inProgress) /\ AbortRequest("power")

\* The drive is dismounted, the power goes off and comes back.
PowerOff == shutdown /\ pc = "none" /\ mutex = "free" /\ Boot /\ UNCHANGED <<disk, used>>

-----------------------------------------------------------------------------
Next ==
  \/ SetupThread
  \/ EmergencyClearAllKeys
  \/ \E p \in Programs : CreateSysEncMutex(p) \/ ProgramEnds(p) \/ Pause(p)
  \/ \E c \in Aborters : AbortReturn(c)
  \/ Resume
  \/ ChangeCheck \/ ChangeRead \/ ChangeWrite \/ ChangeReopen
  \/ \E u \in Units : UserWrite(u)
  \/ PowerLoss \/ Shutdown \/ PowerAborts \/ PowerOff

Spec == Init /\ [][Next]_vars

\* The thread runs, and its holds find the queue idle at some time: the queue's
\* own liveness, HoldEnds, and its clients that pause.  Nothing is assumed of
\* programs and of the power.
FairSpec ==
  /\ Spec
  /\ WF_vars(SetupThread)
  /\ \A c \in Aborters : WF_vars(AbortReturn(c))
-----------------------------------------------------------------------------
Labels == {"none", "begin", "holdFirst", "loop", "hold", "read", "wipe", "write", "undo",
           "advance", "save", "epilogue", "finish", "finalSave", "lock", "dismount",
           "unlock", "end", "ended"}
Areas == {NoArea} \cup [start : {ConfiguredStart}, end : {None} \cup 0 .. ConfiguredEnd]

\* Every variable has its type, the bounds are kept, and a block under way lies
\* in the configured area.
TypeOK ==
  /\ disk \in [Units -> Contents] /\ header \in Headers
  /\ area \in Areas /\ configured \in BOOLEAN
  /\ headerKey \in {None} \cup 0 .. MaxPasswords
  /\ mounted \in BOOLEAN /\ keysErased \in BOOLEAN
  /\ request \in Requests \cup {NoRequest}
  /\ inProgress \in BOOLEAN /\ abort \in BOOLEAN /\ shutdown \in BOOLEAN
  /\ mutex \in Aborters \cup {"free", "setup"}
  /\ pc \in Labels
  /\ offset \in ConfiguredStart .. ConfiguredEnd + 1 /\ block \in 0 .. BlockSize
  /\ pc \in {"hold", "read", "wipe", "write", "undo", "advance"} => Block \subseteq Units
  /\ bytes \in Nat /\ updateRequired \in BOOLEAN /\ held \in BOOLEAN
  /\ result \in {"none", "ok", "failed"}
  /\ sysEnc \in Programs \cup {"free"}
  /\ change \in [at : {"none", "checked", "read", "written"}, length : 0 .. Size]
  /\ used.starts <= MaxStarts /\ used.crashes <= MaxCrashes
  /\ used.shutdowns <= MaxShutdowns /\ used.failures <= MaxFailures
  /\ excused \in BOOLEAN

\* The units whose data the user has or will have again: those that agree with
\* the area in memory, and those of the block in the thread's buffer.
Intact ==
  {u \in Units :
     IF pc \in {"wipe", "write", "undo", "advance"} /\ u \in Block
       THEN buffer.old[u] = Layer(area, u)
       ELSE disk[u] = Layer(area, u)}

\* What may be lost with the power: the blocks up to the next save of the header.
Tolerance == Threshold + BlockSize - 1

Promise == INSTANCE SafeConversion
  WITH intact <- Intact, losses <- used.crashes, excused <- excused

\* Pausing, resuming, reversing, shutting down, changing the password and a
\* write that fails once lose nothing, and a power loss costs less than a
\* threshold and a block: no block is converted twice or left out, whatever the
\* header said when the thread or the system stopped.  (SetupThreadProc,
\* SaveDriveVolumeHeader, MountDrive.)
IsSafeConversion == Promise!Spec

\* A setup that reported success has left a header from which a restart finds
\* the area that is in memory: always while nothing has failed, and after an
\* earlier save of the header failed if the setup moved the area since.
\* (SetupThreadProc, headerUpdateRequired and SetupResult.)
SuccessIsSaved ==
  pc = "ended" /\ result = "ok" /\ (updateRequired \/ ~excused) => LoadedArea(header) = area

\* The drive is dismounted with nobody else in a control code, except one that
\* waits for the thread; and the thread leaves no mutex behind.
\* (SetupThreadProc, RootDeviceControlMutexAcquireNoWait.)
DismountExclusive ==
  /\ pc \in {"dismount", "unlock"} => mutex = "setup" \/ (mutex \in Aborters /\ abort)
  /\ mutex = "setup" => pc \in {"dismount", "unlock"}

\* Between reading the header and writing it for a new password no setup may
\* move the area: the write would bring back the old one.  (ChangePassword.)
NoStaleHeaderWrite ==
  change.at \in {"checked", "read"} =>
    /\ ~inProgress
    /\ change.at = "read" => change.length = header.length

\* A pause, the end of the wizard or a shutdown is not kept waiting for ever: the
\* abort returns, also when the thread waits for the mutex the caller holds.
\* (AbortBootEncryptionSetup.)
AbortReturns == mutex \in Aborters ~> mutex \notin Aborters

\* Every setup ends, and with it the status that is reported.  (SetupThreadProc.)
SetupEnds == inProgress ~> ~inProgress
=============================================================================
