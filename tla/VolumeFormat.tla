---------------------------- MODULE VolumeFormat ----------------------------
(***************************************************************************)
(* Creation of a volume by the wizard (Common/Format.c, Common/Fat.c) and   *)
(* its enlargement by the expander (ExpandVolume/ExpandVolume.c and         *)
(* InitDataArea.c): the order of headers and data on the host, and the      *)
(* thread that writes the data area of a device behind the job's back.      *)
(*                                                                          *)
(* The host is a function from units to what is on them: unit 0 is the      *)
(* group of the primary header, the last unit of a volume that of its       *)
(* backup.  A unit of the data area is encrypted for a place, and is "wrong" *)
(* when it gets to another.                                                  *)
(***************************************************************************)
EXTENDS Integers

CONSTANTS
  Sizes,        \* sizes a volume or its host can have, with the headers
  OldSize,      \* the size of the volume that is enlarged
  BufferSize,   \* FormatWriteBufferSize, in units
  MaxJobs,      \* bound: creations or enlargements
  MaxFailures,  \* bound: failed writes and other calls of the system
  MaxCrashes    \* bound: deaths of the process, or of the system

ASSUME SizesAssumption ==
  /\ Sizes \subseteq Nat /\ OldSize \in Sizes /\ \A s \in Sizes : s >= 3
  /\ \E m \in Sizes : \A s \in Sizes : s <= m
  /\ BufferSize \in Nat \ {0}
  /\ {MaxJobs, MaxFailures, MaxCrashes} \subseteq Nat

MaxSize == CHOOSE m \in Sizes : \A s \in Sizes : s <= m
Units == 0 .. MaxSize - 1

Header(s) == [is |-> "header", size |-> s]
Plain(w) == [is |-> w, size |-> 0]
Nothing == Plain("none")    \* what was there before, or nothing
Data == Plain("data")       \* files of the volume that is enlarged
Random == Plain("random")   \* a written unit in its place
Wrong == Plain("wrong")     \* a written unit in the place of another
Torn == Plain("torn")       \* a header that was not written completely
Contents == {Header(s) : s \in Sizes} \cup {Nothing, Data, Random, Wrong, Torn}

VARIABLES
  program,        \* "format" or "expand"
  device,         \* the host is a device, not a file
  disk, host,     \* what is on the units, and how many there are
  job,            \* the arguments of the job, and the size of its host before
  pc, status,     \* TCFormatVolume or ExpandVolume, and nStatus or "warned"
  nSecNo,         \* the next unit to be written
  place,          \* the file pointer of the host
  writer,         \* FormatWriteThreadProc
  running,        \* WriteThreadRunning
  exitRequested,  \* WriteThreadExitRequested
  empty, full,    \* WriteBufferEmptyEvent and WriteBufferFullEvent
  request,        \* WriteThreadBuffer and WriteRequestSize
  result,         \* WriteRequestResult
  used            \* what was used of the bounds

thread == <<writer, running, exitRequested, empty, full, request, result>>
progress == <<nSecNo, place>>
vars == <<program, device, disk, host, job, pc, status, progress, thread, used>>

NoRequest == [from |-> 0, count |-> 0]
NoJob == [target |-> OldSize, from |-> 0, end |-> 0, before |-> OldSize]

CanFail == used.failures < MaxFailures
CountFailure == used' = [used EXCEPT !.failures = @ + 1]
Goto(label) == pc' = label

\* A write of data at the file pointer; one that fails may have been done.
Written(r) ==
  [u \in Units |-> IF u \in place .. place + r.count - 1
                   THEN IF r.from = place THEN Random ELSE Wrong
                   ELSE disk[u]]
WriteData(r) ==
  \/ disk' = Written(r) /\ place' = place + r.count /\ UNCHANGED used
  \/ disk' \in {disk, Written(r)} /\ UNCHANGED place /\ CanFail /\ CountFailure

\* WriteEffectiveVolumeHeader; one that fails may have been done, or in part.
WithUnit(u, c) == [disk EXCEPT ![u] = c]
TornHeader(u) == {disk, WithUnit(u, Header(job.target)), WithUnit(u, Torn)}
HeaderDone(u) == disk' = WithUnit(u, Header(job.target)) /\ UNCHANGED used
HeaderFails(u) == disk' \in TornHeader(u) /\ CanFail /\ CountFailure

\* A file that is cut or extended to s units.
Resized(s) == [u \in Units |-> IF u < s /\ u < host THEN disk[u] ELSE Nothing]

Init ==
  /\ program \in {"format", "expand"} /\ device \in BOOLEAN
  /\ host \in IF device THEN {s \in Sizes : s >= OldSize} ELSE {OldSize}
  /\ disk = [u \in Units |->
       CASE program = "format" \/ u >= OldSize -> Nothing
         [] program = "expand" /\ u \in {0, OldSize - 1} -> Header(OldSize)
         [] OTHER -> Data]
  /\ job = NoJob /\ pc = "idle" /\ status = "none"
  /\ nSecNo = 0 /\ place = 0
  /\ writer = "none" /\ running = FALSE /\ exitRequested = FALSE
  /\ empty = FALSE /\ full = FALSE /\ request = NoRequest /\ result = "ok"
  /\ used = [jobs |-> 0, failures |-> 0, crashes |-> 0]

-----------------------------------------------------------------------------
(* The jobs.                                                                *)

BeginJob(target, from, end, before) ==
  /\ pc = "idle" /\ used.jobs < MaxJobs
  /\ used' = [used EXCEPT !.jobs = @ + 1]
  /\ job' = [target |-> target, from |-> from, end |-> end, before |-> before]
  /\ status' = "ok"
  /\ UNCHANGED <<program, device, progress, thread>>

\* TCFormatVolume: the host is as large as the volume; the whole data area is
\* written, or the file system only, or nothing.
CreateVolume ==
  /\ program = "format" /\ Goto("header")
  /\ \E target \in Sizes :
       /\ device => target = host
       /\ \E end \in {1, 2, target - 1} : BeginJob(target, 1, end, host)
       /\ host' = target
  /\ disk' = IF device THEN disk ELSE [u \in Units |-> Nothing]

\* ExpandVolume: the primary header says how large the volume is.  A device is
\* taken whole; a file that is longer than its volume may stay as it is.  The new
\* space is written, or not.
ExpandVolume ==
  /\ program = "expand" /\ Goto("grow")
  /\ disk[0].is = "header"
  /\ \E target \in Sizes :
       /\ target > disk[0].size /\ target >= host /\ (device => target = host)
       /\ \E end \in {disk[0].size, target} : BeginJob(target, disk[0].size, end, host)
  /\ UNCHANGED <<disk, host>>

\* error: the file of a volume that was not created is emptied.
Fail ==
  /\ status' = "failed" /\ Goto("idle")
  /\ host' = IF program = "format" /\ ~device THEN 0 ELSE host

PrimaryFirst ==
  /\ pc = "header"
  /\ \/ HeaderDone(0) /\ Goto("start") /\ UNCHANGED <<host, status>>
     \/ HeaderFails(0) /\ Fail
  /\ UNCHANGED <<program, device, job, progress, thread>>

\* Preallocation of the file; one that fails may have been done.
Preallocated == host' = job.target /\ disk' = Resized(job.target)
Grow ==
  /\ pc = "grow"
  /\ \/ /\ Goto("start") /\ UNCHANGED <<status, used>>
        /\ IF device THEN UNCHANGED <<disk, host>> ELSE Preallocated
     \/ /\ ~device /\ CanFail /\ CountFailure
        /\ status' = "failed" /\ Goto("idle")
        /\ \/ UNCHANGED <<disk, host>>
           \/ Preallocated
  /\ UNCHANGED <<program, device, job, progress, thread>>

\* An enlargement without initFreeSpace writes no data, and starts no thread.
SkipFill ==
  /\ pc = "start" /\ program = "expand" /\ job.from = job.end
  /\ Goto("backup")
  /\ UNCHANGED <<program, device, disk, host, job, status, progress, thread, used>>

\* StartFormatWriteThread for a device.
StartFormatWriteThread ==
  /\ pc = "start" /\ (program = "format" \/ job.from # job.end)
  /\ \/ /\ Goto("fill") /\ nSecNo' = job.from /\ place' = job.from
        /\ IF device
             THEN /\ writer' = "loop" /\ running' = TRUE /\ exitRequested' = FALSE
                  /\ empty' = TRUE /\ full' = FALSE /\ result' = "ok"
                  /\ UNCHANGED request
             ELSE UNCHANGED thread
        /\ UNCHANGED <<host, status, used>>
     \/ device /\ CanFail /\ CountFailure /\ Fail /\ UNCHANGED <<thread, progress>>
  /\ UNCHANGED <<program, device, disk, job>>

-----------------------------------------------------------------------------
(* FormatNoFs and FormatFat: WriteSector fills a buffer, which is flushed    *)
(* when it is full and at the end.                                           *)

\* Fault: the last buffer is written whole.
NextRequest_Whole == [from |-> nSecNo, count |-> BufferSize]

NextRequest ==
  LET rest == job.end - nSecNo
  IN [from |-> nSecNo, count |-> IF rest < BufferSize THEN rest ELSE BufferSize]

\* There is nothing left; or the user cancels, or a cipher cannot be set up.
EndFill ==
  /\ pc = "fill" /\ Goto("stop")
  /\ \/ nSecNo = job.end /\ UNCHANGED status
     \/ status' = "failed"
  /\ UNCHANGED <<program, device, disk, host, job, progress, thread, used>>

\* Fault: the buffer is handed over while the thread writes.
FlushToThread_Early ==
  /\ pc = "fill" /\ nSecNo < job.end /\ running
  /\ IF result = "ok"
       THEN /\ request' = NextRequest /\ nSecNo' = nSecNo + NextRequest.count
            /\ full' = TRUE /\ empty' = FALSE /\ UNCHANGED <<pc, status>>
       ELSE status' = "failed" /\ Goto("stop") /\ UNCHANGED <<request, nSecNo, full, empty>>
  /\ UNCHANGED <<program, device, disk, host, job, place, writer, running, exitRequested,
                 result, used>>

\* FlushFormatWriteBuffer for a device: the result of the write before is seen
\* when its buffer is empty.
FlushToThread ==
  /\ pc = "fill" /\ nSecNo < job.end /\ running /\ empty
  /\ IF result = "ok"
       THEN /\ request' = NextRequest /\ nSecNo' = nSecNo + NextRequest.count
            /\ full' = TRUE /\ empty' = FALSE /\ UNCHANGED <<pc, status>>
       ELSE status' = "failed" /\ Goto("stop") /\ UNCHANGED <<request, nSecNo, full, empty>>
  /\ UNCHANGED <<program, device, disk, host, job, place, writer, running, exitRequested,
                 result, used>>

\* The same for a file.
FlushDirectly ==
  /\ pc = "fill" /\ nSecNo < job.end /\ ~running
  /\ WriteData(NextRequest)
  /\ IF used' = used
       THEN nSecNo' = nSecNo + NextRequest.count /\ UNCHANGED <<pc, status>>
       ELSE status' = "failed" /\ Goto("stop") /\ UNCHANGED nSecNo
  /\ UNCHANGED <<program, device, host, job, thread>>

(* FormatWriteThreadProc                                                     *)

WriterLoops ==
  /\ writer = "loop"
  /\ writer' = IF exitRequested THEN "ended" ELSE "wait"
  /\ running' = ~exitRequested
  /\ UNCHANGED <<program, device, disk, host, job, pc, status, progress, exitRequested, empty,
                 full, request, result, used>>

WriterWakes ==
  /\ writer = "wait" /\ full /\ full' = FALSE
  /\ writer' = IF exitRequested THEN "ended" ELSE "write"
  /\ running' = ~exitRequested
  /\ UNCHANGED <<program, device, disk, host, job, pc, status, progress, exitRequested, empty,
                 request, result, used>>

WriterWrites ==
  /\ writer = "write"
  /\ WriteData(request)
  /\ result' = IF used' = used THEN "ok" ELSE "failed"
  /\ empty' = TRUE /\ writer' = "loop"
  /\ UNCHANGED <<program, device, host, job, pc, status, nSecNo, running, exitRequested, full,
                 request>>

(* StopFormatWriteThread: the wizard calls it for a device, the expander for  *)
(* any host.                                                                  *)

Stop ==
  /\ pc = "stop"
  /\ IF program = "format" /\ ~device
       THEN Goto("filled") /\ UNCHANGED <<empty, exitRequested, full>>
       ELSE IF running
         THEN /\ empty /\ empty' = FALSE /\ exitRequested' = TRUE /\ full' = TRUE
              /\ Goto("join")
         ELSE Goto("filled") /\ UNCHANGED <<empty, exitRequested, full>>
  /\ UNCHANGED <<program, device, disk, host, job, status, progress, writer, running, request,
                 result, used>>

Join ==
  /\ pc = "join" /\ writer = "ended"
  /\ writer' = "none" /\ Goto("filled")
  /\ UNCHANGED <<program, device, disk, host, job, status, progress, running, exitRequested,
                 empty, full, request, result, used>>

-----------------------------------------------------------------------------
\* The file of an enlargement that failed gets its size back, or a warning is shown.
Filled ==
  /\ pc = "filled"
  /\ \/ status = "ok" /\ Goto("backup") /\ UNCHANGED <<disk, host, status, used>>
     \/ status = "failed" /\ program = "format" /\ Fail /\ UNCHANGED <<disk, used>>
     \/ /\ status = "failed" /\ program = "expand" /\ Goto("idle") /\ UNCHANGED status
        /\ IF device
             THEN UNCHANGED <<disk, host, used>>
             ELSE \/ disk' = Resized(job.before) /\ host' = job.before /\ UNCHANGED used
                  \/ UNCHANGED <<disk, host>> /\ CanFail /\ CountFailure
  /\ UNCHANGED <<program, device, job, progress, thread>>

\* Fault: the primary header of an enlargement is written before the backup.
BackupHeader_Last ==
  /\ pc = "backup"
  /\ \/ /\ HeaderDone(IF program = "format" THEN job.target - 1 ELSE 0)
        /\ Goto(IF program = "format" THEN "idle" ELSE "primary")
        /\ UNCHANGED <<host, status>>
     \/ HeaderFails(IF program = "format" THEN job.target - 1 ELSE 0) /\ Fail
  /\ UNCHANGED <<program, device, job, progress, thread>>

BackupHeader ==
  /\ pc = "backup"
  /\ \/ /\ HeaderDone(job.target - 1)
        /\ Goto(IF program = "format" THEN "idle" ELSE "primary")
        /\ UNCHANGED <<host, status>>
     \/ HeaderFails(job.target - 1) /\ Fail
  /\ UNCHANGED <<program, device, job, progress, thread>>

PrimaryHeader ==
  /\ pc = "primary"
  /\ \/ HeaderDone(0) /\ Goto("wipe") /\ UNCHANGED <<host, status>>
     \/ HeaderFails(0) /\ Fail
  /\ UNCHANGED <<program, device, job, progress, thread>>

\* The passes over the old backup header: the user may have cancelled, and a
\* write that fails is a warning.
WipeOldBackupHeader ==
  LET old == job.from - 1
  IN
  /\ pc = "wipe" /\ Goto("idle")
  /\ \/ disk' = WithUnit(old, Random) /\ UNCHANGED <<status, used>>
     \/ disk' \in {disk, WithUnit(old, Random)} /\ status' = "failed" /\ UNCHANGED used
     \/ /\ disk' \in {disk, WithUnit(old, Random)}
        /\ status' = "warned" /\ CanFail /\ CountFailure
  /\ UNCHANGED <<program, device, host, job, progress, thread>>

\* The process dies, or the power is lost; a write under way may be torn.
ProcessDies ==
  /\ pc # "idle" /\ used.crashes < MaxCrashes
  /\ used' = [used EXCEPT !.crashes = @ + 1]
  /\ disk' \in CASE pc \in {"header", "primary"} -> TornHeader(0)
                 [] pc = "backup" -> TornHeader(job.target - 1)
                 [] pc = "wipe" -> {disk, WithUnit(job.from - 1, Torn)}
                 [] pc = "fill" /\ ~running /\ nSecNo < job.end -> {disk, Written(NextRequest)}
                 [] writer = "write" -> {disk, Written(request)}
                 [] OTHER -> {disk}
  /\ Goto("idle") /\ status' = "none"
  /\ writer' = "none" /\ running' = FALSE /\ exitRequested' = FALSE
  /\ empty' = FALSE /\ full' = FALSE /\ request' = NoRequest /\ result' = "ok"
  /\ UNCHANGED <<program, device, host, job, progress>>

\* The user is done.
Rest == pc = "idle" /\ UNCHANGED vars

Writer == WriterLoops \/ WriterWakes \/ WriterWrites
Job ==
  \/ CreateVolume \/ ExpandVolume \/ PrimaryFirst \/ Grow \/ SkipFill
  \/ StartFormatWriteThread \/ EndFill \/ FlushToThread \/ FlushDirectly
  \/ Stop \/ Join \/ Filled \/ BackupHeader \/ PrimaryHeader
  \/ WipeOldBackupHeader
Next == Job \/ Writer \/ ProcessDies \/ Rest

Spec == Init /\ [][Next]_vars
-----------------------------------------------------------------------------
Labels == {"idle", "header", "grow", "start", "fill", "stop", "join", "filled",
           "backup", "primary", "wipe"}

\* Every variable has its type.  The units that are handed over and the one on
\* its way are units of the job's data area, which lies within the host, and the
\* file pointer is where the buffer belongs: no data are written past the end
\* (FlushFormatWriteBuffer, FormatWriteThreadProc).
TypeOK ==
  /\ program \in {"format", "expand"} /\ device \in BOOLEAN
  /\ disk \in [Units -> Contents] /\ host \in Sizes \cup {0}
  /\ job \in [target : Sizes, from : 0 .. MaxSize, end : 0 .. MaxSize, before : Sizes \cup {0}]
  /\ pc \in Labels /\ status \in {"none", "ok", "warned", "failed"}
  /\ nSecNo \in 0 .. MaxSize /\ place \in 0 .. MaxSize
  /\ writer \in {"none", "loop", "wait", "write", "ended"}
  /\ running \in BOOLEAN /\ exitRequested \in BOOLEAN /\ empty \in BOOLEAN /\ full \in BOOLEAN
  /\ request \in [from : 0 .. MaxSize, count : 0 .. BufferSize]
  /\ result \in {"ok", "failed"}
  /\ used \in [jobs : 0 .. MaxJobs, failures : 0 .. MaxFailures, crashes : 0 .. MaxCrashes]
  /\ pc \notin {"idle", "grow"} => job.target <= host
  /\ pc \in {"fill", "stop", "join"} => job.end <= host
  /\ pc = "fill" => nSecNo \in job.from .. job.end /\ (device \/ place = nSecNo)
  /\ writer = "write" => place = request.from /\ place + request.count \in job.from .. job.end

\* The units that the job has written, except those of the last request to the
\* thread: StopFormatWriteThread does not look at its result.
Confirmed ==
  LET written == IF device /\ job.end > job.from THEN request.from ELSE job.end
  IN job.from .. written - 1

\* A job that reports success has written both headers, and what it was to
\* write of the data area is there, each unit in its place: no buffer is handed
\* to the thread while it writes the one before, and no failure but that of the
\* last request goes unseen.  Without a warning, the old backup header is gone.
\* (FlushFormatWriteBuffer, FormatWriteThreadProc, TCFormatVolume, ExpandVolume.)
SuccessMeansWritten ==
  pc = "idle" /\ status \in {"ok", "warned"} =>
    /\ disk[0] = Header(job.target) /\ disk[job.target - 1] = Header(job.target)
    /\ program = "expand" /\ status = "ok" => disk[job.from - 1].is # "header"
    /\ \A u \in Confirmed \ {job.target - 1} : disk[u] = Random

\* Whenever the expander or the system stops, a header in its place opens the
\* volume, within its host, and the files of the volume are as they were.
\* (ExpandVolume: the backup header first.)
VolumeOpens ==
  program = "expand" =>
    /\ \E u \in {0, host - 1} : disk[u].is = "header" /\ disk[u].size <= host
    /\ \A u \in 1 .. OldSize - 2 : disk[u] = Data
=============================================================================
