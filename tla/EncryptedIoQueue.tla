-------------------------- MODULE EncryptedIoQueue --------------------------
(***************************************************************************)
(* The encrypted I/O queue of the Windows driver (Driver/EncryptedIoQueue.c)*)
(* with the clients that drive it: dispatch routines that add IRPs, the    *)
(* setup thread that holds the queue while it re-encrypts a block of the    *)
(* device (Driver/DriveFilter.c, SetupThreadProc), and the thread that      *)
(* stops the queue.                                                         *)
(*                                                                          *)
(* One atomic step is one access to state another thread can see (an        *)
(* interlocked operation, a list operation under its spin lock, an event,   *)
(* a flag, one device transfer) with the thread-local code around it.       *)
(*                                                                          *)
(* Data are abstracted: a fragment is one block, the contents of a block    *)
(* are the fragment written there last and whether it lies encrypted.       *)
(***************************************************************************)
EXTENDS Integers, Sequences, FiniteSets

CONSTANTS
  Irps,            \* the read and write IRPs of the run
  Ops,             \* what an IRP may ask: records [write, aligned, off, len]
  DevLen,          \* the device has blocks 0 .. DevLen - 1
  Protected,       \* hidden volume (volume) or boot volume header (filter)
  IsFilterDevice,  \* queue of a boot drive filter, else of a mounted volume
  InitialAreas,    \* lengths of the encrypted area at the start
  ItemCount,       \* pool buffers of the size of an item
  RequestCount,    \* pool buffers of the size of a request
  MaxWorkItems,    \* preallocated completion work items
  MaxHolds,        \* bound: calls of EncryptedIoQueueHoldWhenIdle
  HoldTimesOut,    \* the holder passes a nonzero timeout
  MayFail,         \* device transfers may fail, IRPs may be cancelled
  MayStop          \* EncryptedIoQueueStop may be called

ASSUME CountsAssumption ==
  /\ DevLen \in Nat \ {0}
  /\ {ItemCount, RequestCount, MaxWorkItems} \subseteq Nat \ {0}
  /\ MaxHolds \in Nat

Blocks == 0 .. DevLen - 1
Buffers == {"A", "B"}                 \* FragmentBufferA, FragmentBufferB
Threads == {"main", "io", "comp", "hold", "stop"}

ASSUME OpsAssumption ==
  /\ IsFiniteSet(Irps)
  /\ Protected \subseteq Blocks
  /\ InitialAreas \subseteq 0 .. DevLen
  /\ {IsFilterDevice, HoldTimesOut, MayFail, MayStop} \subseteq BOOLEAN
  /\ \A o \in Ops : /\ DOMAIN o = {"write", "aligned", "off", "len"}
                    /\ {o.write, o.aligned} \subseteq BOOLEAN
                    /\ o.off \in Blocks /\ o.len \in Nat \ {0}
                    /\ IsFilterDevice => o.off + o.len <= DevLen

VARIABLES
  outstanding,      \* OutstandingIoCount
  ioPending,        \* IoThreadPendingRequestCount
  suspendPending, suspended, stopPending, exitRequested,
  protectionAction, \* bHiddenVolProtectionAction
  evt,              \* the events of the queue, by name; fragment buffers A, B
  mainQ, ioQ, compQ,
  items, requests,  \* pool buffers in use
  sem,              \* count of WorkItemSemaphore
  freeWork,         \* length of FreeWorkItemsList
  activeWork,       \* ActiveWorkItems
  pc,               \* where each thread is
  mIrp, mFrag, mBuf, mEnc, \* locals of MainThreadProc
  req,              \* request in the hands of the I/O and completion threads
  fragBuf,          \* contents of the two fragment buffers
  dev,              \* contents of the device
  ra,               \* the read-ahead buffer
  areaEnd,          \* EncryptedAreaEnd + 1: blocks below it are encrypted
  hBlock, hData,    \* the block the setup thread is transforming
  holds,            \* calls of HoldWhenIdle so far
  freed,            \* EncryptedIoQueueStop has freed the buffers
  op, phase, status,\* each IRP's parameters, progress, item status
  got,              \* data read so far into the buffer of each IRP
  served,           \* history: fragments of each IRP the device has served
  arrival           \* history: order in which IRPs entered MainThreadQueue

flags  == <<suspendPending, suspended, stopPending, exitRequested, protectionAction>>
queues == <<mainQ, ioQ, compQ>>
work   == <<sem, freeWork, activeWork>>
pools  == <<items, requests>>
mainL  == <<mIrp, mFrag, mBuf, mEnc>>
media  == <<dev, ra, fragBuf>>
setup  == <<areaEnd, hBlock, hData, holds>>
irps   == <<op, status, got, served, arrival>>
vars   == <<outstanding, ioPending, flags, evt, queues, pools, work, pc, mainL,
            req, media, setup, freed, phase, irps>>

(***************************************************************************)
(* Contents.  A block holds fragment k of IRP i, or what it held at start,  *)
(* and lies on the device encrypted or not; applying the cipher to data in  *)
(* the wrong state leaves it unreadable, which enc = TRUE stands for.       *)
(***************************************************************************)
Origin == [irp |-> "none", frag |-> 0]
Fragment(i, k) == [irp |-> i, frag |-> k]
Writers == [irp : Irps \cup {"none"}, frag : Nat]
Content == [val : Writers, enc : BOOLEAN]
Encrypted(b) == b < areaEnd
BlockOf(i, k) == op[i].off + k - 1
Decrypt(c) == [c EXCEPT !.enc = ~c.enc]

NoIrp == "none"
NoReq == [irp |-> NoIrp, frag |-> 0, buf |-> "A", enc |-> FALSE]
Requests == [irp : Irps, frag : Nat \ {0}, buf : Buffers, enc : BOOLEAN]
IsLast(r) == r.frag = op[r.irp].len
CompletesIrp_Always(r) == TRUE
CompletesIrp(r) == IsLast(r)            \* request->CompleteOriginalIrp

Events == {"noIo", "resumed", "poolFree", "mainQ", "ioQ", "compQ", "noActive"}

Init ==
  /\ outstanding = 0 /\ ioPending = 0
  /\ suspendPending = FALSE /\ suspended = FALSE /\ stopPending = FALSE
  /\ exitRequested = FALSE /\ protectionAction = FALSE
  /\ evt = [e \in Events \cup Buffers |-> e \in Buffers]
  /\ mainQ = <<>> /\ ioQ = <<>> /\ compQ = <<>>
  /\ items = {} /\ requests = {}
  /\ sem = MaxWorkItems /\ freeWork = MaxWorkItems /\ activeWork = 0
  /\ pc = [t \in Threads |-> IF t \in {"hold", "stop"} THEN "idle" ELSE "wait"]
  /\ mIrp = NoIrp /\ mFrag = 0 /\ mBuf = "A" /\ mEnc = FALSE
  /\ req = [t \in {"io", "comp"} |-> NoReq]
  /\ fragBuf = [b \in Buffers |-> [val |-> Origin, enc |-> FALSE]]
  /\ areaEnd \in InitialAreas
  /\ dev = [b \in Blocks |-> [val |-> Origin, enc |-> Encrypted(b)]]
  /\ ra = [valid |-> FALSE, off |-> 0, data |-> [val |-> Origin, enc |-> FALSE]]
  /\ hBlock = 0 /\ hData = [val |-> Origin, enc |-> FALSE]
  /\ holds = 0 /\ freed = FALSE
  /\ op \in [Irps -> Ops]
  /\ phase = [i \in Irps |-> "new"]
  /\ status = [i \in Irps |-> "ok"]
  /\ got = [i \in Irps |-> <<>>]
  /\ served = [i \in Irps |-> 0]
  /\ arrival = <<>>

Goto(t, l) == pc' = [pc EXCEPT ![t] = l]
Set(e) == evt' = [evt EXCEPT ![e] = TRUE]
Await(e) == evt[e] /\ evt' = [evt EXCEPT ![e] = FALSE]  \* synchronization event
Advance(i, p) == phase' = [phase EXCEPT ![i] = p]

(***************************************************************************)
(* Definitions named X_Y, here and below, are X with a fault Y that a       *)
(* property below must catch; no action uses them.                          *)
(***************************************************************************)

\* DecrementOutstandingIoCount looks at the flags only when it reached zero.
Decrement == outstanding' = outstanding - 1
AfterDecrement(then) == IF outstanding = 1 THEN "signal" ELSE then
Signal_HoldForgotten == evt' = [evt EXCEPT !["noIo"] = @ \/ stopPending]
Signal_StopForgotten == evt' = [evt EXCEPT !["noIo"] = @ \/ suspendPending]
SignalIfPending == evt' = [evt EXCEPT !["noIo"] = @ \/ suspendPending \/ stopPending]

(***************************************************************************)
(* EncryptedIoQueueAddIrp, by a dispatch routine, for IRP i.                *)
(***************************************************************************)
AddIrpCount(i) ==
  /\ phase[i] = "new" /\ Advance(i, "counted")
  /\ outstanding' = outstanding + 1
  /\ UNCHANGED <<ioPending, flags, evt, queues, pools, work, pc, mainL, req, media, setup, freed, irps>>

AddIrpAccept(i) ==
  /\ phase[i] = "counted" /\ ~stopPending /\ Advance(i, "granted")
  /\ UNCHANGED <<outstanding, ioPending, flags, evt, queues, pools, work, pc, mainL, req, media, setup, freed, irps>>

AddIrpReject_Uncounted(i) ==
  /\ phase[i] = "counted" /\ (stopPending \/ MayStop) /\ Advance(i, "rejected")
  /\ UNCHANGED <<outstanding, ioPending, flags, evt, queues, pools, work, pc, mainL, req, media, setup, freed, irps>>

\* StopPending, or the remove lock of a device being removed is refused.
AddIrpReject(i) ==
  /\ phase[i] = "counted" /\ (stopPending \/ MayStop)
  /\ Decrement /\ Advance(i, IF outstanding = 1 THEN "rejecting" ELSE "rejected")
  /\ UNCHANGED <<ioPending, flags, evt, queues, pools, work, pc, mainL, req, media, setup, freed, irps>>

AddIrpRejectSignal(i) ==
  /\ phase[i] = "rejecting" /\ Advance(i, "rejected")
  /\ SignalIfPending
  /\ UNCHANGED <<outstanding, ioPending, flags, queues, pools, work, pc, mainL, req, media, setup, freed, irps>>

AddIrpInsert(i) ==
  /\ phase[i] = "granted" /\ Advance(i, "queued")
  /\ mainQ' = Append(mainQ, i) /\ Set("mainQ")
  /\ arrival' = Append(arrival, i)
  /\ UNCHANGED <<outstanding, ioPending, flags, ioQ, compQ, pools, work, pc, mainL, req, media, setup, freed, op, status, got, served>>

AddIrp(i) == \/ AddIrpCount(i) \/ AddIrpAccept(i) \/ AddIrpReject(i)
             \/ AddIrpRejectSignal(i) \/ AddIrpInsert(i)

(***************************************************************************)
(* MainThreadProc.  Allocation from the pool waits for PoolBufferFreeEvent  *)
(* when every buffer of the size is in use (GetPoolBuffer after the start). *)
(***************************************************************************)
MainWake ==
  /\ pc["main"] = "wait" /\ Await("mainQ") /\ Goto("main", "dequeue")
  /\ UNCHANGED <<outstanding, ioPending, flags, queues, pools, work, mainL, req, media, setup, freed, phase, irps>>

MainDequeue ==
  /\ pc["main"] = "dequeue"
  /\ IF mainQ = <<>>
     THEN /\ Goto("main", IF exitRequested THEN "exit" ELSE "wait")
          /\ UNCHANGED <<mainQ, mIrp>>
     ELSE /\ mIrp' = Head(mainQ) /\ mainQ' = Tail(mainQ) /\ Goto("main", "gate")
  /\ UNCHANGED <<outstanding, ioPending, flags, evt, ioQ, compQ, pools, work, mFrag, mBuf, mEnc, req, media, setup, freed, phase, irps>>

GateClosed_Never == FALSE
GateClosed == suspended
MainGate ==
  /\ pc["main"] = "gate" /\ Goto("main", IF GateClosed THEN "held" ELSE "item")
  /\ UNCHANGED <<outstanding, ioPending, flags, evt, queues, pools, work, mainL, req, media, setup, freed, phase, irps>>

MainResumed ==
  /\ pc["main"] = "held" /\ Await("resumed") /\ Goto("main", "item")
  /\ UNCHANGED <<outstanding, ioPending, flags, queues, pools, work, mainL, req, media, setup, freed, phase, irps>>

MainGetItem ==
  /\ pc["main"] = "item"
  /\ IF Cardinality(items) < ItemCount
     THEN items' = items \cup {mIrp} /\ Goto("main", "check")
     ELSE Goto("main", "itemWait") /\ UNCHANGED items
  /\ UNCHANGED <<outstanding, ioPending, flags, evt, queues, requests, work, mainL, req, media, setup, freed, phase, irps>>

MainPoolFreed ==
  /\ \/ pc["main"] = "itemWait" /\ Goto("main", "item")
     \/ pc["main"] = "requestWait" /\ Goto("main", "request")
  /\ Await("poolFree")
  /\ UNCHANGED <<outstanding, ioPending, flags, queues, pools, work, mainL, req, media, setup, freed, phase, irps>>

\* What the checks of MainThreadProc make of the request of mIrp.
Span(o) == o.off .. (o.off + o.len - 1)
Misaligned(o) == IsFilterDevice /\ ~o.aligned /\ ~o.write
OutOfRange(o) == ~o.aligned \/ (~IsFilterDevice /\ o.off + o.len > DevLen)
HitsProtected_FirstBlock(o) == o.write /\ o.off \in Protected
HitsProtected(o) == o.write /\ Span(o) \cap Protected # {}
AfterProtection(o) == ~IsFilterDevice /\ o.write /\ Protected # {} /\ protectionAction
Denied(o) == ~Misaligned(o) /\ (OutOfRange(o) \/ AfterProtection(o) \/ HitsProtected(o))
TriggersProtection(o) == ~IsFilterDevice /\ ~OutOfRange(o) /\ HitsProtected(o)

\* CompleteOriginalIrp in the main thread: the IRP is completed and counted
\* off; the item goes back to the pool in MainDrop.
MainComplete ==
  /\ Advance(mIrp, "done") /\ Decrement /\ Goto("main", AfterDecrement("drop"))

\* The IRP was cancelled, the read failed, or memory could not be mapped.
MainFail ==
  /\ pc["main"] = "check" /\ MayFail
  /\ MainComplete
  /\ status' = [status EXCEPT ![mIrp] = "error"]
  /\ UNCHANGED <<ioPending, flags, evt, queues, pools, work, mainL, req, media, setup, freed, op, got, served, arrival>>

MainDeny ==
  /\ pc["main"] = "check" /\ Denied(op[mIrp])
  /\ MainComplete
  /\ status' = [status EXCEPT ![mIrp] = "denied"]
  /\ protectionAction' = (protectionAction \/ TriggersProtection(op[mIrp]))
  /\ UNCHANGED <<ioPending, suspendPending, suspended, stopPending, exitRequested, evt, queues, pools, work, mainL, req, media, setup, freed, op, got, served, arrival>>

\* A misaligned read is served by the main thread itself, past the queues.
MainReadMisaligned ==
  /\ pc["main"] = "check" /\ Misaligned(op[mIrp])
  /\ MainComplete
  /\ got' = [got EXCEPT ![mIrp] = [k \in 1 .. op[mIrp].len |->
               LET b == BlockOf(mIrp, k) IN IF Encrypted(b) THEN Decrypt(dev[b]) ELSE dev[b]]]
  /\ served' = [served EXCEPT ![mIrp] = op[mIrp].len]
  /\ UNCHANGED <<ioPending, flags, evt, queues, pools, work, mainL, req, media, setup, freed, op, status, arrival>>

MainSignal ==
  /\ pc["main"] = "signal" /\ SignalIfPending /\ Goto("main", "drop")
  /\ UNCHANGED <<outstanding, ioPending, flags, queues, pools, work, mainL, req, media, setup, freed, phase, irps>>

MainDrop ==
  /\ pc["main"] = "drop" /\ items' = items \ {mIrp} /\ Set("poolFree") /\ Goto("main", "dequeue")
  /\ UNCHANGED <<outstanding, ioPending, flags, queues, requests, work, mainL, req, media, setup, freed, phase, irps>>

\* The fragment loop: one request per fragment, fragment buffers in turn; the
\* intersection with the encrypted area is taken before the buffer is free.
NextFragment ==
  /\ mBuf' = IF mBuf = "A" THEN "B" ELSE "A"
  /\ ioPending' = ioPending + 1 /\ Goto("main", "request")
  /\ UNCHANGED <<outstanding, flags, evt, queues, pools, work, mIrp, mEnc, req, media, setup, freed, phase, irps>>

MainAccept ==
  /\ pc["main"] = "check" /\ ~Denied(op[mIrp]) /\ ~Misaligned(op[mIrp])
  /\ mFrag' = 1 /\ NextFragment

MainFragment == pc["main"] = "fragment" /\ NextFragment /\ UNCHANGED mFrag

MainGetRequest ==
  /\ pc["main"] = "request"
  /\ IF Cardinality(requests) < RequestCount
     THEN /\ requests' = requests \cup {<<mIrp, mFrag>>} /\ Goto("main", "fill")
          /\ mEnc' = Encrypted(BlockOf(mIrp, mFrag))
     ELSE Goto("main", "requestWait") /\ UNCHANGED <<requests, mEnc>>
  /\ UNCHANGED <<outstanding, ioPending, flags, evt, queues, items, work, mIrp, mFrag, mBuf, req, media, setup, freed, phase, irps>>

BufferFree_Assumed(b) == TRUE
BufferFree(b) == evt[b]

\* AcquireFragmentBuffer, encryption of the data written, and the I/O queue.
MainQueueIo ==
  /\ pc["main"] = "fill" /\ BufferFree(mBuf)
  /\ LET r == [irp |-> mIrp, frag |-> mFrag, buf |-> mBuf, enc |-> mEnc]
     IN /\ ioQ' = Append(ioQ, r)
        /\ fragBuf' = IF op[mIrp].write
                      THEN [fragBuf EXCEPT ![mBuf] = [val |-> Fragment(mIrp, mFrag), enc |-> mEnc]]
                      ELSE fragBuf
        /\ mFrag' = IF IsLast(r) THEN mFrag ELSE mFrag + 1
        /\ Goto("main", IF IsLast(r) THEN "dequeue" ELSE "fragment")
  /\ evt' = [evt EXCEPT ![mBuf] = FALSE, !["ioQ"] = TRUE]
  /\ UNCHANGED <<outstanding, ioPending, flags, mainQ, compQ, pools, work, mIrp, mBuf, mEnc, req, dev, ra, setup, freed, phase, irps>>

MainThread ==
  \/ MainWake \/ MainDequeue \/ MainGate \/ MainResumed \/ MainGetItem \/ MainPoolFreed
  \/ MainFail \/ MainDeny \/ MainReadMisaligned \/ MainSignal \/ MainDrop
  \/ MainAccept \/ MainFragment \/ MainGetRequest \/ MainQueueIo

(***************************************************************************)
(* IoThreadProc: one device transfer per request, then the read-ahead.      *)
(***************************************************************************)
ioReq == req["io"]
ioIrp == ioReq.irp
ioBlock == BlockOf(ioIrp, ioReq.frag)

IoWake ==
  /\ pc["io"] = "wait" /\ Await("ioQ") /\ Goto("io", IF exitRequested THEN "exit" ELSE "dequeue")
  /\ UNCHANGED <<outstanding, ioPending, flags, queues, pools, work, mainL, req, media, setup, freed, phase, irps>>

IoDequeue ==
  /\ pc["io"] = "dequeue"
  /\ IF ioQ = <<>>
     THEN /\ Goto("io", IF exitRequested THEN "exit" ELSE "wait")
          /\ UNCHANGED <<ioQ, ioPending, req>>
     ELSE /\ req' = [req EXCEPT !["io"] = Head(ioQ)] /\ ioQ' = Tail(ioQ)
          /\ ioPending' = ioPending - 1 /\ Goto("io", "perform")
  /\ UNCHANGED <<outstanding, flags, evt, mainQ, compQ, pools, work, mainL, media, setup, freed, phase, irps>>

\* Each way to serve the request ends here: the fragment buffer is released.
IoServed(next) ==
  /\ served' = [served EXCEPT ![ioIrp] = @ + 1]
  /\ Set(ioReq.buf) /\ Goto("io", next)
  /\ UNCHANGED <<outstanding, ioPending, flags, queues, pools, work, mainL, req, setup, freed, phase, op, arrival>>

WriteDone == IF CompletesIrp(ioReq) THEN "complete" ELSE "release"

\* After a preceding request of the item failed the device is left alone.
ItemOk_Ignored(i) == TRUE
ItemOk(i) == status[i] = "ok"

IoSkip ==
  /\ pc["io"] = "perform" /\ ~ItemOk(ioIrp)
  /\ ra' = [ra EXCEPT !.valid = @ /\ ~op[ioIrp].write]
  /\ IoServed(IF op[ioIrp].write THEN WriteDone ELSE "enqueue")
  /\ UNCHANGED <<dev, fragBuf, status, got>>

ReadAheadAfterWrite == [ra EXCEPT !.valid = FALSE]

\* A failed write may or may not have reached the medium.
IoWrite ==
  /\ pc["io"] = "perform" /\ ItemOk(ioIrp) /\ op[ioIrp].write
  /\ \/ dev' = [dev EXCEPT ![ioBlock] = fragBuf[ioReq.buf]] /\ UNCHANGED status
     \/ /\ MayFail /\ status' = [status EXCEPT ![ioIrp] = "error"]
        /\ dev' \in {dev, [dev EXCEPT ![ioBlock] = fragBuf[ioReq.buf]]}
  /\ ra' = ReadAheadAfterWrite
  /\ IoServed(WriteDone)
  /\ UNCHANGED <<fragBuf, got>>

\* TCCachedRead into the fragment buffer, and the copy to the IRP's buffer.
IoRead ==
  /\ pc["io"] = "perform" /\ ItemOk(ioIrp) /\ ~op[ioIrp].write
  /\ \/ LET hit == ra.valid /\ ra.off = ioBlock
            data == IF hit THEN ra.data ELSE dev[ioBlock]
        IN /\ fragBuf' = [fragBuf EXCEPT ![ioReq.buf] = data]
           /\ got' = [got EXCEPT ![ioIrp] = Append(@, data)]
           /\ UNCHANGED status
     \/ /\ MayFail /\ status' = [status EXCEPT ![ioIrp] = "error"]
        /\ UNCHANGED <<fragBuf, got>>
  /\ IoServed(IF CompletesIrp(ioReq) THEN "decide" ELSE "enqueue")
  /\ UNCHANGED <<dev, ra>>

\* The read-ahead counts as outstanding before its request is passed on.
IoDecideReadAhead ==
  /\ pc["io"] = "decide"
  /\ IF status[ioIrp] = "ok" /\ ioPending = 0
     THEN outstanding' = outstanding + 1 /\ Goto("io", "enqueueAhead")
     ELSE Goto("io", "enqueue") /\ UNCHANGED outstanding
  /\ UNCHANGED <<ioPending, flags, evt, queues, pools, work, mainL, req, media, setup, freed, phase, irps>>

IoEnqueue ==
  /\ \/ pc["io"] = "enqueue" /\ Goto("io", "dequeue")
     \/ pc["io"] = "enqueueAhead" /\ Goto("io", "ahead")
  /\ compQ' = Append(compQ, ioReq) /\ Set("compQ")
  /\ UNCHANGED <<outstanding, ioPending, flags, mainQ, ioQ, pools, work, mainL, req, media, setup, freed, phase, irps>>

IoBeginReadAhead ==
  /\ pc["io"] = "ahead"
  /\ ra' = [ra EXCEPT !.valid = FALSE, !.off = ioBlock + 1]
  /\ Goto("io", IF ioBlock + 1 < DevLen THEN "aheadRead" ELSE "aheadDone")
  /\ UNCHANGED <<outstanding, ioPending, flags, evt, queues, pools, work, mainL, req, dev, fragBuf, setup, freed, phase, irps>>

IoReadAhead ==
  /\ pc["io"] = "aheadRead" /\ Goto("io", "aheadDone")
  /\ \/ ra' = [ra EXCEPT !.valid = TRUE, !.data = dev[ra.off]]
     \/ MayFail /\ UNCHANGED ra
  /\ UNCHANGED <<outstanding, ioPending, flags, evt, queues, pools, work, mainL, req, dev, fragBuf, setup, freed, phase, irps>>

IoEndReadAhead ==
  /\ pc["io"] = "aheadDone" /\ Decrement /\ Goto("io", AfterDecrement("dequeue"))
  /\ UNCHANGED <<ioPending, flags, evt, queues, pools, work, mainL, req, media, setup, freed, phase, irps>>

IoSignal ==
  /\ pc["io"] = "signal" /\ SignalIfPending /\ Goto("io", "dequeue")
  /\ UNCHANGED <<outstanding, ioPending, flags, queues, pools, work, mainL, req, media, setup, freed, phase, irps>>

(***************************************************************************)
(* HandleCompleteOriginalIrp and the release of the request, by the I/O     *)
(* thread for a write and by the completion thread for a read.              *)
(***************************************************************************)
SemaphoreOpen_Always == TRUE
SemaphoreOpen == sem > 0
AwaitWorkItem(t) ==
  /\ pc[t] = "complete" /\ SemaphoreOpen /\ sem' = sem - 1
  /\ Goto(t, IF exitRequested THEN "release" ELSE "dispatch")
  /\ UNCHANGED <<outstanding, ioPending, flags, evt, queues, pools, freeWork, activeWork, mainL, req, media, setup, freed, phase, irps>>

DispatchWorkItem(t) ==
  /\ pc[t] = "dispatch" /\ Goto(t, "release")
  /\ freeWork' = freeWork - 1 /\ activeWork' = activeWork + 1
  /\ evt' = [evt EXCEPT !["noActive"] = FALSE]
  /\ Advance(req[t].irp, "completing")
  /\ UNCHANGED <<outstanding, ioPending, flags, queues, pools, sem, mainL, req, media, setup, freed, irps>>

ReleaseRequest(t) ==
  /\ pc[t] = "release" /\ Goto(t, "dequeue")
  /\ requests' = requests \ {<<req[t].irp, req[t].frag>>} /\ Set("poolFree")
  /\ UNCHANGED <<outstanding, ioPending, flags, queues, items, work, mainL, req, media, setup, freed, phase, irps>>

HandleComplete(t) == AwaitWorkItem(t) \/ DispatchWorkItem(t) \/ ReleaseRequest(t)

IoThread ==
  \/ IoWake \/ IoDequeue \/ IoSkip \/ IoWrite \/ IoRead
  \/ IoDecideReadAhead \/ IoEnqueue \/ IoBeginReadAhead \/ IoReadAhead
  \/ IoEndReadAhead \/ IoSignal \/ HandleComplete("io")

(***************************************************************************)
(* CompletionThreadProc: decrypts what was read.                            *)
(***************************************************************************)
CompWake ==
  /\ pc["comp"] = "wait" /\ Await("compQ") /\ Goto("comp", IF exitRequested THEN "exit" ELSE "dequeue")
  /\ UNCHANGED <<outstanding, ioPending, flags, queues, pools, work, mainL, req, media, setup, freed, phase, irps>>

CompDequeue ==
  /\ pc["comp"] = "dequeue"
  /\ IF compQ = <<>>
     THEN Goto("comp", IF exitRequested THEN "exit" ELSE "wait") /\ UNCHANGED <<compQ, req>>
     ELSE /\ req' = [req EXCEPT !["comp"] = Head(compQ)] /\ compQ' = Tail(compQ)
          /\ Goto("comp", "decrypt")
  /\ UNCHANGED <<outstanding, ioPending, flags, evt, mainQ, ioQ, pools, work, mainL, media, setup, freed, phase, irps>>

CompDecrypt ==
  /\ pc["comp"] = "decrypt"
  /\ LET r == req["comp"]
     IN /\ got' = IF r.enc /\ status[r.irp] = "ok"
                  THEN [got EXCEPT ![r.irp][r.frag] = Decrypt(@)] ELSE got
        /\ Goto("comp", IF CompletesIrp(r) THEN "complete" ELSE "release")
  /\ UNCHANGED <<outstanding, ioPending, flags, evt, queues, pools, work, mainL, req, media, setup, freed, phase, op, status, served, arrival>>

CompletionThread == CompWake \/ CompDequeue \/ CompDecrypt \/ HandleComplete("comp")

(***************************************************************************)
(* CompleteIrpWorkItemRoutine for IRP i, in a system worker thread.  The    *)
(* IRP counts as completed from the first step on.                          *)
(***************************************************************************)
WorkComplete(i) ==
  /\ phase[i] = "completing" /\ Decrement /\ Advance(i, AfterDecrement("retire"))
  /\ UNCHANGED <<ioPending, flags, evt, queues, pools, work, pc, mainL, req, media, setup, freed, irps>>

WorkSignal(i) ==
  /\ phase[i] = "signal" /\ SignalIfPending /\ Advance(i, "retire")
  /\ UNCHANGED <<outstanding, ioPending, flags, queues, pools, work, pc, mainL, req, media, setup, freed, irps>>

WorkRetire(i) ==
  /\ phase[i] = "retire" /\ activeWork' = activeWork - 1 /\ Advance(i, "return")
  /\ evt' = [evt EXCEPT !["noActive"] = @ \/ activeWork = 1]
  /\ UNCHANGED <<outstanding, ioPending, flags, queues, pools, sem, freeWork, pc, mainL, req, media, setup, freed, irps>>

WorkReturn(i) ==
  /\ phase[i] = "return" /\ freeWork' = freeWork + 1 /\ Advance(i, "post")
  /\ UNCHANGED <<outstanding, ioPending, flags, evt, queues, pools, sem, activeWork, pc, mainL, req, media, setup, freed, irps>>

\* Mutant: the work item is returned without releasing the semaphore.
WorkPost_Silent(i) ==
  /\ phase[i] = "post" /\ Advance(i, "release")
  /\ UNCHANGED <<outstanding, ioPending, flags, evt, queues, pools, work, pc, mainL, req, media, setup, freed, irps>>

WorkPost(i) ==
  /\ phase[i] = "post" /\ sem' = sem + 1 /\ Advance(i, "release")
  /\ UNCHANGED <<outstanding, ioPending, flags, evt, queues, pools, freeWork, activeWork, pc, mainL, req, media, setup, freed, irps>>

WorkRelease(i) ==
  /\ phase[i] = "release" /\ items' = items \ {i} /\ Set("poolFree") /\ Advance(i, "done")
  /\ UNCHANGED <<outstanding, ioPending, flags, queues, requests, work, pc, mainL, req, media, setup, freed, irps>>

CompleteIrpWorkItem(i) ==
  \/ WorkComplete(i) \/ WorkSignal(i) \/ WorkRetire(i)
  \/ WorkReturn(i) \/ WorkPost(i) \/ WorkRelease(i)

(***************************************************************************)
(* EncryptedIoQueueHoldWhenIdle, the block the setup thread transforms      *)
(* while the queue is held, and EncryptedIoQueueResumeFromHold.             *)
(***************************************************************************)
HoldBegin ==
  /\ pc["hold"] = "idle" /\ IsFilterDevice /\ holds < MaxHolds /\ holds' = holds + 1
  /\ suspendPending' = TRUE /\ Goto("hold", "check")
  /\ UNCHANGED <<outstanding, ioPending, suspended, stopPending, exitRequested, protectionAction, evt, queues, pools, work, mainL, req, media, areaEnd, hBlock, hData, freed, phase, irps>>

HoldCheck ==
  /\ pc["hold"] = "check" /\ Goto("hold", IF outstanding > 0 THEN "await" ELSE "suspend")
  /\ UNCHANGED <<outstanding, ioPending, flags, evt, queues, pools, work, mainL, req, media, setup, freed, phase, irps>>

HoldAwait ==
  /\ pc["hold"] = "await" /\ Await("noIo") /\ Goto("hold", "recheck")
  /\ UNCHANGED <<outstanding, ioPending, flags, queues, pools, work, mainL, req, media, setup, freed, phase, irps>>

\* The call fails: by timeout, or because new I/O came during TCSleep.
HoldGiveUp ==
  /\ \/ pc["hold"] = "await" /\ HoldTimesOut
     \/ pc["hold"] = "recheck" /\ outstanding > 0
  /\ suspendPending' = FALSE /\ Goto("hold", "idle")
  /\ UNCHANGED <<outstanding, ioPending, suspended, stopPending, exitRequested, protectionAction, evt, queues, pools, work, mainL, req, media, setup, freed, phase, irps>>

HoldRecheck ==
  /\ pc["hold"] = "recheck" /\ outstanding <= 0 /\ Goto("hold", "check")
  /\ UNCHANGED <<outstanding, ioPending, flags, evt, queues, pools, work, mainL, req, media, setup, freed, phase, irps>>

HoldSuspend ==
  /\ pc["hold"] = "suspend" /\ Goto("hold", "verify")
  /\ evt' = [evt EXCEPT !["resumed"] = FALSE] /\ suspended' = TRUE
  /\ UNCHANGED <<outstanding, ioPending, suspendPending, stopPending, exitRequested, protectionAction, queues, pools, work, mainL, req, media, setup, freed, phase, irps>>

StillIdle_Assumed == TRUE
StillIdle == outstanding = 0
HoldVerify ==
  /\ pc["hold"] = "verify" /\ Goto("hold", IF StillIdle THEN "settle" ELSE "undo")
  /\ UNCHANGED <<outstanding, ioPending, flags, evt, queues, pools, work, mainL, req, media, setup, freed, phase, irps>>

HoldUndo ==
  /\ pc["hold"] = "undo" /\ Goto("hold", "check")
  /\ suspended' = FALSE /\ Set("resumed")
  /\ UNCHANGED <<outstanding, ioPending, suspendPending, stopPending, exitRequested, protectionAction, queues, pools, work, mainL, req, media, setup, freed, phase, irps>>

ReadAheadWhenHeld_Kept == ra
ReadAheadWhenHeld == [ra EXCEPT !.valid = FALSE]
HoldSettle ==
  /\ pc["hold"] = "settle" /\ Goto("hold", "held")
  /\ ra' = ReadAheadWhenHeld /\ suspendPending' = FALSE
  /\ UNCHANGED <<outstanding, ioPending, suspended, stopPending, exitRequested, protectionAction, evt, queues, pools, work, mainL, req, dev, fragBuf, setup, freed, phase, irps>>

\* SetupThreadProc, encryption upwards or decryption downwards by one block.
SetupRead ==
  /\ pc["hold"] = "held" /\ Goto("hold", "transform")
  /\ hBlock' \in {areaEnd, areaEnd - 1} \cap Blocks
  /\ hData' = dev[hBlock']
  /\ UNCHANGED <<outstanding, ioPending, flags, evt, queues, pools, work, mainL, req, media, areaEnd, holds, freed, phase, irps>>

SetupWrite ==
  /\ pc["hold"] = "transform" /\ Goto("hold", "advance")
  /\ dev' = [dev EXCEPT ![hBlock] = Decrypt(hData)]
  /\ UNCHANGED <<outstanding, ioPending, flags, evt, queues, pools, work, mainL, req, ra, fragBuf, setup, freed, phase, irps>>

\* The write failed; the block is turned back and written as it was.
SetupUndo ==
  /\ pc["hold"] = "transform" /\ Goto("hold", "resume")
  /\ dev' = [dev EXCEPT ![hBlock] = hData]
  /\ UNCHANGED <<outstanding, ioPending, flags, evt, queues, pools, work, mainL, req, ra, fragBuf, setup, freed, phase, irps>>

NewAreaEnd == IF hBlock = areaEnd THEN areaEnd + 1 ELSE areaEnd - 1
SetupAdvance ==
  /\ pc["hold"] = "advance" /\ Goto("hold", "resume") /\ areaEnd' = NewAreaEnd
  /\ UNCHANGED <<outstanding, ioPending, flags, evt, queues, pools, work, mainL, req, media, hBlock, hData, holds, freed, phase, irps>>

\* Also without a transformed block: reading it failed, or setup was aborted.
Resume ==
  /\ pc["hold"] \in {"held", "resume"} /\ Goto("hold", "idle")
  /\ suspended' = FALSE /\ Set("resumed")
  /\ UNCHANGED <<outstanding, ioPending, suspendPending, stopPending, exitRequested, protectionAction, queues, pools, work, mainL, req, media, setup, freed, phase, irps>>

HoldStep ==
  \/ HoldCheck \/ HoldAwait \/ HoldGiveUp \/ HoldRecheck \/ HoldSuspend
  \/ HoldVerify \/ HoldUndo \/ HoldSettle \/ SetupRead \/ SetupWrite \/ SetupUndo \/ SetupAdvance \/ Resume

(***************************************************************************)
(* EncryptedIoQueueStop.                                                    *)
(***************************************************************************)
StopBegin ==
  /\ pc["stop"] = "idle" /\ MayStop /\ stopPending' = TRUE /\ Goto("stop", "check")
  /\ UNCHANGED <<outstanding, ioPending, suspendPending, suspended, exitRequested, protectionAction, evt, queues, pools, work, mainL, req, media, setup, freed, phase, irps>>

StopCheck ==
  /\ pc["stop"] = "check" /\ Goto("stop", IF outstanding > 0 THEN "await" ELSE "exit")
  /\ UNCHANGED <<outstanding, ioPending, flags, evt, queues, pools, work, mainL, req, media, setup, freed, phase, irps>>

StopAwait ==
  /\ pc["stop"] = "await" /\ Await("noIo") /\ Goto("stop", "check")
  /\ UNCHANGED <<outstanding, ioPending, flags, queues, pools, work, mainL, req, media, setup, freed, phase, irps>>

StopRequestExit ==
  /\ pc["stop"] = "exit" /\ exitRequested' = TRUE /\ Goto("stop", "main")
  /\ UNCHANGED <<outstanding, ioPending, suspendPending, suspended, stopPending, protectionAction, evt, queues, pools, work, mainL, req, media, setup, freed, phase, irps>>

\* TCStopThread: wake the thread, then wait until it has ended.
QueueOf == [main |-> "mainQ", io |-> "ioQ", comp |-> "compQ"]
Joining == [main |-> "mainJoin", io |-> "ioJoin", comp |-> "compJoin"]
NextStop == [main |-> "io", io |-> "comp", comp |-> "reset"]

StopWake(t) ==
  /\ pc["stop"] = t /\ Set(QueueOf[t]) /\ Goto("stop", Joining[t])
  /\ UNCHANGED <<outstanding, ioPending, flags, queues, pools, work, mainL, req, media, setup, freed, phase, irps>>

StopJoin(t) ==
  /\ pc["stop"] = Joining[t] /\ pc[t] = "exit" /\ Goto("stop", NextStop[t])
  /\ UNCHANGED <<outstanding, ioPending, flags, evt, queues, pools, work, mainL, req, media, setup, freed, phase, irps>>

\* KeResetEvent, first before the loop and then after each wait in it.
StopResetEvent ==
  /\ \/ pc["stop"] = "reset"
     \/ pc["stop"] = "drain" /\ evt["noActive"]   \* notification event: stays set
  /\ evt' = [evt EXCEPT !["noActive"] = FALSE] /\ Goto("stop", "drainCheck")
  /\ UNCHANGED <<outstanding, ioPending, flags, queues, pools, work, mainL, req, media, setup, freed, phase, irps>>

WorkActive_Ignored == FALSE
WorkActive == activeWork > 0
StopDrainCheck ==
  /\ pc["stop"] = "drainCheck" /\ Goto("stop", IF WorkActive THEN "drain" ELSE "free")
  /\ UNCHANGED <<outstanding, ioPending, flags, evt, queues, pools, work, mainL, req, media, setup, freed, phase, irps>>

\* Work items, fragment buffers, read-ahead buffer and pool buffers.
StopFree ==
  /\ pc["stop"] = "free" /\ freed' = TRUE /\ Goto("stop", "stopped")
  /\ UNCHANGED <<outstanding, ioPending, flags, evt, queues, pools, work, mainL, req, media, setup, phase, irps>>

StopStep ==
  \/ StopCheck \/ StopAwait \/ StopRequestExit
  \/ (\E t \in {"main", "io", "comp"} : StopWake(t) \/ StopJoin(t))
  \/ StopResetEvent \/ StopDrainCheck \/ StopFree

Next ==
  \/ \E i \in Irps : AddIrp(i) \/ CompleteIrpWorkItem(i)
  \/ MainThread \/ IoThread \/ CompletionThread
  \/ HoldBegin \/ HoldStep \/ StopBegin \/ StopStep

Spec == Init /\ [][Next]_vars

(***************************************************************************)
(* Fairness: every thread the system schedules goes on, device transfers    *)
(* end, and system workers run the queued work items.  No IRP has to be     *)
(* submitted, and nobody has to start a hold or a stop.                     *)
(***************************************************************************)
Fairness ==
  /\ \A i \in Irps : /\ WF_vars(AddIrp(i) /\ phase[i] # "new")
                     /\ WF_vars(CompleteIrpWorkItem(i))
  /\ WF_vars(MainThread) /\ WF_vars(IoThread) /\ WF_vars(CompletionThread)
  /\ WF_vars(HoldStep) /\ WF_vars(StopStep)

FairSpec == Spec /\ Fairness

-----------------------------------------------------------------------------
(***************************************************************************)
(* Properties                                                               *)
(***************************************************************************)
Phases == {"new", "counted", "granted", "rejecting", "rejected", "queued", "completing",
           "signal", "retire", "return", "post", "release", "done"}
MainStates == {"wait", "dequeue", "gate", "held", "item", "itemWait", "check", "signal", "drop",
               "fragment", "request", "requestWait", "fill", "exit"}
IoStates == {"wait", "dequeue", "perform", "decide", "enqueue", "enqueueAhead", "ahead",
             "aheadRead", "aheadDone", "signal", "complete", "dispatch", "release", "exit"}
CompStates == {"wait", "dequeue", "decrypt", "complete", "dispatch", "release", "exit"}
HoldStates == {"idle", "check", "await", "recheck", "suspend", "verify", "undo", "settle",
               "held", "transform", "advance", "resume"}
StopStates == {"idle", "check", "await", "exit", "main", "mainJoin", "io", "ioJoin", "comp",
               "compJoin", "reset", "drainCheck", "drain", "free", "stopped"}

\* Every variable keeps its type.
TypeOK ==
  /\ outstanding \in Int /\ ioPending \in Int
  /\ {suspendPending, suspended, stopPending, exitRequested, protectionAction, freed} \subseteq BOOLEAN
  /\ evt \in [Events \cup Buffers -> BOOLEAN]
  /\ mainQ \in Seq(Irps) /\ arrival \in Seq(Irps)
  /\ ioQ \in Seq(Requests) /\ compQ \in Seq(Requests)
  /\ items \in SUBSET Irps /\ requests \in SUBSET (Irps \X Nat)
  /\ {sem, freeWork, activeWork} \subseteq 0 .. MaxWorkItems
  /\ pc \in [Threads -> MainStates \cup IoStates \cup CompStates \cup HoldStates \cup StopStates]
  /\ mIrp \in Irps \cup {NoIrp} /\ mFrag \in Nat /\ mBuf \in Buffers /\ mEnc \in BOOLEAN
  /\ req \in [{"io", "comp"} -> Requests \cup {NoReq}]
  /\ fragBuf \in [Buffers -> Content] /\ dev \in [Blocks -> Content]
  /\ ra \in [valid : BOOLEAN, off : Nat, data : Content]
  /\ areaEnd \in 0 .. DevLen /\ hBlock \in Blocks /\ hData \in Content
  /\ holds \in 0 .. MaxHolds
  /\ op \in [Irps -> Ops] /\ phase \in [Irps -> Phases]
  /\ status \in [Irps -> {"ok", "error", "denied"}]
  /\ got \in [Irps -> Seq(Content)] /\ served \in [Irps -> Nat]

\* OutstandingIoCount counts exactly the IRPs accepted and not yet completed,
\* and the read-ahead under way (AddIrp, OnItemCompleted, IoThreadProc).
Counted(i) == phase[i] \in {"counted", "granted", "queued", "completing"}
ReadingAhead == pc["io"] \in {"enqueueAhead", "ahead", "aheadRead", "aheadDone"}
OutstandingExact ==
  outstanding = Cardinality({i \in Irps : Counted(i)}) + (IF ReadingAhead THEN 1 ELSE 0)

\* From the success of EncryptedIoQueueHoldWhenIdle until the queue is resumed
\* the setup thread owns the device: no thread of the queue transfers data,
\* has taken a decision about the encrypted area it has yet to act on, or
\* still decrypts data that it read.
Holding == pc["hold"] \in {"settle", "held", "transform", "advance", "resume"}
MainPastGate == pc["main"] \in {"item", "itemWait", "check", "fragment", "request", "requestWait", "fill"}
IoBusy == pc["io"] \in IoStates \ {"wait", "dequeue", "release", "signal", "exit"}
CompBusy == pc["comp"] \in {"decrypt", "complete", "dispatch"}
HeldMeansQuiescent ==
  Holding => /\ ioQ = <<>> /\ compQ = <<>>
             /\ ~MainPastGate /\ ~IoBusy /\ ~CompBusy

\* What lies encrypted on the medium is the encrypted area, except while the
\* setup thread has rewritten a block and not yet moved EncryptedAreaEnd.
MediumMatchesArea ==
  pc["hold"] # "advance" => \A b \in Blocks : dev[b].enc = Encrypted(b)

\* A valid read-ahead buffer holds what a read of the device would return,
\* whatever was written since by the I/O thread or the setup thread.
ReadAheadCoherent == ra.valid => ra.data = dev[ra.off]

\* A fragment buffer belongs to one fragment at a time, from the main thread
\* filling it until the I/O thread has released it, and is free otherwise.
BuffersBusy == [n \in 1 .. Len(ioQ) |-> ioQ[n].buf] \o
               (IF pc["io"] = "perform" THEN <<ioReq.buf>> ELSE <<>>)
FragmentBuffersExclusive ==
  /\ \A m, n \in DOMAIN BuffersBusy : m # n => BuffersBusy[m] # BuffersBusy[n]
  /\ \A n \in DOMAIN BuffersBusy : ~evt[BuffersBusy[n]]

\* Whoever has passed the work item semaphore finds a work item in the free
\* list, although the I/O and the completion thread compete for them.
WorkItemAvailable ==
  freeWork >= Cardinality({t \in {"io", "comp"} : pc[t] = "dispatch"})

\* A request is in use in the pool as long as a thread or a queue has it, and
\* so is its item until a completion work item has it.
InFlight == {ioQ[n] : n \in DOMAIN ioQ} \cup {compQ[n] : n \in DOMAIN compQ}
            \cup {req[t] : t \in {t \in {"io", "comp"} : pc[t] \in {"perform", "decide", "enqueue", "enqueueAhead", "decrypt", "complete", "dispatch"}}}
PoolBuffersLive ==
  \A r \in InFlight : /\ <<r.irp, r.frag>> \in requests
                      /\ r.irp \in items
                      /\ phase[r.irp] = "queued"

\* When EncryptedIoQueueStop frees the queue, each IRP is answered or will be
\* turned away, the threads have ended and no request is left anywhere.
StopDrains ==
  freed => /\ \A i \in Irps : phase[i] \notin {"granted", "queued", "completing", "signal", "retire"}
           /\ \A t \in {"main", "io", "comp"} : pc[t] = "exit"
           /\ requests = {} /\ mainQ = <<>> /\ ioQ = <<>> /\ compQ = <<>>

\* FreePoolBuffers asserts that no pool buffer is in use once the queue is
\* started: ASSERT (!buffer->InUse || queue->StartPending).
PoolIdleWhenFreed == freed => items = {} /\ requests = {}

\* Hidden volume protection: the protected blocks are never written, and no
\* write that arrived after the first one denied succeeds.
ProtectionHolds ==
  /\ \A b \in Protected : dev[b].val = Origin
  /\ ~IsFilterDevice =>
       \A m, n \in DOMAIN arrival :
         (/\ m < n /\ phase[arrival[m]] = "done" /\ phase[arrival[n]] = "done"
          /\ status[arrival[m]] = "denied" /\ TriggersProtection(op[arrival[m]])
          /\ op[arrival[n]].write)
         => status[arrival[n]] # "ok"

\* Refinement: with the cipher removed, the queue and the setup thread
\* together are the plain disk of TransparentDisk.
Answered(i) == phase[i] \in {"signal", "retire", "return", "post", "release", "done"}
Unreadable == [irp |-> "unreadable", frag |-> 0]
Disk == INSTANCE TransparentDisk WITH
  disk <- [b \in Blocks |-> dev[b].val],
  state <- [i \in Irps |-> CASE phase[i] \in {"new", "counted", "granted"} -> "new"
                             [] phase[i] \in {"rejecting", "rejected"} -> "rejected"
                             [] phase[i] \in {"queued", "completing"} -> "open"
                             [] OTHER -> "done"],
  data <- [i \in Irps |-> [k \in DOMAIN got[i] |-> got[i][k].val]],
  answer <- [i \in Irps |-> IF Answered(i) /\ status[i] = "ok"
              THEN [k \in DOMAIN got[i] |-> IF got[i][k].enc THEN Unreadable ELSE got[i][k].val]
              ELSE <<>>]
IsTransparentDisk == Disk!Spec

\* Every IRP that EncryptedIoQueueAddIrp takes up is answered or turned away:
\* again and again no IRP is left under way (each IRP is submitted once, so this
\* is for good).  In queue_live this goes through a hold or a stop, a pool of one
\* request, and the only work item, for which the I/O and the completion thread
\* compete and wait while it is in use (EncryptedIoQueue.c:346-366).
EveryIrpCompletes == []<>(\A i \in Irps : phase[i] \in {"new", "done", "rejected"})

\* A call of EncryptedIoQueueHoldWhenIdle returns, and a hold is resumed.
HoldEnds == []<>(pc["hold"] = "idle")

\* EncryptedIoQueueStop returns.
StopEnds == []<>(pc["stop"] \in {"idle", "stopped"})
=============================================================================
