--------------------- MODULE EncryptedIoQueue_resources ---------------------
(***************************************************************************)
(* What the requests in flight hold: buffers of the pool, the two fragment  *)
(* buffers, and what the queue knows of the medium; what became of the      *)
(* writes, by their order of arrival; the types; and last, that the queue   *)
(* implements TransparentDisk.  On top of the places of the requests that   *)
(* EncryptedIoQueue_pipeline establishes.                                   *)
(***************************************************************************)
EXTENDS EncryptedIoQueue_pipeline, SequenceTheorems

(***************************************************************************)
(* Where requests go: in flight from MainQueueIo until their release.       *)
(***************************************************************************)
LEMMA InFlightIs ==
  /\ InFlight = Elements(ioQ) \cup Elements(compQ) \cup {req[t] : t \in {t \in {"io", "comp"} : pc[t] \in Handling}}
  /\ InFlight \subseteq Flight
<1>1. InFlight = Elements(ioQ) \cup Elements(compQ) \cup {req[t] : t \in {t \in {"io", "comp"} : pc[t] \in Handling}}
  BY DEF InFlight, Elements, Handling
<1>2. \A t \in {"io", "comp"} : pc[t] \in Handling => req[t] \in IoHand \cup CompHand
  BY DEF IoHand, CompHand, IoHolds, CompHolds
<1> QED BY <1>1, <1>2 DEF Flight

\* Two requests in flight are of different fragments.
LEMMA OneOfEachFragment ==
  ASSUME PipeInv, NEW t \in {"io", "comp"}, ReleaseRequest(t)
  PROVE  /\ Flight = Flight' \cup {req[t]}
         /\ \A s \in Flight' : <<s.irp, s.frag>> # <<req[t].irp, req[t].frag>>
<1>1. UNCHANGED <<ioQ, compQ, req>> /\ pc[t] = "release" /\ Goto(t, "dequeue") BY DEF ReleaseRequest, queues
<1>2. pc = [k \in Threads |-> pc[k]] BY DEF PipeInv, PipeTypes
<1>3. /\ \A k \in {"io", "comp"} : k # t => pc'[k] = pc[k]
      /\ pc'[t] = "dequeue"
  BY <1>1, <1>2 DEF Goto, Threads
<1>4. Elements(ioQ)' = Elements(ioQ) /\ Elements(compQ)' = Elements(compQ) BY <1>1 DEF Elements
<1>5. \A s \in Flight : s.frag \in Nat BY DEF PipeInv, PipeTypes, Requests
<1>6. CASE t = "io"
  <2>1. IoHand = {req[t]} /\ IoHand' = {} /\ CompHand' = CompHand
    BY <1>1, <1>3, <1>6 DEF IoHand, CompHand, IoHolds, CompHolds, Handling
  <2>2. \A s \in Flight' : Before(s, req[t]) \/ Before(req[t], s)
    BY <1>4, <2>1 DEF PipeInv, InOrder, Flight
  <2> QED BY <1>4, <1>5, <2>1, <2>2 DEF Flight, Before
<1>7. CASE t = "comp"
  <2>1. CompHand = {req[t]} /\ CompHand' = {} /\ IoHand' = IoHand
    BY <1>1, <1>3, <1>7 DEF IoHand, CompHand, IoHolds, CompHolds, Handling
  <2>2. \A s \in Flight' : Before(s, req[t]) \/ Before(req[t], s)
    BY <1>4, <2>1 DEF PipeInv, InOrder, Flight
  <2> QED BY <1>4, <1>5, <2>1, <2>2 DEF Flight, Before
<1> QED BY <1>6, <1>7

LEMMA FlightEnters ==
  ASSUME PipeInv, MainQueueIo
  PROVE  Flight' = Flight \cup {[irp |-> mIrp, frag |-> mFrag, buf |-> mBuf, enc |-> mEnc]}
<1> DEFINE r == [irp |-> mIrp, frag |-> mFrag, buf |-> mBuf, enc |-> mEnc]
<1>1. UNCHANGED <<compQ, req>> /\ ioQ' = Append(ioQ, r) /\ pc["main"] = "fill" /\ \E l : Goto("main", l)
  BY Zenon DEF MainQueueIo
<1>2. r \in Requests BY <1>1 DEF PipeInv, PipeTypes, Looping, Requests
<1> HIDE DEF r
<1>3. Elements(ioQ)' = Elements(ioQ) \cup {r} BY <1>1, <1>2, ElementsAppend DEF PipeInv, PipeTypes
<1>4. pc'["io"] = pc["io"] /\ pc'["comp"] = pc["comp"] BY <1>1 DEF Goto, Threads, PipeInv, PipeTypes
<1>5. IoHand' = IoHand /\ CompHand' = CompHand /\ Elements(compQ)' = Elements(compQ)
  BY <1>1, <1>4 DEF IoHand, CompHand, IoHolds, CompHolds, Elements
<1>6. Flight' = Flight \cup {r} BY <1>3, <1>5 DEF Flight
<1> QED BY <1>6 DEF r

LEMMA FlightStays ==
  ASSUME PipeInv, IoThread \/ CompletionThread, ~ReleaseRequest("io"), ~ReleaseRequest("comp")
  PROVE  Flight' = Flight
<1>1. pc = [t \in Threads |-> pc[t]] /\ req = [t \in {"io", "comp"} |-> req[t]] BY DEF PipeInv, PipeTypes
<1>2. ioQ \in Seq(Requests) /\ compQ \in Seq(Requests) BY DEF PipeInv, PipeTypes
<1>3. CASE IoDequeue
  <2>1. /\ UNCHANGED compQ /\ pc["io"] = "dequeue" /\ pc'["comp"] = pc["comp"] /\ req'["comp"] = req["comp"]
        /\ ioQ = <<>> => UNCHANGED ioQ /\ pc'["io"] \in {"exit", "wait"}
        /\ ioQ # <<>> => req'["io"] = Head(ioQ) /\ ioQ' = Tail(ioQ) /\ pc'["io"] = "perform"
    BY <1>1, <1>3 DEF IoDequeue, Goto, Threads
  <2>2. CompHand' = CompHand /\ Elements(compQ)' = Elements(compQ) /\ IoHand = {}
    BY <2>1 DEF CompHand, CompHolds, IoHand, IoHolds, Handling, Elements
  <2>3. Elements(ioQ)' \cup IoHand' = Elements(ioQ)
    <3>1. CASE ioQ = <<>> BY <2>1, <3>1 DEF IoHand, IoHolds, Handling, Elements
    <3>2. CASE ioQ # <<>>
      <4>1. IoHand' = {Head(ioQ)} BY <2>1, <3>2 DEF IoHand, IoHolds, Handling
      <4>2. Elements(ioQ)' = Elements(Tail(ioQ)) BY <2>1, <3>2
      <4> QED BY <1>2, <3>2, <4>1, <4>2, HeadAndTail
    <3> QED BY <3>1, <3>2
  <2> QED BY <2>2, <2>3 DEF Flight
<1>4. CASE CompDequeue
  <2>1. /\ UNCHANGED ioQ /\ pc["comp"] = "dequeue" /\ pc'["io"] = pc["io"] /\ req'["io"] = req["io"]
        /\ compQ = <<>> => UNCHANGED compQ /\ pc'["comp"] \in {"exit", "wait"}
        /\ compQ # <<>> => req'["comp"] = Head(compQ) /\ compQ' = Tail(compQ) /\ pc'["comp"] = "decrypt"
    BY <1>1, <1>4 DEF CompDequeue, Goto, Threads
  <2>2. IoHand' = IoHand /\ Elements(ioQ)' = Elements(ioQ) /\ CompHand = {}
    BY <2>1 DEF CompHand, CompHolds, IoHand, IoHolds, Handling, Elements
  <2>3. Elements(compQ)' \cup CompHand' = Elements(compQ)
    <3>1. CASE compQ = <<>> BY <2>1, <3>1 DEF CompHand, CompHolds, Handling, Elements
    <3>2. CASE compQ # <<>>
      <4>1. CompHand' = {Head(compQ)} BY <2>1, <3>2 DEF CompHand, CompHolds, Handling
      <4>2. Elements(compQ)' = Elements(Tail(compQ)) BY <2>1, <3>2
      <4> QED BY <1>2, <3>2, <4>1, <4>2, HeadAndTail
    <3> QED BY <3>1, <3>2
  <2> QED BY <2>2, <2>3 DEF Flight
<1>5. CASE IoEnqueue
  <2>1. UNCHANGED <<ioQ, req>> /\ pc["io"] \in {"enqueue", "enqueueAhead"} /\ compQ' = Append(compQ, ioReq)
    BY <1>5 DEF IoEnqueue
  <2>2. pc'["comp"] = pc["comp"] /\ pc'["io"] \in {"dequeue", "ahead"} BY <1>1, <1>5 DEF IoEnqueue, Goto, Threads
  <2>3. IoHand = {ioReq} /\ IoHand' = {} /\ CompHand' = CompHand /\ Elements(ioQ)' = Elements(ioQ)
    BY <2>1, <2>2 DEF IoHand, CompHand, IoHolds, CompHolds, Handling, ioReq, Elements
  <2>4. ioReq \in Requests BY <2>3 DEF Flight, PipeInv, PipeTypes
  <2>5. Elements(compQ)' = Elements(compQ) \cup {ioReq} BY <1>2, <2>1, <2>4, ElementsAppend
  <2> QED BY <2>3, <2>5 DEF Flight
<1>6. CASE ~IoDequeue /\ ~CompDequeue /\ ~IoEnqueue
  <2>1. /\ UNCHANGED <<ioQ, compQ, req>>
        /\ \/ \E l : Goto("io", l) /\ (pc["io"] \in Handling \cup {"release"} <=> l \in Handling \cup {"release"})
           \/ \E l : Goto("comp", l) /\ (pc["comp"] \in Handling \cup {"release"} <=> l \in Handling \cup {"release"})
    <3>1. CASE IoWake \/ IoBeginReadAhead \/ IoReadAhead \/ IoEndReadAhead \/ IoSignal
      <4>1. /\ UNCHANGED <<ioQ, compQ, req>>
            /\ pc["io"] \in {"wait", "ahead", "aheadRead", "aheadDone", "signal"}
            /\ \E l \in {"exit", "dequeue", "aheadRead", "aheadDone", "signal"} : Goto("io", l)
        BY <3>1 DEF IoWake, IoBeginReadAhead, IoReadAhead, IoEndReadAhead, IoSignal, queues, AfterDecrement
      <4> QED BY <4>1 DEF Handling
    <3>2. CASE IoSkip \/ IoWrite \/ IoRead \/ IoDecideReadAhead
      <4>1. /\ UNCHANGED <<ioQ, compQ, req>>
            /\ pc["io"] \in {"perform", "decide"}
            /\ \E l \in {"complete", "release", "enqueue", "decide", "enqueueAhead"} : Goto("io", l)
        BY <3>2 DEF IoSkip, IoWrite, IoRead, IoServed, WriteDone, IoDecideReadAhead, queues
      <4> QED BY <4>1 DEF Handling
    <3>3. CASE CompWake \/ CompDecrypt
      <4>1. /\ UNCHANGED <<ioQ, compQ, req>>
            /\ \/ pc["comp"] = "wait" /\ \E l \in {"exit", "dequeue"} : Goto("comp", l)
               \/ pc["comp"] = "decrypt" /\ \E l \in {"complete", "release"} : Goto("comp", l)
        BY <3>3 DEF CompWake, CompDecrypt, queues
      <4> QED BY <4>1 DEF Handling
    <3>4. CASE \E t \in {"io", "comp"} : AwaitWorkItem(t) \/ DispatchWorkItem(t)
      <4>1. PICK t \in {"io", "comp"} : AwaitWorkItem(t) \/ DispatchWorkItem(t) BY <3>4
      <4>2. /\ UNCHANGED <<ioQ, compQ, req>> /\ pc[t] \in {"complete", "dispatch"}
            /\ \E l \in {"dispatch", "release"} : Goto(t, l)
        BY <4>1 DEF AwaitWorkItem, DispatchWorkItem, queues
      <4> QED BY <4>2 DEF Handling
    <3> QED BY <1>6, <3>1, <3>2, <3>3, <3>4 DEF IoThread, CompletionThread, HandleComplete
  <2>2. IoHand' = IoHand /\ CompHand' = CompHand
    BY <1>1, <2>1 DEF Goto, Threads, IoHand, CompHand, IoHolds, CompHolds
  <2> QED BY <2>1, <2>2 DEF Flight, Elements
<1> QED BY <1>3, <1>4, <1>5, <1>6

(***************************************************************************)
(* Pool buffers.  The requests in use are those in flight and the one the   *)
(* main thread is filling.                                                  *)
(***************************************************************************)
Filling == IF pc["main"] = "fill" THEN {<<mIrp, mFrag>>} ELSE {}
Claims == {<<r.irp, r.frag>> : r \in Flight} \cup Filling
ItemNeeded == {"check"} \cup Looping
PoolInv ==
  /\ requests = Claims
  /\ \A r \in Flight : phase[r.irp] = "queued" => r.irp \in items
  /\ pc["main"] \in ItemNeeded => mIrp \in items

\* Requests and items go on as they are.
LEMMA PoolAside ==
  ASSUME PipeInv, PoolInv, UNCHANGED requests, Flight' = Flight, items \subseteq items',
         Filling' = Filling,
         \A i \in Irps : phase'[i] = "queued" => phase[i] \in {"queued", "granted"},
         pc'["main"] \in ItemNeeded => mIrp' \in items'
  PROVE  PoolInv'
<1>1. \A r \in Flight : r.irp \in Irps /\ phase[r.irp] \in Taken BY DEF PipeInv, PipeTypes, Stations, Requests
<1>2. \A r \in Flight : phase'[r.irp] = "queued" => phase[r.irp] = "queued" BY <1>1 DEF Taken
<1> QED BY <1>2 DEF PoolInv, Claims

LEMMA PoolMain == ASSUME PipeInv, PoolInv, MainThread PROVE PoolInv'
<1>1. pc = [t \in Threads |-> pc[t]] BY DEF PipeInv, PipeTypes
<1>2. ASSUME NEW l, Goto("main", l)
      PROVE  pc'["main"] = l /\ pc'["io"] = pc["io"] /\ pc'["comp"] = pc["comp"]
  BY <1>1, <1>2 DEF Goto, Threads
<1>3. phase = [i \in Irps |-> phase[i]] BY DEF PipeInv, PipeTypes
<1>4. CASE MainQueueIo
  <2>1. /\ UNCHANGED <<requests, items, phase, mIrp>> /\ pc["main"] = "fill"
        /\ \E l \in {"dequeue", "fragment"} : Goto("main", l)
    BY <1>4, Zenon DEF MainQueueIo, pools, mainL
  <2>2. pc'["main"] \in {"dequeue", "fragment"} BY <1>2, <2>1
  <2>3. mIrp \in items /\ Filling = {<<mIrp, mFrag>>} /\ Filling' = {}
    BY <2>1, <2>2 DEF PoolInv, Looping, Filling, ItemNeeded
  <2> DEFINE r == [irp |-> mIrp, frag |-> mFrag, buf |-> mBuf, enc |-> mEnc]
  <2>6. Flight' = Flight \cup {r} BY <1>4, FlightEnters
  <2>7. r.irp = mIrp /\ r.frag = mFrag OBVIOUS
  <2> HIDE DEF r
  <2>4. \A s \in Flight' : s \in Flight \/ s.irp = mIrp BY <2>6, <2>7
  <2>5. Claims' = Claims BY <2>3, <2>6, <2>7 DEF Claims
  <2> QED BY <2>1, <2>3, <2>4, <2>5 DEF PoolInv
<1>5. CASE MainGetRequest
  <2>1. /\ UNCHANGED <<items, phase, mIrp, mFrag, ioQ, compQ, req>> /\ pc["main"] = "request"
        /\ \/ requests' = requests \cup {<<mIrp, mFrag>>} /\ Goto("main", "fill")
           \/ UNCHANGED requests /\ Goto("main", "requestWait")
    BY <1>5 DEF MainGetRequest, queues
  <2>2. Flight' = Flight BY <1>2, <2>1, FlightKept
  <2>3. Claims' = Claims \cup (requests' \ requests) /\ requests \subseteq Claims
    BY <1>2, <2>1, <2>2 DEF Claims, Filling, PoolInv
  <2>4. requests' = Claims' BY <1>2, <2>1, <2>2 DEF Claims, Filling, PoolInv
  <2> QED BY <2>1, <2>2, <2>4 DEF PoolInv, Looping, ItemNeeded
<1>6. CASE MainDrop
  <2>1. UNCHANGED <<requests, phase, mIrp, ioQ, compQ, req>> /\ pc["main"] = "drop" /\ items' = items \ {mIrp}
        /\ pc'["main"] = "dequeue" /\ pc'["io"] = pc["io"] /\ pc'["comp"] = pc["comp"]
    BY <1>2, <1>6 DEF MainDrop, queues, mainL
  <2>2. Flight' = Flight BY <2>1, FlightKept
  <2>3. phase[mIrp] = "done" BY <2>1 DEF PipeInv, MainPlace, Ending
  <2>4. Claims' = Claims BY <2>1, <2>2 DEF Claims, Filling
  <2> QED BY <2>1, <2>2, <2>3, <2>4 DEF PoolInv, Looping, ItemNeeded
<1>7. CASE ~MainQueueIo /\ ~MainGetRequest /\ ~MainDrop
  <2>1. UNCHANGED <<requests, ioQ, compQ, req>> /\ items \subseteq items'
    BY <1>7 DEF MainThread, MainWake, MainDequeue, MainGate, MainResumed, MainGetItem, MainPoolFreed, MainFail, MainDeny,
       MainReadMisaligned, MainSignal, MainAccept, MainFragment, NextFragment, pools, queues
  <2>2. UNCHANGED phase \/ phase' = [phase EXCEPT ![mIrp] = "done"]
    BY <1>7 DEF MainThread, MainWake, MainDequeue, MainGate, MainResumed, MainGetItem, MainPoolFreed, MainFail, MainDeny,
       MainReadMisaligned, MainComplete, Advance, MainSignal, MainAccept, MainFragment, NextFragment
  <2>3. \A i \in Irps : phase'[i] = "queued" => phase[i] \in {"queued", "granted"} BY <1>3, <2>2
  <2>4. /\ pc["main"] # "fill" /\ pc'["main"] # "fill" /\ pc'["io"] = pc["io"] /\ pc'["comp"] = pc["comp"]
        /\ pc'["main"] \in ItemNeeded => UNCHANGED mIrp /\ (pc["main"] \in ItemNeeded \/ mIrp \in items')
    <3> USE DEF ItemNeeded, Looping
    <3>1. CASE MainWake \/ MainGate \/ MainResumed BY <1>2, <3>1 DEF MainWake, MainGate, MainResumed
    <3>2. CASE MainDequeue
      <4>1. pc["main"] = "dequeue" /\ \E l \in {"exit", "wait", "gate"} : Goto("main", l) BY <3>2 DEF MainDequeue
      <4> QED BY <1>2, <4>1
    <3>3. CASE MainGetItem
      <4>1. /\ pc["main"] = "item" /\ UNCHANGED mIrp
            /\ Goto("main", "itemWait") \/ (Goto("main", "check") /\ mIrp \in items')
        BY <3>3 DEF MainGetItem, mainL
      <4> QED BY <1>2, <4>1
    <3>4. CASE MainPoolFreed BY <1>2, <3>4 DEF MainPoolFreed, mainL
    <3>5. CASE MainFail \/ MainDeny \/ MainReadMisaligned
      <4>1. pc["main"] = "check" /\ \E l \in {"signal", "drop"} : Goto("main", l)
        BY <3>5 DEF MainFail, MainDeny, MainReadMisaligned, MainComplete, AfterDecrement
      <4> QED BY <1>2, <4>1
    <3>6. CASE MainSignal BY <1>2, <3>6 DEF MainSignal
    <3>7. CASE MainAccept \/ MainFragment BY <1>2, <3>7 DEF MainAccept, MainFragment, NextFragment
    <3> QED BY <1>6, <1>7, <3>1, <3>2, <3>3, <3>4, <3>5, <3>6, <3>7 DEF MainThread
  <2>5. Filling' = Filling BY <2>4 DEF Filling
  <2>6. pc'["main"] \in ItemNeeded => mIrp' \in items' BY <2>1, <2>4 DEF PoolInv
  <2>7. Flight' = Flight BY <2>1, <2>4, FlightKept
  <2> QED BY <2>1, <2>3, <2>5, <2>6, <2>7, PoolAside
<1> QED BY <1>4, <1>5, <1>6, <1>7

LEMMA PoolThreads == ASSUME PipeInv, PoolInv, IoThread \/ CompletionThread PROVE PoolInv'
<1>1. pc = [t \in Threads |-> pc[t]] /\ phase = [i \in Irps |-> phase[i]] BY DEF PipeInv, PipeTypes
<1>2. UNCHANGED <<items, mIrp, mFrag>> /\ \E t \in {"io", "comp"} : \E l : Goto(t, l)
  BY Zenon DEF IoThread, IoWake, IoDequeue, IoSkip, IoWrite, IoRead, IoServed, IoDecideReadAhead, IoEnqueue,
     IoBeginReadAhead, IoReadAhead, IoEndReadAhead, IoSignal, CompletionThread, CompWake, CompDequeue,
     CompDecrypt, HandleComplete, AwaitWorkItem, DispatchWorkItem, ReleaseRequest, pools, mainL
<1>3. pc'["main"] = pc["main"] BY <1>1, <1>2 DEF Goto, Threads
<1>4. Filling' = Filling /\ (pc'["main"] \in ItemNeeded => mIrp' \in items') BY <1>2, <1>3 DEF Filling, PoolInv
<1>5. UNCHANGED phase \/ \E t \in {"io", "comp"} : phase' = [phase EXCEPT ![req[t].irp] = "completing"]
  BY DEF IoThread, IoWake, IoDequeue, IoSkip, IoWrite, IoRead, IoServed, IoDecideReadAhead, IoEnqueue,
     IoBeginReadAhead, IoReadAhead, IoEndReadAhead, IoSignal, CompletionThread, CompWake, CompDequeue,
     CompDecrypt, HandleComplete, AwaitWorkItem, DispatchWorkItem, ReleaseRequest, Advance
<1>6. \A i \in Irps : phase'[i] = "queued" => phase[i] \in {"queued", "granted"} BY <1>1, <1>5
<1>7. CASE ~ReleaseRequest("io") /\ ~ReleaseRequest("comp")
  <2>1. UNCHANGED requests
    BY <1>7, Zenon DEF IoThread, IoWake, IoDequeue, IoSkip, IoWrite, IoRead, IoServed, IoDecideReadAhead, IoEnqueue,
       IoBeginReadAhead, IoReadAhead, IoEndReadAhead, IoSignal, CompletionThread, CompWake, CompDequeue,
       CompDecrypt, HandleComplete, AwaitWorkItem, DispatchWorkItem, pools
  <2>2. Flight' = Flight BY <1>7, FlightStays
  <2> QED BY <1>2, <1>4, <1>6, <2>1, <2>2, PoolAside
<1>8. CASE \E t \in {"io", "comp"} : ReleaseRequest(t)
  <2>1. PICK t \in {"io", "comp"} : ReleaseRequest(t) BY <1>8
  <2> DEFINE mine == <<req[t].irp, req[t].frag>>
  <2>2. requests' = requests \ {mine} /\ pc[t] = "release" /\ UNCHANGED phase BY <2>1 DEF ReleaseRequest
  <2>3. Flight = Flight' \cup {req[t]} /\ \A s \in Flight' : <<s.irp, s.frag>> # mine
    BY <2>1, OneOfEachFragment
  <2>4. mine \notin Filling
    <3>1. req[t] \in Flight /\ req[t] \in Requests BY <2>2, HandFacts
    <3>2. pc["main"] = "fill" => (req[t].irp = mIrp => req[t].frag < mFrag) /\ mFrag \in Nat
      BY <3>1 DEF PipeInv, PipeTypes, MainPlace, Looping
    <3> QED BY <3>1, <3>2 DEF Filling, Requests
  <2>5. requests' = Claims'
    <3> HIDE DEF mine
    <3>1. {<<s.irp, s.frag>> : s \in Flight} = {<<s.irp, s.frag>> : s \in Flight'} \cup {mine}
      BY <2>3 DEF mine
    <3>2. mine \notin {<<s.irp, s.frag>> : s \in Flight'} BY <2>3
    <3> QED BY <1>4, <2>2, <2>4, <3>1, <3>2 DEF PoolInv, Claims
  <2> QED BY <1>2, <1>4, <2>2, <2>3, <2>5 DEF PoolInv
<1> QED BY <1>7, <1>8

LEMMA PoolIrps == ASSUME PipeInv, PoolInv, NEW i \in Irps, AddIrp(i) \/ CompleteIrpWorkItem(i) PROVE PoolInv'
<1>1. UNCHANGED <<requests, ioQ, compQ, req, pc, mIrp, mFrag>>
  BY Zenon DEF AddIrp, AddIrpCount, AddIrpAccept, AddIrpReject, AddIrpRejectSignal, AddIrpInsert, CompleteIrpWorkItem,
     WorkComplete, WorkSignal, WorkRetire, WorkReturn, WorkPost, WorkRelease, pools, queues, mainL
<1>2. Flight' = Flight /\ Filling' = Filling BY <1>1, FlightKept DEF Filling
<1>3. phase = [k \in Irps |-> phase[k]] BY DEF PipeInv, PipeTypes
<1>4. CASE WorkRelease(i)
  <2>1. phase[i] = "release" /\ phase' = [phase EXCEPT ![i] = "done"] /\ items' = items \ {i}
    BY <1>4 DEF WorkRelease, Advance
  <2>2. \A r \in Flight : phase'[r.irp] = "queued" => r.irp # i /\ phase[r.irp] = "queued"
    BY <1>3, <2>1 DEF PipeInv, PipeTypes, Requests
  <2>3. pc["main"] \in ItemNeeded => mIrp # i
    BY <2>1 DEF PipeInv, MainPlace, ItemNeeded, Early, Looping
  <2> QED BY <1>1, <1>2, <2>1, <2>2, <2>3 DEF PoolInv, Claims
<1>5. CASE ~WorkRelease(i)
  <2>1. UNCHANGED items
    BY <1>5, Zenon DEF AddIrp, AddIrpCount, AddIrpAccept, AddIrpReject, AddIrpRejectSignal, AddIrpInsert,
       CompleteIrpWorkItem, WorkComplete, WorkSignal, WorkRetire, WorkReturn, WorkPost, pools
  <2>2. \E new : phase' = [phase EXCEPT ![i] = new] /\ (new = "queued" => phase[i] = "granted")
    BY <1>5 DEF AddIrp, AddIrpCount, AddIrpAccept, AddIrpReject, AddIrpRejectSignal, AddIrpInsert, Advance,
       CompleteIrpWorkItem, WorkComplete, WorkSignal, WorkRetire, WorkReturn, WorkPost, AfterDecrement
  <2>3. \A k \in Irps : phase'[k] = "queued" => phase[k] \in {"queued", "granted"} BY <1>3, <2>2
  <2> QED BY <1>1, <1>2, <2>1, <2>3, PoolAside DEF PoolInv
<1> QED BY <1>4, <1>5

LEMMA PoolKept == ASSUME PipeInv, PoolInv, [Next]_vars PROVE PoolInv'
<1>1. CASE HoldBegin \/ HoldStep \/ StopBegin \/ StopStep
  <2>1. /\ UNCHANGED <<requests, items, ioQ, compQ, req, phase, mIrp, mFrag>>
        /\ pc'["main"] = pc["main"] /\ pc'["io"] = pc["io"] /\ pc'["comp"] = pc["comp"]
    BY <1>1, Outsiders DEF pools, queues, mainL
  <2>2. Flight' = Flight /\ Filling' = Filling BY <2>1, FlightKept DEF Filling
  <2> QED BY <2>1, <2>2 DEF PoolInv, Claims
<1>2. CASE UNCHANGED vars
  <2>1. UNCHANGED <<requests, items, ioQ, compQ, req, phase, mIrp, mFrag, pc>> BY <1>2 DEF vars, pools, queues, mainL
  <2>2. Flight' = Flight /\ Filling' = Filling BY <2>1, FlightKept DEF Filling
  <2> QED BY <2>1, <2>2 DEF PoolInv, Claims
<1> QED BY <1>1, <1>2, PoolMain, PoolThreads, PoolIrps DEF Next

LEMMA PoolInit == ASSUME Init PROVE PoolInv
<1>1. /\ requests = {} /\ pc["main"] = "wait" /\ pc["io"] = "wait" /\ pc["comp"] = "wait"
      /\ ioQ = <<>> /\ compQ = <<>>
  BY DEF Init, Threads
<1>2. Flight = {} BY <1>1 DEF Flight, IoHand, CompHand, IoHolds, CompHolds, Handling, Elements
<1> QED BY <1>1, <1>2 DEF PoolInv, Claims, Filling, Looping, ItemNeeded

LEMMA PoolMeans == ASSUME PipeInv, PoolInv PROVE PoolBuffersLive
<1>1. ASSUME NEW r, r \in InFlight
      PROVE  <<r.irp, r.frag>> \in requests /\ r.irp \in items /\ phase[r.irp] = "queued"
  <2>1. r \in Flight BY <1>1, InFlightIs
  <2>2. phase[r.irp] = "queued" BY <1>1, InFlightIs DEF PipeInv, Stations
  <2> QED BY <2>1, <2>2 DEF PoolInv, Claims
<1> QED BY <1>1, Zenon DEF PoolBuffersLive

\* No thread uses a request or an item that is back in the pool: a request is
\* released by whoever has it last, and its item after the IRP's last request.
THEOREM PoolBuffersStayLive == Spec => []PoolBuffersLive
<1>1. Init => PipeInv /\ PoolInv BY PipeInit, PoolInit
<1>2. PipeInv /\ PoolInv /\ [Next]_vars => (PipeInv /\ PoolInv)' BY PipeStep, PoolKept
<1>3. PipeInv /\ PoolInv => PoolBuffersLive BY PoolMeans
<1> QED BY <1>1, <1>2, <1>3, PTL DEF Spec

(***************************************************************************)
(* EncryptedIoQueueStop.  Once it has seen no outstanding I/O, an IRP added *)
(* is turned away, so that nothing comes into the pipeline any more.        *)
(***************************************************************************)
Working == {"completing", "signal", "retire"}
WorkingIrps == {i \in Irps : phase[i] \in Working}
Under == {"granted", "queued", "completing"}
Last == {"free", "stopped"}
CompEnded == {"reset", "drainCheck", "drain"} \cup Last
IoEnded == {"comp", "compJoin"} \cup CompEnded
MainEnded == {"io", "ioJoin"} \cup IoEnded
Drained == {"exit", "main", "mainJoin"} \cup MainEnded

Ends ==
  /\ pc["stop"] \in MainEnded => pc["main"] = "exit"
  /\ pc["stop"] \in IoEnded => pc["io"] = "exit"
  /\ pc["stop"] \in CompEnded => pc["comp"] = "exit"
StopInv ==
  /\ pc["stop"] # "idle" => stopPending
  /\ pc["stop"] \in Drained => \A i \in Irps : phase[i] \notin Under
  /\ Ends
  /\ pc["stop"] \in Last => WorkingIrps = {}
  /\ freed => pc["stop"] = "stopped"
  /\ activeWork = Cardinality(WorkingIrps)

LEMMA WorkingCount == IsFiniteSet(WorkingIrps) /\ Cardinality(WorkingIrps) \in Nat
<1>1. IsFiniteSet(WorkingIrps) BY FS_Subset, OpsAssumption DEF WorkingIrps
<1> QED BY <1>1, FS_CardinalityType

LEMMA WorkingMoves ==
  ASSUME PipeInv, NEW i \in Irps, NEW new, phase' = [phase EXCEPT ![i] = new]
  PROVE  /\ phase[i] \notin Working /\ new \in Working
              => Cardinality(WorkingIrps') = Cardinality(WorkingIrps) + 1
         /\ phase[i] \in Working /\ new \notin Working
              => Cardinality(WorkingIrps') = Cardinality(WorkingIrps) - 1
         /\ (phase[i] \in Working <=> new \in Working) => WorkingIrps' = WorkingIrps
<1>1. phase = [k \in Irps |-> phase[k]] BY DEF PipeInv, PipeTypes
<1>2. phase'[i] = new /\ \A k \in Irps : k # i => phase'[k] = phase[k] BY <1>1
<1>3. ASSUME phase[i] \notin Working, new \in Working
      PROVE  Cardinality(WorkingIrps') = Cardinality(WorkingIrps) + 1
  <2>1. WorkingIrps' = WorkingIrps \cup {i} /\ i \notin WorkingIrps BY <1>2, <1>3 DEF WorkingIrps
  <2> QED BY <2>1, FS_AddElement, WorkingCount
<1>4. ASSUME phase[i] \in Working, new \notin Working
      PROVE  Cardinality(WorkingIrps') = Cardinality(WorkingIrps) - 1
  <2>1. WorkingIrps' = WorkingIrps \ {i} /\ i \in WorkingIrps BY <1>2, <1>4 DEF WorkingIrps
  <2> QED BY <2>1, FS_RemoveElement, WorkingCount
<1>5. (phase[i] \in Working <=> new \in Working) => WorkingIrps' = WorkingIrps
  BY <1>2 DEF WorkingIrps
<1> QED BY <1>3, <1>4, <1>5

\* A step of the others: the stopping thread stays where it is, and a thread
\* that has ended does not come back.
LEMMA StopAside ==
  ASSUME StopInv, UNCHANGED freed, pc'["stop"] = pc["stop"], stopPending => stopPending',
         \A t \in {"main", "io", "comp"} : pc[t] = "exit" => pc'[t] = "exit",
         pc["stop"] \in Drained => \A i \in Irps : phase'[i] \notin Under,
         activeWork' = Cardinality(WorkingIrps'),
         pc["stop"] \in Last => WorkingIrps' = {}
  PROVE  StopInv'
<1>1. MainEnded \subseteq Drained /\ IoEnded \subseteq Drained /\ CompEnded \subseteq Drained
  BY DEF MainEnded, IoEnded, CompEnded, Drained
<1> QED BY <1>1 DEF StopInv, Ends

LEMMA StopMain == ASSUME PipeInv, StopInv, MainThread PROVE StopInv'
<1>1. pc = [t \in Threads |-> pc[t]] /\ phase = [i \in Irps |-> phase[i]] BY DEF PipeInv, PipeTypes
<1>2. UNCHANGED <<freed, stopPending, activeWork>> /\ \E l : Goto("main", l)
  BY Zenon DEF MainThread, MainWake, MainDequeue, MainGate, MainResumed, MainGetItem, MainPoolFreed, MainFail,
     MainDeny, MainReadMisaligned, MainComplete, MainSignal, MainDrop, MainAccept, MainFragment, NextFragment,
     MainGetRequest, MainQueueIo, flags, work
<1>3. pc["main"] # "exit"
  BY DEF MainThread, MainWake, MainDequeue, MainGate, MainResumed, MainGetItem, MainPoolFreed, MainFail,
     MainDeny, MainReadMisaligned, MainSignal, MainDrop, MainAccept, MainFragment,
     MainGetRequest, MainQueueIo
<1>4. pc'["stop"] = pc["stop"] /\ pc'["io"] = pc["io"] /\ pc'["comp"] = pc["comp"] BY <1>1, <1>2 DEF Goto, Threads
<1>5. UNCHANGED phase \/ (mIrp \in Irps /\ phase[mIrp] = "queued" /\ phase' = [phase EXCEPT ![mIrp] = "done"])
  <2>1. CASE MainFail \/ MainDeny \/ MainReadMisaligned
    <3>1. pc["main"] = "check" /\ phase' = [phase EXCEPT ![mIrp] = "done"]
      BY <2>1 DEF MainFail, MainDeny, MainReadMisaligned, MainComplete, Advance
    <3> QED BY <3>1 DEF PipeInv, PipeTypes, MainPlace, Early
  <2>2. CASE ~(MainFail \/ MainDeny \/ MainReadMisaligned)
    BY <2>2, Zenon DEF MainThread, MainWake, MainDequeue, MainGate, MainResumed, MainGetItem, MainPoolFreed,
       MainSignal, MainDrop, MainAccept, MainFragment, NextFragment, MainGetRequest, MainQueueIo
  <2> QED BY <2>1, <2>2
<1>6. WorkingIrps' = WorkingIrps
  <2>1. CASE UNCHANGED phase BY <2>1 DEF WorkingIrps
  <2>2. CASE ~UNCHANGED phase
    <3>1. phase[mIrp] \notin Working /\ "done" \notin Working BY <1>5, <2>2 DEF Working
    <3> QED BY <1>5, <2>2, <3>1, WorkingMoves
  <2> QED BY <2>1, <2>2
<1>7. \A i \in Irps : phase[i] \notin Under => phase'[i] \notin Under BY <1>1, <1>5 DEF Under
<1>8. pc["stop"] \in Drained => \A i \in Irps : phase'[i] \notin Under BY <1>7 DEF StopInv
<1>9. activeWork' = Cardinality(WorkingIrps') /\ (pc["stop"] \in Last => WorkingIrps' = {})
  BY <1>2, <1>6 DEF StopInv
<1> QED BY <1>2, <1>3, <1>4, <1>8, <1>9, StopAside

LEMMA StopThreads == ASSUME PipeInv, StopInv, IoThread \/ CompletionThread PROVE StopInv'
<1>1. pc = [t \in Threads |-> pc[t]] /\ phase = [i \in Irps |-> phase[i]] BY DEF PipeInv, PipeTypes
<1>2. UNCHANGED <<freed, stopPending>> /\ \E t \in {"io", "comp"} : \E l : pc[t] # "exit" /\ Goto(t, l)
  <2>1. CASE IoSkip \/ IoWrite \/ IoRead
    <3>1. UNCHANGED <<freed, stopPending>> /\ pc["io"] = "perform" /\ \E l : Goto("io", l)
      BY <2>1, Zenon DEF IoSkip, IoWrite, IoRead, IoServed, flags
    <3> QED BY <3>1
  <2>2. CASE IoThread /\ ~(IoSkip \/ IoWrite \/ IoRead)
    <3>1. /\ UNCHANGED <<freed, stopPending>>
          /\ pc["io"] \in {"wait", "dequeue", "decide", "enqueue", "enqueueAhead", "ahead", "aheadRead", "aheadDone",
                           "signal", "complete", "dispatch", "release"}
      BY <2>2 DEF IoThread, IoWake, IoDequeue, IoDecideReadAhead, IoEnqueue,
         IoBeginReadAhead, IoReadAhead, IoEndReadAhead, IoSignal, HandleComplete, AwaitWorkItem,
         DispatchWorkItem, ReleaseRequest, flags
    <3>2. \E l : Goto("io", l)
      BY <2>2, Zenon DEF IoThread, IoWake, IoDequeue, IoDecideReadAhead, IoEnqueue,
         IoBeginReadAhead, IoReadAhead, IoEndReadAhead, IoSignal, HandleComplete, AwaitWorkItem,
         DispatchWorkItem, ReleaseRequest
    <3> QED BY <3>1, <3>2
  <2>3. CASE CompletionThread
    <3>1. /\ UNCHANGED <<freed, stopPending>>
          /\ pc["comp"] \in {"wait", "dequeue", "decrypt", "complete", "dispatch", "release"}
      BY <2>3 DEF CompletionThread, CompWake, CompDequeue, CompDecrypt, HandleComplete, AwaitWorkItem,
         DispatchWorkItem, ReleaseRequest, flags
    <3>2. \E l : Goto("comp", l)
      BY <2>3, Zenon DEF CompletionThread, CompWake, CompDequeue, CompDecrypt, HandleComplete, AwaitWorkItem,
         DispatchWorkItem, ReleaseRequest
    <3> QED BY <3>1, <3>2
  <2> QED BY <2>1, <2>2, <2>3
<1>3. /\ pc'["stop"] = pc["stop"]
      /\ \A t \in {"main", "io", "comp"} : pc[t] = "exit" => pc'[t] = "exit"
  BY <1>1, <1>2 DEF Goto, Threads
<1>4. CASE UNCHANGED <<phase, activeWork>>
  <2>1. WorkingIrps' = WorkingIrps BY <1>4 DEF WorkingIrps
  <2>2. activeWork' = Cardinality(WorkingIrps') /\ (pc["stop"] \in Last => WorkingIrps' = {})
    BY <1>4, <2>1 DEF StopInv
  <2>3. pc["stop"] \in Drained => \A i \in Irps : phase'[i] \notin Under BY <1>4 DEF StopInv
  <2> QED BY <1>2, <1>3, <2>2, <2>3, StopAside
<1>5. CASE \E t \in {"io", "comp"} : DispatchWorkItem(t)
  <2>1. PICK t \in {"io", "comp"} : DispatchWorkItem(t) BY <1>5
  <2> DEFINE i == req[t].irp
  <2>2. /\ pc[t] \in Handling /\ phase' = [phase EXCEPT ![i] = "completing"] /\ activeWork' = activeWork + 1
    BY <2>1 DEF DispatchWorkItem, Advance, Handling
  <2>3. i \in Irps /\ phase[i] = "queued" BY <2>2, HandFacts DEF PipeInv, Stations
  <2> HIDE DEF i
  <2>4. phase[i] \notin Working /\ "completing" \in Working /\ phase[i] \in Under BY <2>3 DEF Working, Under
  <2>5. Cardinality(WorkingIrps') = Cardinality(WorkingIrps) + 1 BY <2>2, <2>3, <2>4, WorkingMoves
  <2>6. pc["stop"] \notin Drained BY <2>3, <2>4 DEF StopInv
  <2>7. pc["stop"] \notin Last BY <2>6 DEF Drained, MainEnded, IoEnded, CompEnded
  <2> QED BY <1>2, <1>3, <2>2, <2>5, <2>6, <2>7, StopAside DEF StopInv
<1>6. UNCHANGED <<phase, activeWork>> \/ \E t \in {"io", "comp"} : DispatchWorkItem(t)
  BY Zenon DEF IoThread, IoWake, IoDequeue, IoSkip, IoWrite, IoRead, IoServed, IoDecideReadAhead, IoEnqueue,
     IoBeginReadAhead, IoReadAhead, IoEndReadAhead, IoSignal, CompletionThread, CompWake, CompDequeue,
     CompDecrypt, HandleComplete, AwaitWorkItem, ReleaseRequest, work
<1> QED BY <1>4, <1>5, <1>6

LEMMA StopIrps == ASSUME PipeInv, StopInv, NEW i \in Irps, AddIrp(i) \/ CompleteIrpWorkItem(i) PROVE StopInv'
<1>1. phase = [k \in Irps |-> phase[k]] BY DEF PipeInv, PipeTypes
<1>2. UNCHANGED <<freed, stopPending, pc>>
  BY Zenon DEF AddIrp, AddIrpCount, AddIrpAccept, AddIrpReject, AddIrpRejectSignal, AddIrpInsert, CompleteIrpWorkItem,
     WorkComplete, WorkSignal, WorkRetire, WorkReturn, WorkPost, WorkRelease, flags
<1>3. PICK new : /\ phase' = [phase EXCEPT ![i] = new]
                 /\ phase[i] \in Under \/ new \notin Under \/ ~stopPending
  BY DEF AddIrp, AddIrpCount, AddIrpAccept, AddIrpReject, AddIrpRejectSignal, AddIrpInsert, Advance,
     CompleteIrpWorkItem, WorkComplete, WorkSignal, WorkRetire, WorkReturn, WorkPost, WorkRelease, Under, AfterDecrement
<1>4. pc["stop"] \in Drained => \A k \in Irps : phase'[k] \notin Under
  <2>1. pc["stop"] \in Drained => stopPending
    BY DEF StopInv, Drained, MainEnded, IoEnded, CompEnded, Last
  <2> QED BY <1>1, <1>3, <2>1 DEF StopInv
<1>5. CASE WorkRetire(i)
  <2>1. phase[i] = "retire" /\ phase' = [phase EXCEPT ![i] = "return"] /\ activeWork' = activeWork - 1
    BY <1>5 DEF WorkRetire, Advance
  <2>2. phase[i] \in Working /\ "return" \notin Working BY <2>1 DEF Working
  <2>3. Cardinality(WorkingIrps') = Cardinality(WorkingIrps) - 1 BY <2>1, <2>2, WorkingMoves
  <2>4. pc["stop"] \notin Last BY <2>2 DEF StopInv, WorkingIrps
  <2> QED BY <1>2, <1>4, <2>1, <2>3, <2>4, StopAside DEF StopInv
<1>6. CASE ~WorkRetire(i)
  <2>1. UNCHANGED activeWork
    BY <1>6, Zenon DEF AddIrp, AddIrpCount, AddIrpAccept, AddIrpReject, AddIrpRejectSignal, AddIrpInsert,
       CompleteIrpWorkItem, WorkComplete, WorkSignal, WorkReturn, WorkPost, WorkRelease, work
  <2>2. \E to : phase' = [phase EXCEPT ![i] = to] /\ (phase[i] \in Working <=> to \in Working)
    BY <1>6 DEF AddIrp, AddIrpCount, AddIrpAccept, AddIrpReject, AddIrpRejectSignal, AddIrpInsert, Advance,
       CompleteIrpWorkItem, WorkComplete, WorkSignal, WorkReturn, WorkPost, WorkRelease, Working, AfterDecrement
  <2>3. WorkingIrps' = WorkingIrps BY <2>2, WorkingMoves
  <2> QED BY <1>2, <1>4, <2>1, <2>3, StopAside DEF StopInv
<1> QED BY <1>5, <1>6

LEMMA StopMoves == ASSUME PipeInv, OutstandingExact, StopInv, StopBegin \/ StopStep PROVE StopInv'
<1>1. pc = [t \in Threads |-> pc[t]] BY DEF PipeInv, PipeTypes
<1>2. UNCHANGED <<phase, activeWork>> /\ \A t \in {"main", "io", "comp"} : pc'[t] = pc[t]
  BY Outsiders DEF work
<1>3. WorkingIrps' = WorkingIrps BY <1>2 DEF WorkingIrps
<1>4. ASSUME NEW l, Goto("stop", l) PROVE pc'["stop"] = l BY <1>1, <1>4 DEF Goto, Threads
<1>5. StopInv' <=> /\ pc'["stop"] # "idle" => stopPending'
                   /\ pc'["stop"] \in Drained => \A i \in Irps : phase[i] \notin Under
                   /\ pc'["stop"] \in MainEnded => pc["main"] = "exit"
                   /\ pc'["stop"] \in IoEnded => pc["io"] = "exit"
                   /\ pc'["stop"] \in CompEnded => pc["comp"] = "exit"
                   /\ pc'["stop"] \in Last => WorkingIrps = {}
                   /\ freed' => pc'["stop"] = "stopped"
                   /\ activeWork = Cardinality(WorkingIrps)
  BY <1>2, <1>3 DEF StopInv, Ends
<1> USE DEF StopInv, Ends, Drained, MainEnded, IoEnded, CompEnded, Last
<1>6. CASE StopBegin \/ StopAwait
  <2>1. stopPending' /\ (pc["stop"] \in {"idle", "await"}) /\ UNCHANGED freed /\ Goto("stop", "check")
    BY <1>6 DEF StopBegin, StopAwait, flags
  <2> QED BY <1>4, <1>5, <2>1
<1>7. CASE StopCheck
  <2>1. /\ pc["stop"] = "check" /\ UNCHANGED <<freed, stopPending>>
        /\ Goto("stop", "await") \/ (outstanding <= 0 /\ Goto("stop", "exit"))
    BY <1>7 DEF StopCheck, flags, PipeInv, PipeTypes
  <2>2. outstanding <= 0 => \A i \in Irps : phase[i] \notin Under
    <3>1. outstanding <= 0 => outstanding = 0 BY CountForms DEF CountIs, PipeInv, PipeTypes
    <3>2. outstanding = 0 => Cardinality(CountedIrps) = 0 BY CountForms DEF CountIs
    <3>3. outstanding = 0 => CountedIrps = {} BY <3>2, CountForms, FS_EmptySet
    <3> QED BY <3>1, <3>3 DEF CountedIrps, CountedPhases, Under
  <2> QED BY <1>4, <1>5, <2>1, <2>2
<1>8. CASE StopRequestExit
  <2>1. pc["stop"] = "exit" /\ UNCHANGED <<freed, stopPending>> /\ Goto("stop", "main")
    BY <1>8 DEF StopRequestExit
  <2> QED BY <1>4, <1>5, <2>1
<1>9. CASE \E t \in {"main", "io", "comp"} : StopWake(t)
  <2>1. PICK t \in {"main", "io", "comp"} : StopWake(t) BY <1>9
  <2>2. pc["stop"] = t /\ UNCHANGED <<freed, stopPending>> /\ Goto("stop", Joining[t]) BY <2>1 DEF StopWake, flags
  <2>3. \/ t = "main" /\ Joining[t] = "mainJoin"
        \/ t = "io" /\ Joining[t] = "ioJoin"
        \/ t = "comp" /\ Joining[t] = "compJoin"
    BY DEF Joining
  <2> QED BY <1>4, <1>5, <2>2, <2>3
<1>10. CASE \E t \in {"main", "io", "comp"} : StopJoin(t)
  <2>1. PICK t \in {"main", "io", "comp"} : StopJoin(t) BY <1>10
  <2>2. /\ pc["stop"] = Joining[t] /\ UNCHANGED <<freed, stopPending>> /\ Goto("stop", NextStop[t])
        /\ pc[t] = "exit"
    BY <2>1 DEF StopJoin, flags
  <2>3. \/ t = "main" /\ Joining[t] = "mainJoin" /\ NextStop[t] = "io"
        \/ t = "io" /\ Joining[t] = "ioJoin" /\ NextStop[t] = "comp"
        \/ t = "comp" /\ Joining[t] = "compJoin" /\ NextStop[t] = "reset"
    BY DEF Joining, NextStop
  <2> QED BY <1>4, <1>5, <2>2, <2>3
<1>11. CASE StopResetEvent
  <2>1. pc["stop"] \in {"reset", "drain"} /\ UNCHANGED <<freed, stopPending>> /\ Goto("stop", "drainCheck")
    BY <1>11 DEF StopResetEvent, flags
  <2> QED BY <1>4, <1>5, <2>1
<1>12. CASE StopDrainCheck
  <2>1. /\ pc["stop"] = "drainCheck" /\ UNCHANGED <<freed, stopPending>>
        /\ Goto("stop", "drain") \/ (~(activeWork > 0) /\ Goto("stop", "free"))
    BY <1>12 DEF StopDrainCheck, flags, WorkActive
  <2>2. ~(activeWork > 0) => WorkingIrps = {} BY WorkingCount, FS_EmptySet
  <2> QED BY <1>4, <1>5, <2>1, <2>2
<1>13. CASE StopFree
  <2>1. pc["stop"] = "free" /\ UNCHANGED stopPending /\ Goto("stop", "stopped") BY <1>13 DEF StopFree, flags
  <2> QED BY <1>4, <1>5, <2>1
<1> QED BY <1>6, <1>7, <1>8, <1>9, <1>10, <1>11, <1>12, <1>13 DEF StopStep

LEMMA StopHold == ASSUME PipeInv, StopInv, HoldBegin \/ HoldStep PROVE StopInv'
<1>1. pc = [t \in Threads |-> pc[t]] BY DEF PipeInv, PipeTypes
<1>2. UNCHANGED <<phase, activeWork>> /\ \A t \in {"main", "io", "comp"} : pc'[t] = pc[t]
  BY Outsiders DEF work
<1>3. UNCHANGED <<freed, stopPending>> /\ \E l : Goto("hold", l)
  BY Zenon DEF HoldBegin, HoldStep, HoldCheck, HoldAwait, HoldGiveUp, HoldRecheck, HoldSuspend,
     HoldVerify, HoldUndo, HoldSettle, SetupRead, SetupWrite, SetupUndo, SetupAdvance, Resume, flags
<1>4. pc'["stop"] = pc["stop"] BY <1>1, <1>3 DEF Goto, Threads
<1>5. WorkingIrps' = WorkingIrps BY <1>2 DEF WorkingIrps
<1> QED BY <1>2, <1>3, <1>4, <1>5, StopAside DEF StopInv

LEMMA StopInit == ASSUME Init PROVE StopInv
<1>1. pc["stop"] = "idle" /\ freed = FALSE /\ activeWork = 0 /\ \A i \in Irps : phase[i] = "new" BY DEF Init, Threads
<1>2. WorkingIrps = {} BY <1>1 DEF WorkingIrps, Working
<1> QED BY <1>1, <1>2, FS_EmptySet DEF StopInv, Ends, Drained, MainEnded, IoEnded, CompEnded, Last

LEMMA StopKept == ASSUME PipeInv, OutstandingExact, StopInv, [Next]_vars PROVE StopInv'
<1>1. CASE UNCHANGED vars
  <2>1. UNCHANGED <<phase, activeWork, pc, freed, stopPending>> BY <1>1 DEF vars, work, flags
  <2>2. WorkingIrps' = WorkingIrps BY <2>1 DEF WorkingIrps
  <2> QED BY <2>1, <2>2 DEF StopInv, Ends
<1> QED BY <1>1, StopMain, StopThreads, StopIrps, StopMoves, StopHold DEF Next

LEMMA StopMeans == ASSUME PipeInv, PoolInv, StopInv PROVE StopDrains
<1>1. SUFFICES ASSUME freed
               PROVE  /\ \A i \in Irps : phase[i] \notin {"granted", "queued", "completing", "signal", "retire"}
                      /\ \A t \in {"main", "io", "comp"} : pc[t] = "exit"
                      /\ requests = {} /\ mainQ = <<>> /\ ioQ = <<>> /\ compQ = <<>>
  BY DEF StopDrains
<1>2. pc["stop"] = "stopped" BY <1>1 DEF StopInv
<1>3. /\ \A i \in Irps : phase[i] \notin Under
      /\ \A t \in {"main", "io", "comp"} : pc[t] = "exit"
      /\ WorkingIrps = {}
  BY <1>2 DEF StopInv, Ends, Drained, MainEnded, IoEnded, CompEnded, Last
<1>4. \A i \in Irps : phase[i] \notin {"granted", "queued", "completing", "signal", "retire"}
  BY <1>3 DEF Under, WorkingIrps, Working
<1>5. Elements(ioQ) = {} /\ Elements(compQ) = {}
  <2>1. \A r \in Elements(ioQ) \cup Elements(compQ) : r.irp \in Irps /\ phase[r.irp] = "queued"
    BY DEF PipeInv, PipeTypes, Stations, Flight, Requests
  <2> QED BY <1>4, <2>1
<1>6. Elements(mainQ) = {}
  <2>1. \A i \in Elements(mainQ) : i \in Irps BY DEF PipeInv, PipeTypes, Elements
  <2> QED BY <1>4, <2>1 DEF PipeInv, MainPlace
<1>7. mainQ = <<>> /\ ioQ = <<>> /\ compQ = <<>> BY <1>5, <1>6, NoElements DEF PipeInv, PipeTypes
<1>8. requests = {}
  <2>1. Flight = {} /\ Filling = {}
    BY <1>3, <1>5 DEF Flight, IoHand, CompHand, IoHolds, CompHolds, Handling, Filling
  <2> QED BY <2>1 DEF PoolInv, Claims
<1> QED BY <1>3, <1>4, <1>7, <1>8

\* When EncryptedIoQueueStop frees the queue every IRP is answered or will be
\* turned away, the threads have ended and nothing is left in a queue or in
\* the pool of requests.
THEOREM StopIsClean == Spec => []StopDrains
<1> DEFINE Inv == PipeInv /\ OutstandingExact /\ PoolInv /\ StopInv
<1>1. Init => Inv BY PipeInit, CountInit, PoolInit, StopInit
<1>2. Inv /\ [Next]_vars => Inv' BY PipeStep, CountStep, PoolKept, StopKept
<1>3. Inv => StopDrains BY StopMeans
<1> QED BY <1>1, <1>2, <1>3, PTL DEF Spec

(***************************************************************************)
(* The fragment buffers.  A buffer that a request in the I/O queue or under *)
(* transfer has is not free, and no other such request has it.              *)
(***************************************************************************)
Apart(q) == \A m, n \in DOMAIN q : m # n => q[m].buf # q[n].buf
BufInv ==
  /\ Apart(ioQ)
  /\ \A s \in Elements(ioQ) : ~evt[s.buf]
  /\ pc["io"] = "perform" => ~evt[ioReq.buf] /\ \A s \in Elements(ioQ) : s.buf # ioReq.buf

LEMMA ApartAppend ==
  ASSUME NEW S, NEW q \in Seq(S), NEW e \in S, Apart(q), \A s \in Elements(q) : s.buf # e.buf
  PROVE  Apart(Append(q, e))
<1>1. Len(Append(q, e)) = Len(q) + 1 /\ Len(q) \in Nat OBVIOUS
<1>2. \A n \in 1 .. Len(q) : Append(q, e)[n] = q[n] /\ q[n].buf # e.buf BY DEF Elements
<1>3. Append(q, e)[Len(q) + 1] = e OBVIOUS
<1>4. DOMAIN Append(q, e) = 1 .. Len(q) + 1 /\ DOMAIN q = 1 .. Len(q) OBVIOUS
<1> QED BY <1>1, <1>2, <1>3, <1>4 DEF Apart

LEMMA ApartTail ==
  ASSUME NEW S, NEW q \in Seq(S), q # <<>>, Apart(q)
  PROVE  Apart(Tail(q)) /\ \A s \in Elements(Tail(q)) : s.buf # Head(q).buf
<1>1. Len(q) \in Nat /\ Len(q) >= 1 /\ Head(q) = q[1] OBVIOUS
<1>2. \A n \in 1 .. Len(q) - 1 : Tail(q)[n] = q[n + 1] /\ n + 1 \in DOMAIN q /\ 1 \in DOMAIN q /\ n + 1 # 1
  OBVIOUS
<1>3. DOMAIN Tail(q) = 1 .. Len(q) - 1 OBVIOUS
<1>4. Apart(Tail(q))
  <2> SUFFICES ASSUME NEW m \in 1 .. Len(q) - 1, NEW n \in 1 .. Len(q) - 1, m # n
               PROVE  Tail(q)[m].buf # Tail(q)[n].buf
    BY <1>3 DEF Apart
  <2>1. m + 1 # n + 1 BY <1>1
  <2> QED BY <1>2, <2>1 DEF Apart
<1>5. ASSUME NEW r \in Elements(Tail(q)) PROVE r.buf # Head(q).buf
  <2>1. PICK n \in 1 .. Len(q) - 1 : r = Tail(q)[n] BY <1>3, <1>5 DEF Elements
  <2> QED BY <1>1, <1>2, <2>1 DEF Apart
<1> QED BY <1>4, <1>5

\* A step that leaves the two buffers' events and the I/O queue alone.
LEMMA BufAside ==
  ASSUME PipeInv, BufInv, UNCHANGED <<ioQ, req>>, \A b \in Buffers : evt'[b] = evt[b],
         pc'["io"] = "perform" => pc["io"] = "perform"
  PROVE  BufInv'
<1>1. Elements(ioQ)' = Elements(ioQ) BY DEF Elements
<1>2. \A s \in Elements(ioQ) : s.buf \in Buffers BY DEF PipeInv, PipeTypes, Flight, Requests
<1>3. pc["io"] = "perform" => ioReq.buf \in Buffers BY HandFacts DEF Handling, ioReq, Requests
<1> QED BY <1>1, <1>2, <1>3 DEF BufInv, Apart, ioReq

\* The events of the buffers are set by the I/O thread and reset by the main
\* thread, and nobody else touches them.
LEMMA BufferEvents ==
  ASSUME EvtTypes, [Next]_vars, ~MainQueueIo, ~IoSkip, ~IoWrite, ~IoRead
  PROVE  \A b \in Buffers : evt'[b] = evt[b]
<1>1. ASSUME NEW e \in Events, NEW v, evt' = [evt EXCEPT ![e] = v]
      PROVE  \A b \in Buffers : evt'[b] = evt[b]
  BY <1>1 DEF EvtTypes, Events, Buffers
<1>2. UNCHANGED evt \/ \E e \in Events : \E v : evt' = [evt EXCEPT ![e] = v]
  <2> USE DEF Await, Set, SignalIfPending, Events
  <2>1. CASE MainThread
    BY <2>1 DEF MainThread, MainWake, MainDequeue, MainGate, MainResumed, MainGetItem, MainPoolFreed,
       MainFail, MainDeny, MainReadMisaligned, MainSignal, MainDrop, MainAccept, MainFragment, NextFragment,
       MainGetRequest
  <2>2. CASE IoThread \/ CompletionThread
    BY <2>2 DEF IoThread, IoWake, IoDequeue, IoDecideReadAhead, IoEnqueue,
       IoBeginReadAhead, IoReadAhead, IoEndReadAhead, IoSignal, CompletionThread, CompWake, CompDequeue,
       CompDecrypt, HandleComplete, AwaitWorkItem, DispatchWorkItem, ReleaseRequest
  <2>3. CASE StopBegin \/ StopStep
    BY <2>3 DEF StopBegin, StopStep, StopCheck, StopAwait, StopRequestExit, StopWake, StopJoin,
       StopResetEvent, StopDrainCheck, StopFree, QueueOf
  <2>4. CASE \E i \in Irps : AddIrp(i) \/ CompleteIrpWorkItem(i)
    BY <2>4 DEF AddIrp, AddIrpCount, AddIrpAccept, AddIrpReject, AddIrpRejectSignal, AddIrpInsert,
       CompleteIrpWorkItem, WorkComplete, WorkSignal, WorkRetire, WorkReturn, WorkPost, WorkRelease
  <2>5. CASE HoldBegin \/ HoldStep
    BY <2>5 DEF HoldBegin, HoldStep, HoldCheck, HoldAwait, HoldGiveUp, HoldRecheck, HoldSuspend,
       HoldVerify, HoldUndo, HoldSettle, SetupRead, SetupWrite, SetupUndo, SetupAdvance, Resume
  <2>6. CASE UNCHANGED vars BY <2>6 DEF vars
  <2> QED BY <2>1, <2>2, <2>3, <2>4, <2>5, <2>6 DEF Next
<1> QED BY <1>1, <1>2

\* The queue and the transfer of the I/O thread, in the other steps.
LEMMA TransferStays ==
  ASSUME PipeInv, [Next]_vars, ~MainQueueIo, ~IoSkip, ~IoWrite, ~IoRead, ~IoDequeue
  PROVE  UNCHANGED ioQ /\ req'["io"] = req["io"] /\ (pc'["io"] = "perform" <=> pc["io"] = "perform")
<1>1. pc = [t \in Threads |-> pc[t]] /\ req = [t \in {"io", "comp"} |-> req[t]] BY DEF PipeInv, PipeTypes
<1>2. CASE UNCHANGED vars BY <1>2 DEF vars, queues
<1>3. CASE HoldBegin \/ HoldStep \/ StopBegin \/ StopStep BY <1>3, Outsiders DEF queues
<1>4. CASE \E i \in Irps : AddIrp(i) \/ CompleteIrpWorkItem(i)
  <2>1. UNCHANGED <<pc, ioQ, req>>
    BY <1>4, Zenon DEF AddIrp, AddIrpCount, AddIrpAccept, AddIrpReject, AddIrpRejectSignal, AddIrpInsert,
       CompleteIrpWorkItem, WorkComplete, WorkSignal, WorkRetire, WorkReturn, WorkPost, WorkRelease, queues
  <2> QED BY <2>1
<1>5. CASE MainThread
  <2>1. UNCHANGED <<ioQ, req>> /\ \E l : Goto("main", l)
    BY <1>5, Zenon DEF MainThread, MainWake, MainDequeue, MainGate, MainResumed, MainGetItem, MainPoolFreed, MainFail,
       MainDeny, MainReadMisaligned, MainComplete, MainSignal, MainDrop, MainAccept, MainFragment, NextFragment,
       MainGetRequest, queues
  <2> QED BY <1>1, <2>1 DEF Goto, Threads
<1>6. CASE CompletionThread
  <2>1. UNCHANGED ioQ /\ (\E l : Goto("comp", l)) /\ (UNCHANGED req \/ \E r : req' = [req EXCEPT !["comp"] = r])
    BY <1>6 DEF CompletionThread, CompWake, CompDequeue, CompDecrypt, HandleComplete, AwaitWorkItem,
       DispatchWorkItem, ReleaseRequest, queues
  <2> QED BY <1>1, <2>1 DEF Goto, Threads
<1>7. CASE IoThread
  <2>1. /\ UNCHANGED <<ioQ, req>> /\ pc["io"] # "perform"
        /\ \E l \in {"exit", "dequeue", "enqueueAhead", "enqueue", "ahead", "aheadRead", "aheadDone", "signal",
                     "release", "dispatch"} : Goto("io", l)
    BY <1>7 DEF IoThread, IoWake, IoDecideReadAhead, IoEnqueue, IoBeginReadAhead, IoReadAhead, IoEndReadAhead,
       IoSignal, HandleComplete, AwaitWorkItem, DispatchWorkItem, ReleaseRequest, AfterDecrement, queues
  <2> QED BY <1>1, <2>1 DEF Goto, Threads
<1> QED BY <1>2, <1>3, <1>4, <1>5, <1>6, <1>7 DEF Next

LEMMA BufQueueIo == ASSUME PipeInv, EvtTypes, BufInv, MainQueueIo PROVE BufInv'
<1> DEFINE r == [irp |-> mIrp, frag |-> mFrag, buf |-> mBuf, enc |-> mEnc]
<1>1. /\ UNCHANGED req /\ ioQ' = Append(ioQ, r) /\ pc["main"] = "fill" /\ \E l : Goto("main", l)
      /\ evt[mBuf] /\ evt' = [evt EXCEPT ![mBuf] = FALSE, !["ioQ"] = TRUE]
  BY Zenon DEF MainQueueIo, BufferFree
<1>2. r \in Requests /\ r.buf = mBuf /\ mBuf \in Buffers
  BY <1>1 DEF PipeInv, PipeTypes, Looping, Requests
<1> HIDE DEF r
<1>3. ioQ \in Seq(Requests) BY DEF PipeInv, PipeTypes
<1>4. Elements(ioQ)' = Elements(ioQ) \cup {r} BY <1>1, <1>2, <1>3, ElementsAppend
<1>5. \A s \in Elements(ioQ) : s.buf # r.buf BY <1>1, <1>2 DEF BufInv
<1>6. Apart(ioQ') BY <1>1, <1>2, <1>3, <1>5, ApartAppend DEF BufInv
<1>7. pc'["io"] = pc["io"] BY <1>1 DEF Goto, Threads, PipeInv, PipeTypes
<1>8. \A b \in Buffers : evt'[b] = (IF b = mBuf THEN FALSE ELSE evt[b])
  BY <1>1, <1>2 DEF EvtTypes, Buffers, Events
<1>9. \A s \in Elements(ioQ) : s.buf \in Buffers BY DEF PipeInv, PipeTypes, Flight, Requests
<1>10. pc["io"] = "perform" => ioReq.buf \in Buffers BY HandFacts DEF Handling, ioReq, Requests
<1>11. pc["io"] = "perform" => ioReq.buf # mBuf BY <1>1 DEF BufInv
<1>12. \A s \in Elements(ioQ)' : ~evt'[s.buf] BY <1>2, <1>4, <1>8, <1>9 DEF BufInv
<1>13. pc'["io"] = "perform" => ~evt'[ioReq.buf] /\ \A s \in Elements(ioQ)' : s.buf # ioReq.buf
  BY <1>2, <1>4, <1>7, <1>8, <1>10, <1>11 DEF BufInv
<1>14. ioReq' = ioReq BY <1>1 DEF ioReq
<1> QED BY <1>6, <1>12, <1>13, <1>14 DEF BufInv

LEMMA BufServes == ASSUME PipeInv, EvtTypes, BufInv, IoSkip \/ IoWrite \/ IoRead PROVE BufInv'
<1>1. /\ UNCHANGED <<ioQ, req>> /\ pc["io"] = "perform" /\ evt' = [evt EXCEPT ![ioReq.buf] = TRUE]
      /\ \E l \in {"complete", "release", "enqueue", "decide"} : Goto("io", l)
  BY DEF IoSkip, IoWrite, IoRead, IoServed, WriteDone, Set, queues
<1>2. pc'["io"] # "perform" BY <1>1 DEF Goto, Threads, PipeInv, PipeTypes
<1>3. Elements(ioQ)' = Elements(ioQ) BY <1>1 DEF Elements
<1>4. \A s \in Elements(ioQ) : s.buf \in Buffers /\ s.buf # ioReq.buf
  BY <1>1 DEF PipeInv, PipeTypes, Flight, Requests, BufInv
<1>5. \A s \in Elements(ioQ) : ~evt'[s.buf] BY <1>1, <1>4 DEF BufInv, EvtTypes
<1> QED BY <1>1, <1>2, <1>3, <1>5 DEF BufInv, Apart

LEMMA BufDequeue == ASSUME PipeInv, BufInv, IoDequeue PROVE BufInv'
<1>1. pc = [t \in Threads |-> pc[t]] /\ req = [t \in {"io", "comp"} |-> req[t]] /\ ioQ \in Seq(Requests)
  BY DEF PipeInv, PipeTypes
<1>2. CASE ioQ = <<>>
  <2>1. UNCHANGED <<ioQ, req, evt>> /\ pc'["io"] # "perform" BY <1>1, <1>2 DEF IoDequeue, Goto, Threads
  <2> QED BY <2>1, BufAside
<1>3. CASE ioQ # <<>>
  <2>1. req'["io"] = Head(ioQ) /\ ioQ' = Tail(ioQ) /\ UNCHANGED evt
    BY <1>1, <1>3 DEF IoDequeue
  <2>2. Elements(ioQ) = Elements(ioQ)' \cup {Head(ioQ)} BY <1>1, <1>3, <2>1, HeadAndTail
  <2>3. Apart(ioQ') /\ \A s \in Elements(ioQ)' : s.buf # Head(ioQ).buf
    BY <1>1, <1>3, <2>1, ApartTail DEF BufInv
  <2>4. ioReq' = Head(ioQ) BY <2>1 DEF ioReq
  <2> QED BY <2>1, <2>2, <2>3, <2>4 DEF BufInv
<1> QED BY <1>2, <1>3

LEMMA BufKept == ASSUME PipeInv, EvtTypes, BufInv, [Next]_vars PROVE BufInv'
<1>1. CASE MainQueueIo \/ IoSkip \/ IoWrite \/ IoRead \/ IoDequeue BY <1>1, BufQueueIo, BufServes, BufDequeue
<1>2. CASE ~(MainQueueIo \/ IoSkip \/ IoWrite \/ IoRead \/ IoDequeue)
  <2>1. UNCHANGED ioQ /\ req'["io"] = req["io"] /\ (pc'["io"] = "perform" <=> pc["io"] = "perform")
    BY <1>2, TransferStays
  <2>2. \A b \in Buffers : evt'[b] = evt[b] BY <1>2, BufferEvents
  <2>3. Elements(ioQ)' = Elements(ioQ) /\ ioReq' = ioReq BY <2>1 DEF Elements, ioReq
  <2>4. \A s \in Elements(ioQ) : s.buf \in Buffers BY DEF PipeInv, PipeTypes, Flight, Requests
  <2>5. pc["io"] = "perform" => ioReq.buf \in Buffers BY HandFacts DEF Handling, ioReq, Requests
  <2> QED BY <2>1, <2>2, <2>3, <2>4, <2>5 DEF BufInv, Apart
<1> QED BY <1>1, <1>2

LEMMA BufInit == ASSUME Init PROVE BufInv
<1>1. ioQ = <<>> /\ pc["io"] = "wait" BY DEF Init, Threads
<1> QED BY <1>1, EmptyQueue DEF BufInv, Apart

LEMMA LastOfConcatenation ==
  ASSUME NEW S, NEW q \in Seq(S), NEW one \in Seq(S), Len(one) = 1
  PROVE  (q \o one)[Len(q) + 1] = one[1]
<1>1. Len(q) \in Nat /\ (Len(q) + 1) - Len(q) = 1 OBVIOUS
<1>2. \A i \in 1 .. Len(q) + Len(one) : (q \o one)[i] = IF i <= Len(q) THEN q[i] ELSE one[i - Len(q)]
  BY ConcatProperties
<1>3. Len(q) + 1 \in 1 .. Len(q) + Len(one) /\ ~(Len(q) + 1 <= Len(q)) BY <1>1
<1> QED BY <1>1, <1>2, <1>3

LEMMA BufMeans == ASSUME PipeInv, BufInv PROVE FragmentBuffersExclusive
<1> DEFINE one == IF pc["io"] = "perform" THEN <<ioReq.buf>> ELSE <<>>
           bufs == [n \in 1 .. Len(ioQ) |-> ioQ[n].buf]
<1>1. ioQ \in Seq(Requests) /\ Len(ioQ) \in Nat /\ DOMAIN ioQ = 1 .. Len(ioQ) BY DEF PipeInv, PipeTypes
<1>2. \A n \in 1 .. Len(ioQ) : ioQ[n] \in Elements(ioQ) /\ ioQ[n].buf \in Buffers
  <2>1. \A n \in 1 .. Len(ioQ) : ioQ[n] \in Elements(ioQ) BY <1>1 DEF Elements
  <2>2. \A n \in 1 .. Len(ioQ) : ioQ[n] \in Requests BY <1>1
  <2> QED BY <2>1, <2>2 DEF Requests
<1>3. pc["io"] = "perform" => ioReq.buf \in Buffers BY HandFacts DEF Handling, ioReq, Requests
<1>4. bufs \in Seq(Buffers) /\ Len(bufs) = Len(ioQ) BY <1>1, <1>2
<1>5. one \in Seq(Buffers) /\ Len(one) = (IF pc["io"] = "perform" THEN 1 ELSE 0) BY <1>3
<1>6. BuffersBusy = bufs \o one BY DEF BuffersBusy
<1>7. /\ DOMAIN BuffersBusy = 1 .. Len(ioQ) + Len(one)
      /\ \A n \in 1 .. Len(ioQ) : BuffersBusy[n] = ioQ[n].buf
      /\ pc["io"] = "perform" => BuffersBusy[Len(ioQ) + 1] = ioReq.buf
  <2>1. DOMAIN BuffersBusy = 1 .. Len(bufs) + Len(one) BY <1>4, <1>5, <1>6
  <2>2. \A n \in 1 .. Len(ioQ) : BuffersBusy[n] = bufs[n] BY <1>1, <1>4, <1>5, <1>6
  <2>3. ASSUME pc["io"] = "perform" PROVE BuffersBusy[Len(ioQ) + 1] = ioReq.buf
    <3>1. one = <<ioReq.buf>> BY <2>3
    <3> HIDE DEF bufs, one
    <3>2. Len(one) = 1 /\ one \in Seq(Buffers) BY <1>5, <2>3
    <3>3. BuffersBusy[Len(bufs) + 1] = one[1] BY <1>4, <1>6, <3>2, LastOfConcatenation
    <3> QED BY <1>4, <3>1, <3>3
  <2> QED BY <1>4, <2>1, <2>2, <2>3
<1> HIDE DEF bufs, one
<1>8. \A n \in 1 .. Len(ioQ) + Len(one) : n \in 1 .. Len(ioQ) \/ (n = Len(ioQ) + 1 /\ pc["io"] = "perform")
  BY <1>1, <1>5
<1> QED BY <1>1, <1>2, <1>7, <1>8 DEF BufInv, Apart, FragmentBuffersExclusive

\* Fragments being queued or transferred have buffers of their own, although
\* the main thread takes the two buffers in turn and the I/O thread frees them.
THEOREM FragmentBuffersNeverShared == Spec => []FragmentBuffersExclusive
<1> DEFINE Inv == PipeInv /\ OutstandingExact /\ HoldInv /\ BufInv
<1>1. Init => Inv BY PipeInit, CountInit, HoldInit, BufInit
<1>2. Inv /\ [Next]_vars => Inv' BY PipeStep, CountStep, HoldKept, BufKept DEF HoldInv
<1>3. Inv => FragmentBuffersExclusive BY BufMeans
<1> QED BY <1>1, <1>2, <1>3, PTL DEF Spec

(***************************************************************************)
(* The medium.  A request that is queued for transfer carries a decision    *)
(* about the encrypted area that is still right when it is written, and its *)
(* buffer what it is to write; a hold moves the area only when there is no  *)
(* such request.                                                            *)
(***************************************************************************)
Transfers == Elements(ioQ) \cup (IF pc["io"] = "perform" THEN {ioReq} ELSE {})
Ready(r, ops, area, bufs) ==
  /\ r.enc = (ops[r.irp].off + r.frag - 1 < area)
  /\ ops[r.irp].write => bufs[r.buf] = [val |-> Fragment(r.irp, r.frag), enc |-> r.enc]
ReadyInv ==
  /\ \A r \in Transfers : Ready(r, op, areaEnd, fragBuf)
  /\ pc["main"] = "fill" => mEnc = Encrypted(BlockOf(mIrp, mFrag))

Owning == {"held", "transform", "advance", "resume"}
AheadInv ==
  /\ ra = [valid |-> ra.valid, off |-> ra.off, data |-> ra.data] /\ ra.valid \in BOOLEAN
  /\ pc["hold"] \in Owning => ~ra.valid
  /\ ReadAheadCoherent

Turned == \A b \in Blocks : dev[b].enc = IF b = hBlock THEN ~Encrypted(b) ELSE Encrypted(b)
DevInv ==
  /\ dev \in [Blocks -> Content] /\ areaEnd \in Int
  /\ MediumMatchesArea
  /\ pc["hold"] \in {"transform", "advance"} => hBlock \in {areaEnd, areaEnd - 1} \cap Blocks
  /\ pc["hold"] = "transform" => hData = dev[hBlock]
  /\ pc["hold"] = "advance" => Turned

FillShape == fragBuf = [b \in Buffers |-> fragBuf[b]]
MediumInv == ReadyInv /\ AheadInv /\ DevInv /\ FillShape

LEMMA BlocksAreInt == \A b \in Blocks : b \in Int
BY CountsAssumption DEF Blocks

LEMMA Ciphered ==
  ASSUME NEW c \in Content PROVE Decrypt(c) \in Content /\ Decrypt(c).enc = ~c.enc /\ c.enc \in BOOLEAN
BY DEF Content, Decrypt

LEMMA TransferFacts ==
  ASSUME PipeInv
  PROVE  /\ \A r \in Transfers : r \in Requests
         /\ Quiet => Transfers = {} /\ pc["main"] # "fill"
<1>1. pc["io"] = "perform" => ioReq \in Requests BY HandFacts DEF Handling, ioReq
<1>2. Elements(ioQ) \subseteq Requests BY DEF PipeInv, PipeTypes, Flight
<1>3. Quiet => Elements(ioQ) = {} BY EmptyQueue DEF Quiet
<1>4. Quiet => pc["io"] # "perform" /\ pc["main"] # "fill" BY DEF Quiet, IoBusy, IoStates, MainPastGate
<1> QED BY <1>1, <1>2, <1>3, <1>4 DEF Transfers

\* The requests to be transferred: one comes in MainQueueIo.
LEMMA TransfersMove ==
  ASSUME PipeInv, [Next]_vars, ~MainQueueIo
  PROVE  /\ Transfers' \subseteq Transfers
         /\ IF IoSkip \/ IoWrite \/ IoRead THEN Transfers' = Elements(ioQ) ELSE Transfers' = Transfers
<1>1. pc = [t \in Threads |-> pc[t]] /\ req = [t \in {"io", "comp"} |-> req[t]] /\ ioQ \in Seq(Requests)
  BY DEF PipeInv, PipeTypes
<1>2. CASE IoSkip \/ IoWrite \/ IoRead
  <2>1. /\ UNCHANGED <<ioQ, req>> /\ pc["io"] = "perform"
        /\ \E l \in {"complete", "release", "enqueue", "decide"} : Goto("io", l)
    BY <1>2 DEF IoSkip, IoWrite, IoRead, IoServed, WriteDone, queues
  <2>2. pc'["io"] # "perform" /\ Elements(ioQ)' = Elements(ioQ) BY <1>1, <2>1 DEF Goto, Threads, Elements
  <2> QED BY <1>2, <2>2 DEF Transfers
<1>3. CASE IoDequeue
  <2>1. pc["io"] = "dequeue" /\ ~(IoSkip \/ IoWrite \/ IoRead) BY <1>3 DEF IoDequeue, IoSkip, IoWrite, IoRead
  <2>2. CASE ioQ = <<>>
    <3>1. UNCHANGED ioQ /\ pc'["io"] # "perform" BY <1>1, <1>3, <2>2 DEF IoDequeue, Goto, Threads
    <3> QED BY <2>1, <3>1 DEF Transfers, Elements
  <2>3. CASE ioQ # <<>>
    <3>1. req'["io"] = Head(ioQ) /\ ioQ' = Tail(ioQ) /\ pc'["io"] = "perform"
      BY <1>1, <1>3, <2>3 DEF IoDequeue, Goto, Threads
    <3>2. Elements(ioQ) = Elements(ioQ)' \cup {ioReq'} BY <1>1, <2>3, <3>1, HeadAndTail DEF ioReq
    <3> QED BY <2>1, <3>1, <3>2 DEF Transfers
  <2> QED BY <2>2, <2>3
<1>4. CASE ~(IoSkip \/ IoWrite \/ IoRead \/ IoDequeue)
  <2>1. UNCHANGED ioQ /\ req'["io"] = req["io"] /\ (pc'["io"] = "perform" <=> pc["io"] = "perform")
    BY <1>4, TransferStays
  <2> QED BY <1>4, <2>1 DEF Transfers, Elements, ioReq
<1> QED BY <1>2, <1>3, <1>4

\* The steps that touch neither the medium nor the encrypted area.
LEMMA MediumAside ==
  ASSUME MediumInv, UNCHANGED <<dev, ra, fragBuf, areaEnd, hBlock, hData, op>>,
         pc'["hold"] = pc["hold"] \/ {pc["hold"], pc'["hold"]} \cap ({"transform", "advance"} \cup Owning) = {},
         Transfers' \subseteq Transfers,
         pc'["main"] = "fill" => mEnc' = Encrypted(BlockOf(mIrp, mFrag))' \/
                                 (pc["main"] = "fill" /\ UNCHANGED <<mIrp, mFrag, mEnc>>)
  PROVE  MediumInv'
<1>1. ReadyInv' BY DEF MediumInv, ReadyInv, Ready, Encrypted, BlockOf
<1>2. AheadInv' BY DEF MediumInv, AheadInv, ReadAheadCoherent
<1>3. DevInv' BY DEF MediumInv, DevInv, MediumMatchesArea, Turned, Encrypted
<1> QED BY <1>1, <1>2, <1>3 DEF MediumInv, FillShape

LEMMA MediumQueueIo == ASSUME PipeInv, BufInv, MediumInv, MainQueueIo PROVE MediumInv'
<1> DEFINE r == [irp |-> mIrp, frag |-> mFrag, buf |-> mBuf, enc |-> mEnc]
<1>1. /\ UNCHANGED <<dev, ra, areaEnd, hBlock, hData, op, req>> /\ ioQ' = Append(ioQ, r) /\ pc["main"] = "fill"
      /\ evt[mBuf] /\ \E l \in {"dequeue", "fragment"} : Goto("main", l)
      /\ fragBuf' = IF op[mIrp].write
                    THEN [fragBuf EXCEPT ![mBuf] = [val |-> Fragment(mIrp, mFrag), enc |-> mEnc]] ELSE fragBuf
  BY Zenon DEF MainQueueIo, BufferFree, setup, irps
<1>2. r \in Requests /\ r.buf = mBuf /\ r.irp = mIrp /\ r.frag = mFrag /\ r.enc = mEnc
  BY <1>1 DEF PipeInv, PipeTypes, Looping, Requests
<1> HIDE DEF r
<1>3. Elements(ioQ)' = Elements(ioQ) \cup {r} BY <1>1, <1>2, ElementsAppend DEF PipeInv, PipeTypes
<1>4. pc'["io"] = pc["io"] /\ pc'["hold"] = pc["hold"] /\ pc'["main"] \in {"dequeue", "fragment"}
  BY <1>1 DEF Goto, Threads, PipeInv, PipeTypes
<1>5. Transfers' = Transfers \cup {r} BY <1>1, <1>3, <1>4 DEF Transfers, ioReq
<1>6. \A s \in Transfers : s.buf # mBuf BY <1>1 DEF BufInv, Transfers
<1>7. \A s \in Transfers : Ready(s, op, areaEnd, fragBuf')
  <2>1. \A s \in Transfers : s.buf \in Buffers BY TransferFacts DEF Requests
  <2>2. \A s \in Transfers : fragBuf'[s.buf] = fragBuf[s.buf] BY <1>1, <1>6
  <2> QED BY <1>1, <2>2 DEF MediumInv, ReadyInv, Ready
<1>8. Ready(r, op, areaEnd, fragBuf')
  <2>1. r.enc = (op[r.irp].off + r.frag - 1 < areaEnd)
    BY <1>1, <1>2 DEF MediumInv, ReadyInv, Encrypted, BlockOf
  <2>2. op[r.irp].write => fragBuf'[r.buf] = [val |-> Fragment(r.irp, r.frag), enc |-> r.enc]
    <3>1. ASSUME op[mIrp].write PROVE fragBuf'[mBuf] = [val |-> Fragment(mIrp, mFrag), enc |-> mEnc]
      <4>1. fragBuf' = [fragBuf EXCEPT ![mBuf] = [val |-> Fragment(mIrp, mFrag), enc |-> mEnc]] BY <1>1, <3>1
      <4>2. mBuf \in DOMAIN fragBuf BY DEF PipeInv, PipeTypes, MediumInv, FillShape
      <4> QED BY <4>1, <4>2
    <3> QED BY <1>2, <3>1
  <2> QED BY <2>1, <2>2 DEF Ready
<1>9. ReadyInv'
  <2>1. \A s \in Transfers' : Ready(s, op', areaEnd', fragBuf') BY <1>1, <1>5, <1>7, <1>8
  <2> QED BY <1>4, <2>1 DEF ReadyInv
<1>10. AheadInv' BY <1>1, <1>4 DEF MediumInv, AheadInv, ReadAheadCoherent
<1>11. DevInv' BY <1>1, <1>4 DEF MediumInv, DevInv, MediumMatchesArea, Turned, Encrypted
<1>12. FillShape' BY <1>1 DEF MediumInv, FillShape
<1> QED BY <1>9, <1>10, <1>11, <1>12 DEF MediumInv

LEMMA MediumRead ==
  ASSUME PipeInv, BufInv, MediumInv, [Next]_vars, ~MainQueueIo, IoRead PROVE MediumInv'
<1>1. /\ UNCHANGED <<dev, ra, areaEnd, hBlock, hData, op, mIrp, mFrag, mEnc>> /\ pc["io"] = "perform"
      /\ \E l : Goto("io", l)
      /\ UNCHANGED fragBuf \/ \E c : fragBuf' = [fragBuf EXCEPT ![ioReq.buf] = c]
  BY DEF IoRead, IoServed, setup, mainL
<1>2. pc'["hold"] = pc["hold"] /\ pc'["main"] = pc["main"] BY <1>1 DEF Goto, Threads, PipeInv, PipeTypes
<1>3. Transfers' = Elements(ioQ) /\ Elements(ioQ) \subseteq Transfers BY TransfersMove DEF Transfers
<1>4. \A s \in Elements(ioQ) : s.buf # ioReq.buf BY <1>1 DEF BufInv
<1>5. \A s \in Elements(ioQ) : Ready(s, op, areaEnd, fragBuf')
  <2>1. \A s \in Elements(ioQ) : fragBuf'[s.buf] = fragBuf[s.buf]
    BY <1>1, <1>4 DEF MediumInv, FillShape, PipeInv, PipeTypes, Flight, Requests
  <2> QED BY <1>1, <1>3, <2>1 DEF MediumInv, ReadyInv, Ready
<1>6. ReadyInv' BY <1>1, <1>2, <1>3, <1>5 DEF MediumInv, ReadyInv, Encrypted, BlockOf
<1>7. AheadInv' BY <1>1, <1>2 DEF MediumInv, AheadInv, ReadAheadCoherent
<1>8. DevInv' BY <1>1, <1>2 DEF MediumInv, DevInv, MediumMatchesArea, Turned, Encrypted
<1>9. FillShape' BY <1>1 DEF MediumInv, FillShape
<1> QED BY <1>6, <1>7, <1>8, <1>9 DEF MediumInv

LEMMA MediumWrite ==
  ASSUME PipeInv, HoldInv, MediumInv, [Next]_vars, ~MainQueueIo, IoWrite PROVE MediumInv'
<1>1. /\ UNCHANGED <<fragBuf, areaEnd, hBlock, hData, op, mIrp, mFrag, mEnc, ioQ>> /\ pc["io"] = "perform"
      /\ (\E l : Goto("io", l)) /\ op[ioIrp].write
      /\ ra' = [ra EXCEPT !.valid = FALSE]
      /\ UNCHANGED dev \/ dev' = [dev EXCEPT ![ioBlock] = fragBuf[ioReq.buf]]
  BY DEF IoWrite, IoServed, setup, mainL, queues, ReadAheadAfterWrite
<1>2. pc'["hold"] = pc["hold"] /\ pc'["main"] = pc["main"] BY <1>1 DEF Goto, Threads, PipeInv, PipeTypes
<1>3. Transfers' \subseteq Transfers BY TransfersMove
<1>4. ~Holding
  <2>1. IoBusy BY <1>1 DEF IoBusy, IoStates
  <2> QED BY <2>1 DEF HoldInv, HeldMeansQuiescent
<1>5. Ready(ioReq, op, areaEnd, fragBuf) /\ ioReq \in Requests /\ op[ioReq.irp].write
  BY <1>1, TransferFacts DEF MediumInv, ReadyInv, Transfers, ioIrp
<1>6. fragBuf[ioReq.buf] = [val |-> Fragment(ioReq.irp, ioReq.frag), enc |-> Encrypted(ioBlock)]
  BY <1>5 DEF Ready, ioBlock, ioIrp, BlockOf, Encrypted
<1>7. fragBuf[ioReq.buf] \in Content /\ fragBuf[ioReq.buf].enc = Encrypted(ioBlock)
  <2>1. Fragment(ioReq.irp, ioReq.frag) \in Writers BY <1>5 DEF Requests, Fragment, Writers
  <2> QED BY <1>6, <2>1 DEF Content, Encrypted
<1>8. ReadyInv'
  <2>1. \A s \in Transfers : Ready(s, op, areaEnd, fragBuf') BY <1>1 DEF MediumInv, ReadyInv, Ready
  <2> QED BY <1>1, <1>2, <1>3, <2>1 DEF MediumInv, ReadyInv, Encrypted, BlockOf
<1>9. AheadInv' BY <1>1, <1>2 DEF MediumInv, AheadInv, ReadAheadCoherent
<1>10. DevInv'
  <2>1. /\ dev \in [Blocks -> Content] /\ areaEnd \in Int /\ \A b \in Blocks : dev[b].enc = Encrypted(b)
        /\ pc["hold"] \notin {"transform", "advance"}
    BY <1>4 DEF MediumInv, DevInv, MediumMatchesArea, Holding
  <2>2. dev' \in [Blocks -> Content] /\ \A b \in Blocks : dev'[b].enc = Encrypted(b) BY <1>1, <1>7, <2>1
  <2> QED BY <1>1, <1>2, <2>1, <2>2 DEF DevInv, MediumMatchesArea, Encrypted
<1>11. FillShape' BY <1>1 DEF MediumInv, FillShape
<1> QED BY <1>8, <1>9, <1>10, <1>11 DEF MediumInv

\* A read-ahead buffer that says it is valid holds what the medium holds, after each of its steps.
LEMMA AheadSteps ==
  ASSUME AheadInv, pc["hold"] \notin Owning, IoSkip \/ IoBeginReadAhead \/ IoReadAhead
  PROVE  /\ ra' = [valid |-> ra'.valid, off |-> ra'.off, data |-> ra'.data] /\ ra'.valid \in BOOLEAN
         /\ ra'.valid => ra'.data = dev[ra'.off]
<1>1. /\ ra = [valid |-> ra.valid, off |-> ra.off, data |-> ra.data] /\ ra.valid \in BOOLEAN
      /\ ra.valid => ra.data = dev[ra.off]
  BY DEF AheadInv, ReadAheadCoherent
<1>2. CASE IoSkip
  <2>1. ra' = [ra EXCEPT !.valid = @ /\ ~op[ioIrp].write] BY <1>2 DEF IoSkip
  <2>2. CASE op[ioIrp].write
    <3>1. ra' = [ra EXCEPT !.valid = FALSE] BY <1>1, <2>1, <2>2
    <3> QED BY <1>1, <3>1
  <2>3. CASE ~op[ioIrp].write
    <3>1. ra' = ra BY <1>1, <2>1, <2>3
    <3> QED BY <1>1, <3>1
  <2> QED BY <2>2, <2>3
<1>3. CASE IoBeginReadAhead
  <2> DEFINE o == ioBlock + 1
  <2>1. ra' = [ra EXCEPT !.valid = FALSE, !.off = o] BY <1>3 DEF IoBeginReadAhead
  <2> HIDE DEF o
  <2> QED BY <1>1, <2>1
<1>4. CASE IoReadAhead
  <2>1. ra' = [ra EXCEPT !.valid = TRUE, !.data = dev[ra.off]] \/ UNCHANGED ra
    BY <1>4 DEF IoReadAhead, irps
  <2> QED BY <1>1, <2>1
<1> QED BY <1>2, <1>3, <1>4

LEMMA MediumAhead ==
  ASSUME PipeInv, HoldInv, MediumInv, [Next]_vars, ~MainQueueIo, IoSkip \/ IoBeginReadAhead \/ IoReadAhead
  PROVE  MediumInv'
<1>1. /\ UNCHANGED <<dev, fragBuf, areaEnd, hBlock, hData, op, mIrp, mFrag, mEnc>> /\ \E l : Goto("io", l)
      /\ pc["io"] \in {"perform", "ahead", "aheadRead"}
  <2>1. CASE IoSkip BY <2>1 DEF IoSkip, IoServed, setup, mainL
  <2>2. CASE IoBeginReadAhead BY <2>2 DEF IoBeginReadAhead, setup, mainL, irps
  <2>3. CASE IoReadAhead BY <2>3 DEF IoReadAhead, setup, mainL, irps
  <2> QED BY <2>1, <2>2, <2>3
<1>2. pc'["hold"] = pc["hold"] /\ pc'["main"] = pc["main"] BY <1>1 DEF Goto, Threads, PipeInv, PipeTypes
<1>3. Transfers' \subseteq Transfers BY TransfersMove
<1>4. pc["hold"] \notin Owning
  <2>1. IoBusy BY <1>1 DEF IoBusy, IoStates
  <2> QED BY <2>1 DEF HoldInv, HeldMeansQuiescent, Holding, Owning
<1>5. ReadyInv' BY <1>1, <1>2, <1>3 DEF MediumInv, ReadyInv, Ready, Encrypted, BlockOf
<1>6. AheadInv'
  BY <1>1, <1>2, <1>4, AheadSteps DEF MediumInv, AheadInv, ReadAheadCoherent
<1>7. DevInv' BY <1>1, <1>2 DEF MediumInv, DevInv, MediumMatchesArea, Turned, Encrypted
<1>8. FillShape' BY <1>1 DEF MediumInv, FillShape
<1> QED BY <1>5, <1>6, <1>7, <1>8 DEF MediumInv

\* The setup thread with the queue held: there is nothing to transfer.
LEMMA MediumSetup ==
  ASSUME PipeInv, HoldInv, MediumInv, [Next]_vars, ~MainQueueIo,
         HoldSettle \/ SetupRead \/ SetupWrite \/ SetupUndo \/ SetupAdvance
  PROVE  MediumInv'
<1>1. Holding /\ \E l : Goto("hold", l)
  BY DEF HoldSettle, SetupRead, SetupWrite, SetupUndo, SetupAdvance, Holding
<1>2. ASSUME NEW l, Goto("hold", l) PROVE pc'["hold"] = l /\ pc'["main"] = pc["main"]
  BY <1>2 DEF Goto, Threads, PipeInv, PipeTypes
<1>3. Transfers' = {} /\ pc'["main"] # "fill"
  <2>1. Quiet BY <1>1 DEF HoldInv, HeldMeansQuiescent, Quiet
  <2> QED BY <1>1, <1>2, <2>1, TransferFacts, TransfersMove
<1>4. ReadyInv' BY <1>3 DEF ReadyInv
<1>5. FillShape'
  <2>1. UNCHANGED fragBuf BY DEF HoldSettle, SetupRead, SetupWrite, SetupUndo, SetupAdvance, media
  <2> QED BY <2>1 DEF MediumInv, FillShape
<1>6. CASE HoldSettle
  <2>1. /\ UNCHANGED <<dev, areaEnd, hBlock, hData>> /\ ra' = [ra EXCEPT !.valid = FALSE]
        /\ pc["hold"] = "settle" /\ pc'["hold"] = "held"
    BY <1>2, <1>6 DEF HoldSettle, ReadAheadWhenHeld, setup
  <2>2. AheadInv' BY <2>1 DEF MediumInv, AheadInv, ReadAheadCoherent
  <2>3. DevInv' BY <2>1 DEF MediumInv, DevInv, MediumMatchesArea, Encrypted
  <2> QED BY <1>4, <1>5, <2>2, <2>3 DEF MediumInv
<1>7. pc["hold"] \in Owning /\ pc'["hold"] \in Owning /\ UNCHANGED ra => AheadInv'
  BY DEF MediumInv, AheadInv, ReadAheadCoherent
<1>8. CASE SetupRead
  <2>1. /\ UNCHANGED <<dev, areaEnd, ra>> /\ pc["hold"] = "held" /\ pc'["hold"] = "transform"
        /\ hBlock' \in {areaEnd, areaEnd - 1} \cap Blocks /\ hData' = dev[hBlock']
    BY <1>2, <1>8 DEF SetupRead, media
  <2>2. AheadInv' BY <1>7, <2>1 DEF Owning
  <2>3. DevInv' BY <2>1 DEF MediumInv, DevInv, MediumMatchesArea, Encrypted
  <2> QED BY <1>4, <1>5, <2>2, <2>3 DEF MediumInv
<1>9. CASE SetupWrite
  <2>1. /\ UNCHANGED <<areaEnd, ra, hBlock>> /\ pc["hold"] = "transform" /\ pc'["hold"] = "advance"
        /\ dev' = [dev EXCEPT ![hBlock] = Decrypt(hData)]
    BY <1>2, <1>9 DEF SetupWrite, setup
  <2>2. /\ dev \in [Blocks -> Content] /\ areaEnd \in Int /\ hBlock \in {areaEnd, areaEnd - 1} \cap Blocks
        /\ hData = dev[hBlock] /\ \A b \in Blocks : dev[b].enc = Encrypted(b)
    BY <2>1 DEF MediumInv, DevInv, MediumMatchesArea
  <2>3. Decrypt(hData) \in Content /\ Decrypt(hData).enc = ~Encrypted(hBlock) BY <2>2, Ciphered
  <2>4. dev' \in [Blocks -> Content] BY <2>1, <2>2, <2>3
  <2>5. \A b \in Blocks : dev'[b] = IF b = hBlock THEN Decrypt(hData) ELSE dev[b] BY <2>1, <2>2
  <2>6. \A b \in Blocks : dev'[b].enc = IF b = hBlock THEN ~Encrypted(b) ELSE Encrypted(b)
    BY <2>2, <2>3, <2>5
  <2>7. DevInv' BY <2>1, <2>2, <2>4, <2>6 DEF DevInv, MediumMatchesArea, Turned, Encrypted
  <2>8. AheadInv' BY <2>1 DEF MediumInv, AheadInv, ReadAheadCoherent, Owning
  <2> QED BY <1>4, <1>5, <2>7, <2>8 DEF MediumInv
<1>10. CASE SetupUndo
  <2>1. /\ UNCHANGED <<areaEnd, ra>> /\ pc["hold"] = "transform" /\ pc'["hold"] = "resume"
        /\ dev' = [dev EXCEPT ![hBlock] = hData]
    BY <1>2, <1>10 DEF SetupUndo, setup
  <2>2. dev' = dev BY <2>1 DEF MediumInv, DevInv
  <2>3. DevInv' BY <2>1, <2>2 DEF MediumInv, DevInv, MediumMatchesArea, Encrypted
  <2>4. AheadInv' BY <1>7, <2>1, <2>2 DEF Owning
  <2> QED BY <1>4, <1>5, <2>3, <2>4 DEF MediumInv
<1>11. CASE SetupAdvance
  <2>1. /\ UNCHANGED <<dev, ra>> /\ pc["hold"] = "advance" /\ pc'["hold"] = "resume" /\ areaEnd' = NewAreaEnd
    BY <1>2, <1>11 DEF SetupAdvance, media
  <2>2. /\ areaEnd \in Int /\ hBlock \in {areaEnd, areaEnd - 1} \cap Blocks
        /\ \A b \in Blocks : dev[b].enc = IF b = hBlock THEN ~Encrypted(b) ELSE Encrypted(b)
    BY <2>1 DEF MediumInv, DevInv, Turned
  <2>3. \A b \in Blocks : (b < NewAreaEnd) = IF b = hBlock THEN ~(b < areaEnd) ELSE b < areaEnd
    BY <2>2, BlocksAreInt DEF NewAreaEnd
  <2>4. NewAreaEnd \in Int BY <2>2 DEF NewAreaEnd
  <2>5. DevInv' BY <2>1, <2>2, <2>3, <2>4 DEF MediumInv, DevInv, MediumMatchesArea, Encrypted
  <2>6. AheadInv' BY <1>7, <2>1 DEF Owning
  <2> QED BY <1>4, <1>5, <2>5, <2>6 DEF MediumInv
<1> QED BY <1>6, <1>8, <1>9, <1>10, <1>11

LEMMA MediumRest ==
  ASSUME PipeInv, MediumInv, [Next]_vars, ~MainQueueIo, ~IoWrite, ~IoRead, ~IoSkip, ~IoBeginReadAhead, ~IoReadAhead,
         ~HoldSettle, ~SetupRead, ~SetupWrite, ~SetupUndo, ~SetupAdvance
  PROVE  MediumInv'
<1>1. pc = [t \in Threads |-> pc[t]] BY DEF PipeInv, PipeTypes
<1>2. Transfers' \subseteq Transfers BY TransfersMove
<1>3. CASE MainThread
  <2>1. UNCHANGED <<dev, ra, fragBuf, areaEnd, hBlock, hData, op>> /\ \E l : Goto("main", l)
    BY <1>3, Zenon DEF MainThread, MainWake, MainDequeue, MainGate, MainResumed, MainGetItem, MainPoolFreed, MainFail,
       MainDeny, MainReadMisaligned, MainComplete, MainSignal, MainDrop, MainAccept, MainFragment, NextFragment,
       MainGetRequest, media, setup, irps
  <2>2. pc'["hold"] = pc["hold"] BY <1>1, <2>1 DEF Goto, Threads
  <2>3. pc'["main"] = "fill" => mEnc' = Encrypted(BlockOf(mIrp, mFrag)) /\ UNCHANGED <<mIrp, mFrag>>
    <3>1. CASE MainGetRequest
      <4>1. /\ UNCHANGED <<mIrp, mFrag>>
            /\ mEnc' = Encrypted(BlockOf(mIrp, mFrag)) \/ Goto("main", "requestWait")
        BY <3>1 DEF MainGetRequest
      <4> QED BY <1>1, <4>1 DEF Goto, Threads
    <3>2. CASE ~MainGetRequest
      <4>1. \E l : l # "fill" /\ Goto("main", l)
        BY <1>3, <3>2 DEF MainThread, MainWake, MainDequeue, MainGate, MainResumed, MainGetItem, MainPoolFreed, MainFail,
           MainDeny, MainReadMisaligned, MainComplete, MainSignal, MainDrop, MainAccept, MainFragment, NextFragment,
           AfterDecrement
      <4> QED BY <1>1, <4>1 DEF Goto, Threads
    <3> QED BY <3>1, <3>2
  <2>4. pc'["main"] = "fill" => mEnc' = Encrypted(BlockOf(mIrp, mFrag))'
    BY <2>1, <2>3 DEF Encrypted, BlockOf
  <2> QED BY <1>2, <2>1, <2>2, <2>4, MediumAside
<1>4. CASE IoThread \/ CompletionThread
  <2>1. UNCHANGED <<dev, ra, fragBuf, areaEnd, hBlock, hData, op, mIrp, mFrag, mEnc>>
        /\ \E t \in {"io", "comp"} : \E l : Goto(t, l)
    BY <1>4, Zenon DEF IoThread, IoWake, IoDequeue, IoDecideReadAhead, IoEnqueue, IoEndReadAhead, IoSignal,
       CompletionThread, CompWake, CompDequeue, CompDecrypt, HandleComplete, AwaitWorkItem, DispatchWorkItem,
       ReleaseRequest, media, setup, irps, mainL
  <2>2. pc'["hold"] = pc["hold"] /\ pc'["main"] = pc["main"] BY <1>1, <2>1 DEF Goto, Threads
  <2> QED BY <1>2, <2>1, <2>2, MediumAside
<1>5. CASE StopBegin \/ StopStep \/ \E i \in Irps : AddIrp(i) \/ CompleteIrpWorkItem(i)
  <2>1. UNCHANGED <<dev, ra, fragBuf, areaEnd, hBlock, hData, op, mIrp, mFrag, mEnc>>
        /\ (UNCHANGED pc \/ \E l : Goto("stop", l))
    BY <1>5, Zenon DEF StopBegin, StopStep, StopCheck, StopAwait, StopRequestExit, StopWake, StopJoin,
       StopResetEvent, StopDrainCheck, StopFree, AddIrp, AddIrpCount, AddIrpAccept, AddIrpReject,
       AddIrpRejectSignal, AddIrpInsert, CompleteIrpWorkItem, WorkComplete, WorkSignal, WorkRetire, WorkReturn,
       WorkPost, WorkRelease, media, setup, irps, mainL
  <2>2. pc'["hold"] = pc["hold"] /\ pc'["main"] = pc["main"] BY <1>1, <2>1 DEF Goto, Threads
  <2> QED BY <1>2, <2>1, <2>2, MediumAside
<1>6. CASE Resume
  <2>1. UNCHANGED <<dev, ra, fragBuf, areaEnd, hBlock, hData, op, mIrp, mFrag, mEnc>>
        /\ pc["hold"] \in {"held", "resume"} /\ Goto("hold", "idle")
    BY <1>6 DEF Resume, media, setup, irps, mainL
  <2>2. pc'["hold"] = "idle" /\ pc'["main"] = pc["main"] BY <1>1, <2>1 DEF Goto, Threads
  <2>3. ReadyInv' BY <1>2, <2>1, <2>2 DEF MediumInv, ReadyInv, Ready, Encrypted, BlockOf
  <2>4. AheadInv' BY <2>1, <2>2 DEF MediumInv, AheadInv, ReadAheadCoherent, Owning
  <2>5. DevInv' BY <2>1, <2>2 DEF MediumInv, DevInv, MediumMatchesArea, Encrypted
  <2> QED BY <2>1, <2>3, <2>4, <2>5 DEF MediumInv, FillShape
<1>7. CASE HoldBegin \/ HoldCheck \/ HoldAwait \/ HoldGiveUp \/ HoldRecheck \/ HoldSuspend \/ HoldVerify \/ HoldUndo
  <2>1. UNCHANGED <<dev, ra, fragBuf, areaEnd, hBlock, hData, op, mIrp, mFrag, mEnc>>
    BY <1>7 DEF HoldBegin, HoldCheck, HoldAwait, HoldGiveUp, HoldRecheck, HoldSuspend, HoldVerify,
       HoldUndo, media, setup, irps, mainL
  <2>2. /\ pc["hold"] \in {"idle", "check", "await", "recheck", "suspend", "verify", "undo"}
        /\ \E l \in {"idle", "check", "await", "recheck", "suspend", "verify", "settle", "undo"} : Goto("hold", l)
    BY <1>7 DEF HoldBegin, HoldCheck, HoldAwait, HoldGiveUp, HoldRecheck, HoldSuspend, HoldVerify, HoldUndo
  <2>3. /\ pc'["hold"] \in {"idle", "check", "await", "recheck", "suspend", "verify", "settle", "undo"}
        /\ pc'["main"] = pc["main"]
    BY <1>1, <2>2 DEF Goto, Threads
  <2>4. {pc["hold"], pc'["hold"]} \cap ({"transform", "advance"} \cup Owning) = {}
    BY <2>2, <2>3 DEF Owning
  <2> QED BY <1>2, <2>1, <2>3, <2>4, MediumAside
<1>8. CASE UNCHANGED vars
  <2>1. UNCHANGED <<dev, ra, fragBuf, areaEnd, hBlock, hData, op, mIrp, mFrag, mEnc, pc>>
    BY <1>8 DEF vars, media, setup, irps, mainL
  <2> QED BY <1>2, <2>1, MediumAside
<1> QED BY <1>3, <1>4, <1>5, <1>6, <1>7, <1>8 DEF Next, HoldStep

LEMMA MediumKept == ASSUME PipeInv, HoldInv, BufInv, MediumInv, [Next]_vars PROVE MediumInv'
BY MediumQueueIo, MediumRead, MediumWrite, MediumAhead, MediumSetup, MediumRest

LEMMA MediumInit == ASSUME Init PROVE MediumInv
<1>1. /\ ioQ = <<>> /\ pc["io"] = "wait" /\ pc["main"] = "wait" /\ pc["hold"] = "idle"
      /\ fragBuf = [b \in Buffers |-> [val |-> Origin, enc |-> FALSE]]
      /\ areaEnd \in InitialAreas /\ dev = [b \in Blocks |-> [val |-> Origin, enc |-> Encrypted(b)]]
      /\ ra = [valid |-> FALSE, off |-> 0, data |-> [val |-> Origin, enc |-> FALSE]]
  BY DEF Init, Threads
<1>2. ReadyInv BY <1>1, EmptyQueue DEF ReadyInv, Transfers
<1>3. AheadInv BY <1>1 DEF AheadInv, Owning, ReadAheadCoherent
<1>4. DevInv
  <2>1. areaEnd \in Int BY <1>1, OpsAssumption, CountsAssumption
  <2>2. Origin \in Writers BY DEF Origin, Writers
  <2>3. dev \in [Blocks -> Content] BY <1>1, <2>2 DEF Content, Encrypted
  <2>4. \A b \in Blocks : dev[b].enc = Encrypted(b) BY <1>1
  <2> QED BY <1>1, <2>1, <2>3, <2>4 DEF DevInv, MediumMatchesArea
<1>5. FillShape BY <1>1, Zenon DEF FillShape
<1> QED BY <1>2, <1>3, <1>4, <1>5 DEF MediumInv

LEMMA MediumSafe == Spec => [](MediumMatchesArea /\ ReadAheadCoherent)
<1> DEFINE Inv == PipeInv /\ OutstandingExact /\ HoldInv /\ BufInv /\ MediumInv
<1>1. Init => Inv BY PipeInit, CountInit, HoldInit, BufInit, MediumInit
<1>2. Inv /\ [Next]_vars => Inv' BY PipeStep, CountStep, HoldKept, BufKept, MediumKept DEF HoldInv
<1>3. Inv => MediumMatchesArea /\ ReadAheadCoherent BY DEF MediumInv, DevInv, AheadInv
<1> QED BY <1>1, <1>2, <1>3, PTL DEF Spec

\* What lies encrypted on the medium is the encrypted area, whatever writes
\* were under way when the setup thread moved its end.
THEOREM MediumAlwaysMatchesArea == Spec => []MediumMatchesArea
BY MediumSafe, PTL

\* A valid read-ahead buffer holds what the device holds.
THEOREM ReadAheadStaysCoherent == Spec => []ReadAheadCoherent
BY MediumSafe, PTL

(***************************************************************************)
(* Hidden volume protection.  The main thread decides about the IRPs in the *)
(* order in which they came; once it has denied a write to protect the      *)
(* hidden volume it denies every write after it, and the fragments of those *)
(* it let through, which are transferred later, touch no protected block.   *)
(***************************************************************************)
Waiting == IF pc["main"] \in Early THEN 1 ELSE 0
Dequeued == Len(arrival) - Len(mainQ)
Decided == Dequeued - Waiting
ArrivalInv ==
  /\ arrival \in Seq(Irps) /\ Distinct(arrival) /\ Decided \in Nat
  /\ \A n \in DOMAIN mainQ : mainQ[n] = arrival[Dequeued + n]
  /\ pc["main"] \in Early => arrival[Dequeued] = mIrp
  /\ \A i \in Irps : phase[i] \notin Taken => i \notin Elements(arrival)

Exposes(i) == status[i] = "denied" /\ TriggersProtection(op[i])
StatusInv ==
  /\ status \in [Irps -> {"ok", "error", "denied"}]
  /\ \A i \in Irps : phase[i] \notin Taken => status[i] = "ok"
  /\ \A n \in DOMAIN arrival : n > Decided => status[arrival[n]] = "ok"
  /\ ~protectionAction => \A i \in Irps : ~Exposes(i)
  /\ protectionAction => ~IsFilterDevice /\ Protected # {}
  /\ \A m, n \in DOMAIN arrival :
       m < n /\ n <= Decided /\ Exposes(arrival[m]) /\ op[arrival[n]].write => status[arrival[n]] # "ok"

SparedInv ==
  /\ \A r \in Transfers : op[r.irp].write => BlockOf(r.irp, r.frag) \notin Protected
  /\ pc["main"] \in Looping /\ op[mIrp].write => Span(op[mIrp]) \cap Protected = {}
  /\ \A b \in Protected : dev[b].val = Origin

\* The IRPs that are not decided are in the main queue or with the main thread.
LEMMA Undecided ==
  ASSUME PipeInv, ArrivalInv, NEW n \in DOMAIN arrival, n > Decided
  PROVE  arrival[n] \in Elements(mainQ) \/ (pc["main"] \in Early /\ n = Dequeued /\ arrival[n] = mIrp)
<1>1. /\ arrival \in Seq(Irps) /\ mainQ \in Seq(Irps) /\ Len(mainQ) \in Nat /\ Len(arrival) \in Nat
      /\ n \in 1 .. Len(arrival) /\ Dequeued \in Int
  BY DEF PipeInv, PipeTypes, ArrivalInv, Dequeued
<1>2. CASE n > Dequeued
  <2>1. n - Dequeued \in 1 .. Len(mainQ) /\ Dequeued + (n - Dequeued) = n BY <1>1, <1>2 DEF Dequeued
  <2>2. n - Dequeued \in DOMAIN mainQ BY <1>1, <2>1
  <2>3. mainQ[n - Dequeued] = arrival[n] BY <2>1, <2>2 DEF ArrivalInv
  <2> QED BY <2>2, <2>3 DEF Elements
<1>3. CASE ~(n > Dequeued)
  <2>1. pc["main"] \in Early /\ n = Dequeued BY <1>1, <1>3 DEF Decided, Waiting
  <2> QED BY <2>1 DEF ArrivalInv
<1> QED BY <1>2, <1>3

\* Steps that leave the order of arrival alone.
LEMMA ArrivalAside ==
  ASSUME ArrivalInv, UNCHANGED <<arrival, mainQ, mIrp>>, pc'["main"] \in Early <=> pc["main"] \in Early,
         \A i \in Irps : phase[i] \in Taken => phase'[i] \in Taken
  PROVE  ArrivalInv' /\ Decided' = Decided
<1>1. Dequeued' = Dequeued /\ Waiting' = Waiting BY DEF Dequeued, Waiting
<1>2. Decided' = Decided BY <1>1 DEF Decided
<1>3. Elements(arrival)' = Elements(arrival) BY DEF Elements
<1>4. \A i \in Irps : phase'[i] \notin Taken => i \notin Elements(arrival)' BY <1>3 DEF ArrivalInv
<1> QED BY <1>1, <1>2, <1>4 DEF ArrivalInv, Distinct

LEMMA StatusAside ==
  ASSUME StatusInv, UNCHANGED <<arrival, op, status, protectionAction>>, Decided' = Decided,
         \A i \in Irps : phase[i] \in Taken => phase'[i] \in Taken
  PROVE  StatusInv'
<1>1. \A i : Exposes(i)' <=> Exposes(i) BY DEF Exposes
<1> QED BY <1>1 DEF StatusInv

\* The main thread decides about mIrp: it moves on, with a status for it.
LEMMA ArrivalDecided ==
  ASSUME PipeInv, ArrivalInv, UNCHANGED <<arrival, mainQ, mIrp>>,
         pc["main"] = "check", pc'["main"] \notin Early,
         \A i \in Irps : phase[i] \in Taken => phase'[i] \in Taken
  PROVE  /\ ArrivalInv' /\ Decided' = Decided + 1 /\ Decided' = Dequeued /\ mIrp \in Irps
         /\ Decided' \in DOMAIN arrival /\ arrival[Decided'] = mIrp
         /\ phase[mIrp] \in Taken
         /\ \A n \in DOMAIN arrival : n # Decided' => arrival[n] # mIrp
<1>1. Dequeued' = Dequeued /\ Waiting = 1 /\ Waiting' = 0 BY DEF Dequeued, Waiting, Early
<1>2. /\ arrival \in Seq(Irps) /\ mainQ \in Seq(Irps) /\ Len(mainQ) \in Nat /\ Len(arrival) \in Nat
      /\ Dequeued \in Int
  BY DEF PipeInv, PipeTypes, ArrivalInv, Dequeued
<1>3. Decided' = Decided + 1 /\ Decided' = Dequeued BY <1>1, <1>2 DEF Decided
<1>4. Decided \in Nat /\ Decided' \in Nat BY <1>3 DEF ArrivalInv
<1>5. Elements(arrival)' = Elements(arrival) BY DEF Elements
<1>6. \A i \in Irps : phase'[i] \notin Taken => i \notin Elements(arrival)' BY <1>5 DEF ArrivalInv
<1>7. ArrivalInv' BY <1>1, <1>4, <1>6 DEF ArrivalInv, Distinct
<1>8. Decided' \in DOMAIN arrival BY <1>2, <1>3, <1>4 DEF Dequeued
<1>9. arrival[Decided'] = mIrp BY <1>3 DEF ArrivalInv, Early
<1>10. mIrp \in Irps /\ phase[mIrp] \in Taken BY DEF PipeInv, PipeTypes, MainPlace, Early, Taken
<1>11. \A n \in DOMAIN arrival : n # Decided' => arrival[n] # mIrp BY <1>8, <1>9 DEF ArrivalInv, Distinct
<1> QED BY <1>3, <1>7, <1>8, <1>9, <1>10, <1>11

LEMMA StatusDecided ==
  ASSUME StatusInv, UNCHANGED <<arrival, op>>, Decided \in Nat, Decided' = Decided + 1, mIrp \in Irps,
         arrival \in Seq(Irps), Decided' \in DOMAIN arrival, arrival[Decided'] = mIrp, phase[mIrp] \in Taken,
         \A n \in DOMAIN arrival : n # Decided' => arrival[n] # mIrp,
         \A i \in Irps : phase[i] \in Taken => phase'[i] \in Taken,
         status' \in [Irps -> {"ok", "error", "denied"}],
         \A i \in Irps : i # mIrp => status'[i] = status[i],
         protectionAction => protectionAction',
         protectionAction' => ~IsFilterDevice /\ Protected # {},
         ~protectionAction' => ~(status'[mIrp] = "denied" /\ TriggersProtection(op[mIrp])),
         protectionAction /\ op[mIrp].write => status'[mIrp] # "ok"
  PROVE  StatusInv'
<1>1. \A n \in DOMAIN arrival : arrival[n] \in Irps OBVIOUS
<1>2. \A i \in Irps : phase'[i] \notin Taken => status'[i] = "ok" BY DEF StatusInv
<1>3. \A i \in Irps : i # mIrp => (Exposes(i)' <=> Exposes(i)) BY DEF Exposes
<1>4. \A n \in DOMAIN arrival : n > Decided' => status'[arrival[n]] = "ok"
  <2> SUFFICES ASSUME NEW n \in DOMAIN arrival, n > Decided' PROVE status'[arrival[n]] = "ok" OBVIOUS
  <2>1. n \in Nat OBVIOUS
  <2>2. n > Decided /\ n # Decided' BY <2>1
  <2>3. status[arrival[n]] = "ok" BY <2>2 DEF StatusInv
  <2> QED BY <1>1, <2>2, <2>3
<1>5. ~protectionAction' => \A i \in Irps : ~Exposes(i)'
  <2> SUFFICES ASSUME ~protectionAction', NEW i \in Irps PROVE ~Exposes(i)' OBVIOUS
  <2>1. CASE i = mIrp BY <2>1 DEF Exposes
  <2>2. CASE i # mIrp BY <1>3, <2>2 DEF StatusInv
  <2> QED BY <2>1, <2>2
<1>6. ASSUME NEW m \in DOMAIN arrival, NEW n \in DOMAIN arrival, m < n, n <= Decided',
             NEW i \in Irps, arrival[m] = i, Exposes(i)', op[arrival[n]].write
      PROVE  status'[arrival[n]] # "ok"
  <2>1. m \in Nat /\ n \in Nat OBVIOUS
  <2>2. m # Decided' /\ m <= Decided BY <1>6, <2>1
  <2>3. i # mIrp BY <1>6, <2>2
  <2>4. Exposes(i) BY <1>3, <1>6, <2>3
  <2>5. CASE n = Decided'
    <3>1. protectionAction BY <2>4 DEF StatusInv
    <3> QED BY <1>6, <2>5, <3>1
  <2>6. CASE n # Decided'
    <3>1. n <= Decided BY <1>6, <2>1, <2>6
    <3>2. status[arrival[n]] # "ok" BY <1>6, <2>4, <3>1 DEF StatusInv
    <3> QED BY <1>1, <2>6, <3>2
  <2> QED BY <2>5, <2>6
<1>7. ASSUME NEW m \in DOMAIN arrival', NEW n \in DOMAIN arrival', m < n, n <= Decided',
             Exposes(arrival[m])', op'[arrival'[n]].write
      PROVE  status'[arrival'[n]] # "ok"
  <2>1. PICK i \in Irps : arrival[m] = i BY <1>1
  <2>2. Exposes(i)' BY <1>7, <2>1 DEF Exposes
  <2> QED BY <1>6, <1>7, <2>1, <2>2
<1> QED BY <1>2, <1>4, <1>5, <1>7 DEF StatusInv

LEMMA TakenKept ==
  ASSUME PipeInv, [Next]_vars
  PROVE  \A i \in Irps : phase[i] \in Taken => phase'[i] \in Taken
<1>1. phase = [i \in Irps |-> phase[i]] BY DEF PipeInv, PipeTypes
<1>2. ASSUME NEW p, NEW j, phase' = [phase EXCEPT ![j] = p], p \in Taken \/ phase[j] \notin Taken
      PROVE  \A i \in Irps : phase[i] \in Taken => phase'[i] \in Taken
  BY <1>1, <1>2
<1>3. CASE UNCHANGED vars BY <1>3 DEF vars
<1>4. CASE HoldBegin \/ HoldStep \/ StopBegin \/ StopStep BY <1>4, Outsiders
<1>5. ASSUME NEW i \in Irps, AddIrp(i)
      PROVE  \E p, j : phase' = [phase EXCEPT ![j] = p] /\ (p \in Taken \/ phase[j] \notin Taken)
  BY <1>5 DEF AddIrp, AddIrpCount, AddIrpAccept, AddIrpReject, AddIrpRejectSignal, AddIrpInsert, Advance, Taken
<1>6. ASSUME NEW i \in Irps, CompleteIrpWorkItem(i)
      PROVE  \E p, j : phase' = [phase EXCEPT ![j] = p] /\ p \in Taken
  BY <1>6 DEF CompleteIrpWorkItem, WorkComplete, WorkSignal, WorkRetire, WorkReturn, WorkPost, WorkRelease,
     Advance, AfterDecrement, Taken
<1>7. CASE MainThread
  <2>1. UNCHANGED phase \/ phase' = [phase EXCEPT ![mIrp] = "done"]
    BY <1>7, Zenon DEF MainThread, MainWake, MainDequeue, MainGate, MainResumed, MainGetItem, MainPoolFreed, MainFail,
       MainDeny, MainReadMisaligned, MainComplete, MainSignal, MainDrop, MainAccept, MainFragment, NextFragment,
       MainGetRequest, MainQueueIo, Advance
  <2> QED BY <1>2, <2>1 DEF Taken
<1>8. CASE IoThread \/ CompletionThread
  <2>1. UNCHANGED phase \/ \E t \in {"io", "comp"} : phase' = [phase EXCEPT ![req[t].irp] = "completing"]
    BY <1>8, Zenon DEF IoThread, IoWake, IoDequeue, IoSkip, IoWrite, IoRead, IoServed, IoDecideReadAhead, IoEnqueue,
       IoBeginReadAhead, IoReadAhead, IoEndReadAhead, IoSignal, CompletionThread, CompWake, CompDequeue, CompDecrypt,
       HandleComplete, AwaitWorkItem, DispatchWorkItem, ReleaseRequest, Advance
  <2> QED BY <1>2, <2>1 DEF Taken
<1> QED BY <1>2, <1>3, <1>4, <1>5, <1>6, <1>7, <1>8 DEF Next

\* The steps of the main thread that decide nothing.
LEMMA OrderMain ==
  ASSUME PipeInv, ArrivalInv, StatusInv, [Next]_vars,
         MainWake \/ MainGate \/ MainResumed \/ MainGetItem \/ MainPoolFreed \/ MainSignal \/ MainDrop
         \/ MainFragment \/ MainGetRequest \/ MainQueueIo
  PROVE  ArrivalInv' /\ StatusInv' /\ Decided' = Decided
<1>1. UNCHANGED <<arrival, mainQ, mIrp, op, status, protectionAction>>
  BY Zenon DEF MainWake, MainGate, MainResumed, MainGetItem, MainPoolFreed, MainSignal, MainDrop, MainFragment,
     NextFragment, MainGetRequest, MainQueueIo, queues, mainL, irps, flags
<1>2. pc'["main"] \in Early <=> pc["main"] \in Early
  <2> USE DEF PipeInv, PipeTypes, Goto, Early, Threads
  <2>1. CASE MainWake BY <2>1 DEF MainWake
  <2>2. CASE MainGate BY <2>2 DEF MainGate
  <2>3. CASE MainResumed BY <2>3 DEF MainResumed
  <2>4. CASE MainGetItem BY <2>4 DEF MainGetItem
  <2>5. CASE MainPoolFreed BY <2>5 DEF MainPoolFreed
  <2>6. CASE MainSignal BY <2>6 DEF MainSignal
  <2>7. CASE MainDrop BY <2>7 DEF MainDrop
  <2>8. CASE MainFragment BY <2>8 DEF MainFragment, NextFragment
  <2>9. CASE MainGetRequest BY <2>9 DEF MainGetRequest
  <2>10. CASE MainQueueIo
    <3>1. pc["main"] = "fill" /\ \E l \in {"dequeue", "fragment"} : Goto("main", l) BY <2>10 DEF MainQueueIo
    <3> QED BY <3>1
  <2> QED BY <2>1, <2>2, <2>3, <2>4, <2>5, <2>6, <2>7, <2>8, <2>9, <2>10
<1> QED BY <1>1, <1>2, TakenKept, ArrivalAside, StatusAside

LEMMA OrderDequeue ==
  ASSUME PipeInv, ArrivalInv, StatusInv, [Next]_vars, MainDequeue PROVE ArrivalInv' /\ StatusInv' /\ Decided' = Decided
<1>1. UNCHANGED <<arrival, op, status, protectionAction>> /\ pc["main"] \notin Early
  BY DEF MainDequeue, irps, flags, Early
<1>2. \A i \in Irps : phase[i] \in Taken => phase'[i] \in Taken BY TakenKept
<1>3. CASE mainQ = <<>>
  <2>1. UNCHANGED <<mainQ, mIrp>> /\ pc'["main"] \notin Early
    BY <1>3 DEF MainDequeue, Goto, PipeInv, PipeTypes, Threads, Early
  <2> QED BY <1>1, <1>2, <2>1, ArrivalAside, StatusAside
<1>4. CASE mainQ # <<>>
  <2>1. mIrp' = Head(mainQ) /\ mainQ' = Tail(mainQ) /\ pc'["main"] \in Early
    BY <1>4 DEF MainDequeue, Goto, PipeInv, PipeTypes, Threads, Early
  <2>2. /\ mainQ \in Seq(Irps) /\ Len(mainQ) \in Nat /\ Len(mainQ) >= 1 /\ Head(mainQ) = mainQ[1]
        /\ Len(Tail(mainQ)) = Len(mainQ) - 1 /\ arrival \in Seq(Irps) /\ Len(arrival) \in Nat
    BY <1>4 DEF PipeInv, PipeTypes, ArrivalInv
  <2>3. \A n \in 1 .. Len(mainQ) - 1 : Tail(mainQ)[n] = mainQ[n + 1] BY <1>4, <2>2
  <2>4. Dequeued' = Dequeued + 1 /\ Dequeued \in Int
    <3>1. Len(mainQ') = Len(mainQ) - 1 /\ Len(arrival') = Len(arrival) BY <1>1, <2>1, <2>2
    <3>2. (Len(arrival) - (Len(mainQ) - 1)) = Len(arrival) - Len(mainQ) + 1 BY <2>2
    <3> QED BY <2>2, <3>1, <3>2 DEF Dequeued
  <2>5. Waiting = 0 /\ Waiting' = 1 BY <1>1, <2>1 DEF Waiting
  <2>6. Decided' = Decided BY <2>4, <2>5 DEF Decided
  <2>7. arrival[Dequeued'] = mIrp'
    <3>1. 1 \in DOMAIN mainQ BY <2>2
    <3>2. mainQ[1] = arrival[Dequeued + 1] BY <3>1 DEF ArrivalInv
    <3> QED BY <2>1, <2>2, <2>4, <3>2
  <2>8. \A n \in DOMAIN mainQ' : mainQ'[n] = arrival'[Dequeued' + n]
    <3> SUFFICES ASSUME NEW n \in DOMAIN mainQ' PROVE mainQ'[n] = arrival[Dequeued' + n] BY <1>1
    <3>1. n \in 1 .. Len(mainQ) - 1 BY <2>1, <2>2
    <3>2. mainQ'[n] = mainQ[n + 1] /\ n + 1 \in DOMAIN mainQ BY <2>1, <2>2, <2>3, <3>1
    <3>3. mainQ[n + 1] = arrival[Dequeued + (n + 1)] BY <3>2 DEF ArrivalInv
    <3>4. Dequeued + (n + 1) = Dequeued' + n BY <2>4, <3>1
    <3> QED BY <3>2, <3>3, <3>4
  <2>9. Elements(arrival)' = Elements(arrival) BY <1>1 DEF Elements
  <2>10. \A i \in Irps : phase'[i] \notin Taken => i \notin Elements(arrival)' BY <1>2, <2>9 DEF ArrivalInv
  <2>11. arrival' \in Seq(Irps) /\ Distinct(arrival)' /\ Decided' \in Nat
    BY <1>1, <2>6 DEF ArrivalInv, Distinct
  <2>12. arrival'[Dequeued'] = mIrp' BY <1>1, <2>7
  <2>13. ArrivalInv' BY <2>8, <2>10, <2>11, <2>12 DEF ArrivalInv
  <2> QED BY <1>1, <1>2, <2>6, <2>13, StatusAside
<1> QED BY <1>3, <1>4

LEMMA OrderDecides ==
  ASSUME PipeInv, ArrivalInv, StatusInv, [Next]_vars, MainAccept \/ MainFail \/ MainDeny \/ MainReadMisaligned
  PROVE  ArrivalInv' /\ StatusInv' /\ Decided' = Decided + 1 /\ arrival'[Decided'] = mIrp'
<1>1. /\ UNCHANGED <<arrival, mainQ, mIrp, op>> /\ pc["main"] = "check"
      /\ \E l \in {"request", "signal", "drop"} : Goto("main", l)
  BY DEF MainAccept, NextFragment, MainFail, MainDeny, MainReadMisaligned, MainComplete, AfterDecrement,
     queues, mainL, irps
<1>2. pc'["main"] \notin Early BY <1>1 DEF Goto, PipeInv, PipeTypes, Threads, Early
<1>3. \A i \in Irps : phase[i] \in Taken => phase'[i] \in Taken BY TakenKept
<1>4. /\ ArrivalInv' /\ Decided' = Decided + 1 /\ mIrp \in Irps
      /\ Decided' \in DOMAIN arrival /\ arrival[Decided'] = mIrp /\ phase[mIrp] \in Taken
      /\ \A n \in DOMAIN arrival : n # Decided' => arrival[n] # mIrp
  BY <1>1, <1>2, <1>3, ArrivalDecided
<1>5. Decided \in Nat /\ arrival \in Seq(Irps) BY DEF ArrivalInv
<1>6. status \in [Irps -> {"ok", "error", "denied"}] BY DEF StatusInv
<1>7. status[mIrp] = "ok"
  <2>1. Decided' > Decided BY <1>4, <1>5
  <2> QED BY <1>4, <2>1 DEF StatusInv
<1>8. protectionAction => ~IsFilterDevice /\ Protected # {} BY DEF StatusInv
<1>9. CASE MainAccept
  <2>1. UNCHANGED <<status, protectionAction>> /\ ~Denied(op[mIrp]) /\ ~Misaligned(op[mIrp])
    BY <1>9 DEF MainAccept, NextFragment, irps, flags
  <2>2. ~(protectionAction /\ op[mIrp].write) BY <1>8, <2>1 DEF Denied, AfterProtection
  <2> QED BY <1>1, <1>3, <1>4, <1>5, <1>6, <1>7, <1>8, <2>1, <2>2, StatusDecided
<1>10. CASE MainFail
  <2>1. UNCHANGED protectionAction /\ status' = [status EXCEPT ![mIrp] = "error"] BY <1>10 DEF MainFail, flags
  <2>2. /\ status' \in [Irps -> {"ok", "error", "denied"}] /\ status'[mIrp] = "error"
        /\ \A i \in Irps : i # mIrp => status'[i] = status[i]
    BY <1>4, <1>6, <2>1
  <2> QED BY <1>1, <1>3, <1>4, <1>5, <1>8, <2>1, <2>2, StatusDecided
<1>11. CASE MainDeny
  <2>1. /\ protectionAction' = (protectionAction \/ TriggersProtection(op[mIrp]))
        /\ status' = [status EXCEPT ![mIrp] = "denied"]
    BY <1>11 DEF MainDeny
  <2>2. /\ status' \in [Irps -> {"ok", "error", "denied"}] /\ status'[mIrp] = "denied"
        /\ \A i \in Irps : i # mIrp => status'[i] = status[i]
    BY <1>4, <1>6, <2>1
  <2>3. protectionAction' => ~IsFilterDevice /\ Protected # {}
    BY <1>8, <2>1 DEF TriggersProtection, HitsProtected
  <2>4. protectionAction => protectionAction' BY <2>1
  <2>5. ~protectionAction' => ~TriggersProtection(op[mIrp]) BY <2>1
  <2> HIDE DEF TriggersProtection
  <2> QED BY <1>1, <1>3, <1>4, <1>5, <2>2, <2>3, <2>4, <2>5, StatusDecided
<1>12. CASE MainReadMisaligned
  <2>1. UNCHANGED <<status, protectionAction>> /\ Misaligned(op[mIrp]) BY <1>12 DEF MainReadMisaligned, flags
  <2>2. ~op[mIrp].write BY <2>1 DEF Misaligned
  <2> QED BY <1>1, <1>3, <1>4, <1>5, <1>6, <1>7, <1>8, <2>1, <2>2, StatusDecided
<1> QED BY <1>9, <1>10, <1>11, <1>12

LEMMA OrderServes ==
  ASSUME PipeInv, ArrivalInv, StatusInv, [Next]_vars, IoSkip \/ IoWrite \/ IoRead
  PROVE  ArrivalInv' /\ StatusInv' /\ Decided' = Decided
<1>1. /\ UNCHANGED <<arrival, mainQ, mIrp, op, protectionAction, phase>> /\ pc["io"] = "perform"
      /\ \E l : Goto("io", l)
      /\ UNCHANGED status \/ (status[ioIrp] = "ok" /\ status' = [status EXCEPT ![ioIrp] = "error"])
  BY DEF IoSkip, IoWrite, IoRead, IoServed, ItemOk, queues, mainL, irps, flags
<1>2. pc'["main"] = pc["main"] BY <1>1 DEF Goto, PipeInv, PipeTypes, Threads
<1>3. ArrivalInv' /\ Decided' = Decided BY <1>1, <1>2, ArrivalAside
<1>4. CASE UNCHANGED status BY <1>1, <1>3, <1>4, StatusAside
<1>5. CASE status[ioIrp] = "ok" /\ status' = [status EXCEPT ![ioIrp] = "error"]
  <2>1. ioIrp \in Irps /\ ioReq \in Flight /\ ioIrp = ioReq.irp
    BY <1>1, HandFacts DEF Handling, ioReq, ioIrp
  <2>2. phase[ioIrp] \in Taken BY <2>1 DEF PipeInv, Stations
  <2>3. \A n \in DOMAIN arrival : n > Decided => arrival[n] # ioIrp
    BY <2>1, Undecided DEF PipeInv, MainPlace
  <2>4. status \in [Irps -> {"ok", "error", "denied"}] BY DEF StatusInv
  <2>5. /\ status' \in [Irps -> {"ok", "error", "denied"}] /\ status'[ioIrp] = "error"
        /\ \A i \in Irps : i # ioIrp => status'[i] = status[i]
    BY <1>5, <2>1, <2>4
  <2>6. \A i \in Irps : status'[i] = "denied" <=> status[i] = "denied" BY <1>5, <2>5
  <2>7. \A i \in Irps : status'[i] = "ok" => status[i] = "ok" BY <2>5
  <2>8. \A i \in Irps : Exposes(i)' <=> Exposes(i) BY <1>1, <2>6 DEF Exposes
  <2>9. \A i \in Irps : phase'[i] \notin Taken => status'[i] = "ok" BY <1>1, <2>2, <2>5 DEF StatusInv
  <2>10. \A n \in DOMAIN arrival : arrival[n] \in Irps BY DEF ArrivalInv
  <2>11. \A n \in DOMAIN arrival : n > Decided => status'[arrival[n]] = "ok"
    BY <2>3, <2>5, <2>10 DEF StatusInv
  <2>12. ASSUME NEW m \in DOMAIN arrival', NEW n \in DOMAIN arrival', m < n, n <= Decided',
                Exposes(arrival[m])', op'[arrival'[n]].write
         PROVE  status'[arrival'[n]] # "ok"
    <3>1. PICK i \in Irps, j \in Irps : arrival[m] = i /\ arrival[n] = j BY <1>1, <2>10, <2>12
    <3>2. Exposes(i)' BY <1>1, <2>12, <3>1 DEF Exposes
    <3>3. Exposes(i) BY <2>8, <3>2
    <3>4. status[j] # "ok" BY <1>1, <1>3, <2>12, <3>1, <3>3 DEF StatusInv
    <3> QED BY <1>1, <2>7, <3>1, <3>4
  <2>13. ~protectionAction' => \A i \in Irps : ~Exposes(i)' BY <1>1, <2>8 DEF StatusInv
  <2>14. protectionAction' => ~IsFilterDevice /\ Protected # {} BY <1>1 DEF StatusInv
  <2>15. \A n \in DOMAIN arrival' : n > Decided' => status'[arrival'[n]] = "ok" BY <1>1, <1>3, <2>11
  <2>16. StatusInv' BY <2>5, <2>9, <2>12, <2>13, <2>14, <2>15 DEF StatusInv
  <2> QED BY <1>3, <2>16
<1> QED BY <1>1, <1>4, <1>5

LEMMA OrderInsert ==
  ASSUME PipeInv, ArrivalInv, StatusInv, [Next]_vars, NEW i \in Irps, AddIrpInsert(i)
  PROVE  ArrivalInv' /\ StatusInv' /\ Decided' = Decided
<1>1. /\ UNCHANGED <<mIrp, op, status, protectionAction, pc>> /\ phase[i] = "granted"
      /\ phase' = [phase EXCEPT ![i] = "queued"]
      /\ mainQ' = Append(mainQ, i) /\ arrival' = Append(arrival, i)
  BY DEF AddIrpInsert, Advance, mainL, irps, flags
<1>2. /\ mainQ \in Seq(Irps) /\ Len(mainQ) \in Nat /\ arrival \in Seq(Irps) /\ Len(arrival) \in Nat
      /\ Decided \in Nat /\ Dequeued \in Int
  BY DEF PipeInv, PipeTypes, ArrivalInv, Dequeued
<1>3. Len(mainQ') = Len(mainQ) + 1 /\ Len(arrival') = Len(arrival) + 1 BY <1>1, <1>2
<1>4. Dequeued' = Dequeued /\ Waiting' = Waiting BY <1>1, <1>2, <1>3 DEF Dequeued, Waiting
<1>5. Decided' = Decided BY <1>4 DEF Decided
<1>6. /\ \A n \in 1 .. Len(arrival) : arrival'[n] = arrival[n]
      /\ arrival'[Len(arrival) + 1] = i
      /\ \A n \in 1 .. Len(mainQ) : mainQ'[n] = mainQ[n]
      /\ mainQ'[Len(mainQ) + 1] = i
  BY <1>1, <1>2
<1>7. /\ DOMAIN arrival' = 1 .. Len(arrival) + 1 /\ DOMAIN mainQ' = 1 .. Len(mainQ) + 1
      /\ DOMAIN arrival = 1 .. Len(arrival) /\ DOMAIN mainQ = 1 .. Len(mainQ)
  BY <1>1, <1>2, <1>3
<1>8. i \notin Elements(arrival) /\ status[i] = "ok" BY <1>1 DEF ArrivalInv, StatusInv, Taken
<1>9. /\ arrival' \in Seq(Irps) /\ Distinct(arrival') /\ Elements(arrival') = Elements(arrival) \cup {i}
  BY <1>1, <1>2, <1>8, ElementsAppend, DistinctAppend DEF ArrivalInv
<1>10. phase'[i] \in Taken /\ \A j \in Irps : j # i => phase'[j] = phase[j]
  BY <1>1 DEF PipeInv, PipeTypes, Taken
<1>11. \A j \in Irps : phase'[j] \notin Taken => j \notin Elements(arrival')
  BY <1>9, <1>10 DEF ArrivalInv
<1>12. \A n \in DOMAIN mainQ' : mainQ'[n] = arrival'[Dequeued' + n]
  <2> SUFFICES ASSUME NEW n \in 1 .. Len(mainQ) + 1 PROVE mainQ'[n] = arrival'[Dequeued + n]
    BY <1>4, <1>7
  <2>1. CASE n = Len(mainQ) + 1
    <3>1. Dequeued + n = Len(arrival) + 1 BY <1>2, <2>1 DEF Dequeued
    <3> QED BY <1>6, <2>1, <3>1
  <2>2. CASE n \in 1 .. Len(mainQ)
    <3>1. mainQ[n] = arrival[Dequeued + n] BY <1>7, <2>2 DEF ArrivalInv
    <3>2. Dequeued >= 0 BY <1>2 DEF Decided, Waiting
    <3>3. Dequeued + n \in 1 .. Len(arrival) BY <1>2, <2>2, <3>2 DEF Dequeued
    <3> QED BY <1>6, <2>2, <3>1, <3>3
  <2> QED BY <1>2, <2>1, <2>2
<1>13. pc'["main"] \in Early => arrival'[Dequeued'] = mIrp'
  <2> SUFFICES ASSUME pc["main"] \in Early PROVE arrival'[Dequeued] = mIrp BY <1>1, <1>4
  <2>1. arrival[Dequeued] = mIrp BY DEF ArrivalInv
  <2>2. Dequeued \in 1 .. Len(arrival) BY <1>2 DEF Decided, Waiting, Dequeued
  <2> QED BY <1>6, <2>1, <2>2
<1>14. ArrivalInv' BY <1>2, <1>5, <1>9, <1>11, <1>12, <1>13 DEF ArrivalInv
<1>15. \A j : Exposes(j)' <=> Exposes(j) BY <1>1 DEF Exposes
<1>16. \A j \in Irps : phase'[j] \notin Taken => status'[j] = "ok" BY <1>1, <1>10 DEF StatusInv
<1>17. \A n \in DOMAIN arrival' : n > Decided' => status'[arrival'[n]] = "ok"
  BY <1>1, <1>2, <1>5, <1>6, <1>7, <1>8 DEF StatusInv
<1>18. ASSUME NEW m \in DOMAIN arrival', NEW n \in DOMAIN arrival', m < n, n <= Decided',
              Exposes(arrival[m])', op'[arrival'[n]].write
       PROVE  status'[arrival'[n]] # "ok"
  <2>1. Decided <= Len(arrival) BY <1>2 DEF Decided, Dequeued, Waiting
  <2>2. m \in DOMAIN arrival /\ n \in DOMAIN arrival BY <1>2, <1>5, <1>7, <1>18, <2>1
  <2>3. arrival'[m] = arrival[m] /\ arrival'[n] = arrival[n] BY <1>6, <1>7, <2>2
  <2>4. Exposes(arrival[m]) BY <1>1, <1>18, <2>3 DEF Exposes
  <2>5. status[arrival[n]] # "ok" BY <1>1, <1>5, <1>18, <2>2, <2>3, <2>4 DEF StatusInv
  <2> QED BY <1>1, <2>3, <2>5
<1>19. StatusInv' BY <1>1, <1>15, <1>16, <1>17, <1>18 DEF StatusInv
<1> QED BY <1>5, <1>14, <1>19

LEMMA OrderRest ==
  ASSUME PipeInv, ArrivalInv, StatusInv, [Next]_vars,
         \/ HoldBegin \/ HoldStep \/ StopBegin \/ StopStep \/ CompletionThread \/ UNCHANGED vars
         \/ IoThread /\ ~(IoSkip \/ IoWrite \/ IoRead)
         \/ \E i \in Irps : CompleteIrpWorkItem(i) \/ (AddIrp(i) /\ ~AddIrpInsert(i))
  PROVE  ArrivalInv' /\ StatusInv' /\ Decided' = Decided
<1>1. pc = [t \in Threads |-> pc[t]] BY DEF PipeInv, PipeTypes
<1>2. UNCHANGED <<arrival, mainQ, mIrp, op, status, protectionAction>> /\ pc'["main"] = pc["main"]
  <2>1. CASE UNCHANGED vars BY <2>1 DEF vars, irps, queues, mainL, flags
  <2>2. CASE HoldBegin \/ HoldStep
    <3>1. UNCHANGED <<arrival, mainQ, mIrp, op, status, protectionAction>> /\ \E l : Goto("hold", l)
      BY <2>2, Zenon DEF HoldBegin, HoldStep, HoldCheck, HoldAwait, HoldGiveUp, HoldRecheck, HoldSuspend, HoldVerify,
         HoldUndo, HoldSettle, SetupRead, SetupWrite, SetupUndo, SetupAdvance, Resume, irps, queues, mainL, flags
    <3> QED BY <1>1, <3>1 DEF Goto, Threads
  <2>3. CASE StopBegin \/ StopStep
    <3>1. UNCHANGED <<arrival, mainQ, mIrp, op, status, protectionAction>> /\ \E l : Goto("stop", l)
      BY <2>3, Zenon DEF StopBegin, StopStep, StopCheck, StopAwait, StopRequestExit, StopWake, StopJoin,
         StopResetEvent, StopDrainCheck, StopFree, irps, queues, mainL, flags
    <3> QED BY <1>1, <3>1 DEF Goto, Threads
  <2>4. CASE CompletionThread
    <3>1. UNCHANGED <<arrival, mainQ, mIrp, op, status, protectionAction>> /\ \E l : Goto("comp", l)
      BY <2>4, Zenon DEF CompletionThread, CompWake, CompDequeue, CompDecrypt, HandleComplete, AwaitWorkItem,
         DispatchWorkItem, ReleaseRequest, irps, queues, mainL, flags
    <3> QED BY <1>1, <3>1 DEF Goto, Threads
  <2>5. CASE IoThread /\ ~(IoSkip \/ IoWrite \/ IoRead)
    <3>1. UNCHANGED <<arrival, mainQ, mIrp, op, status, protectionAction>> /\ \E l : Goto("io", l)
      BY <2>5, Zenon DEF IoThread, IoWake, IoDequeue, IoDecideReadAhead, IoEnqueue, IoBeginReadAhead, IoReadAhead,
         IoEndReadAhead, IoSignal, HandleComplete, AwaitWorkItem, DispatchWorkItem, ReleaseRequest,
         irps, queues, mainL, flags
    <3> QED BY <1>1, <3>1 DEF Goto, Threads
  <2>6. CASE \E i \in Irps : CompleteIrpWorkItem(i) \/ (AddIrp(i) /\ ~AddIrpInsert(i))
    BY <2>6, Zenon DEF AddIrp, AddIrpCount, AddIrpAccept, AddIrpReject, AddIrpRejectSignal, CompleteIrpWorkItem,
       WorkComplete, WorkSignal, WorkRetire, WorkReturn, WorkPost, WorkRelease, irps, queues, mainL, flags
  <2> QED BY <2>1, <2>2, <2>3, <2>4, <2>5, <2>6
<1> QED BY <1>2, TakenKept, ArrivalAside, StatusAside

LEMMA OrderKept == ASSUME PipeInv, ArrivalInv, StatusInv, [Next]_vars PROVE ArrivalInv' /\ StatusInv'
<1>1. CASE MainThread BY <1>1, OrderMain, OrderDequeue, OrderDecides DEF MainThread
<1>2. CASE \E i \in Irps : AddIrp(i) \/ CompleteIrpWorkItem(i) BY <1>2, OrderInsert, OrderRest
<1>3. CASE ~MainThread /\ ~(\E i \in Irps : AddIrp(i) \/ CompleteIrpWorkItem(i))
  BY <1>3, OrderServes, OrderRest DEF Next
<1> QED BY <1>1, <1>2, <1>3

\* The blocks an IRP addresses that the main thread accepts.
LEMMA InSpan ==
  ASSUME PipeInv, NEW i \in Irps, NEW k \in Nat \ {0}, k <= op[i].len
  PROVE  BlockOf(i, k) \in Span(op[i])
<1>1. op[i].off \in Int /\ op[i].len \in Nat BY OpTypes DEF PipeInv, PipeTypes
<1> QED BY <1>1 DEF BlockOf, Span

LEMMA TransfersArrive ==
  ASSUME PipeInv, [Next]_vars
  PROVE  /\ Transfers' \subseteq Transfers \/ MainQueueIo
         /\ MainQueueIo => Transfers' = Transfers \cup {[irp |-> mIrp, frag |-> mFrag, buf |-> mBuf, enc |-> mEnc]}
<1>1. ~MainQueueIo => Transfers' \subseteq Transfers BY TransfersMove
<1>2. ASSUME MainQueueIo
      PROVE  Transfers' = Transfers \cup {[irp |-> mIrp, frag |-> mFrag, buf |-> mBuf, enc |-> mEnc]}
  <2> DEFINE r == [irp |-> mIrp, frag |-> mFrag, buf |-> mBuf, enc |-> mEnc]
  <2>1. /\ UNCHANGED req /\ ioQ' = Append(ioQ, r) /\ pc["main"] = "fill"
        /\ \E l \in {"dequeue", "fragment"} : Goto("main", l)
    BY <1>2, Zenon DEF MainQueueIo
  <2>2. r \in Requests BY <2>1 DEF PipeInv, PipeTypes, Looping, Requests
  <2> HIDE DEF r
  <2>3. Elements(ioQ)' = Elements(ioQ) \cup {r} BY <2>1, <2>2, ElementsAppend DEF PipeInv, PipeTypes
  <2>4. pc'["io"] = pc["io"] BY <2>1 DEF Goto, Threads, PipeInv, PipeTypes
  <2>5. Transfers' = Transfers \cup {r} BY <2>1, <2>3, <2>4 DEF Transfers, ioReq
  <2> QED BY <2>5 DEF r
<1> QED BY <1>1, <1>2

\* The device is written by the I/O thread, and by the setup thread which puts
\* back what it read, under the cipher or not.
LEMMA DeviceKeeps ==
  ASSUME PipeInv, MediumInv, [Next]_vars, NEW b \in Blocks
  PROVE  \/ dev'[b].val = dev[b].val
         \/ IoWrite /\ b = ioBlock
<1>1. dev \in [Blocks -> Content] BY DEF MediumInv, DevInv
<1>2. CASE IoWrite
  <2>1. UNCHANGED dev \/ dev' = [dev EXCEPT ![ioBlock] = fragBuf[ioReq.buf]] BY <1>2 DEF IoWrite
  <2> QED BY <1>1, <1>2, <2>1
<1>3. CASE SetupWrite \/ SetupUndo
  <2>1. dev' = [dev EXCEPT ![hBlock] = Decrypt(hData)] \/ dev' = [dev EXCEPT ![hBlock] = hData]
    BY <1>3 DEF SetupWrite, SetupUndo
  <2>2. hData = dev[hBlock] /\ hBlock \in Blocks BY <1>3 DEF SetupWrite, SetupUndo, MediumInv, DevInv
  <2>3. Decrypt(hData).val = hData.val BY <1>1, <2>2 DEF Decrypt, Content
  <2> QED BY <1>1, <2>1, <2>2, <2>3
<1>4. CASE ~IoWrite /\ ~SetupWrite /\ ~SetupUndo
  <2>1. UNCHANGED dev
    <3>1. CASE MainThread
      BY <3>1, Zenon DEF MainThread, MainWake, MainDequeue, MainGate, MainResumed, MainGetItem, MainPoolFreed,
         MainFail, MainDeny, MainReadMisaligned, MainComplete, MainSignal, MainDrop, MainAccept, MainFragment,
         NextFragment, MainGetRequest, MainQueueIo, media
    <3>2. CASE IoThread \/ CompletionThread
      BY <1>4, <3>2, Zenon DEF IoThread, IoWake, IoDequeue, IoSkip, IoRead, IoServed, IoDecideReadAhead, IoEnqueue,
         IoBeginReadAhead, IoReadAhead, IoEndReadAhead, IoSignal, CompletionThread, CompWake, CompDequeue,
         CompDecrypt, HandleComplete, AwaitWorkItem, DispatchWorkItem, ReleaseRequest, media
    <3>3. CASE \E i \in Irps : AddIrp(i) \/ CompleteIrpWorkItem(i)
      BY <3>3, Zenon DEF AddIrp, AddIrpCount, AddIrpAccept, AddIrpReject, AddIrpRejectSignal, AddIrpInsert,
         CompleteIrpWorkItem, WorkComplete, WorkSignal, WorkRetire, WorkReturn, WorkPost, WorkRelease, media
    <3>4. CASE HoldBegin \/ HoldStep
      BY <1>4, <3>4, Zenon DEF HoldBegin, HoldStep, HoldCheck, HoldAwait, HoldGiveUp, HoldRecheck, HoldSuspend,
         HoldVerify, HoldUndo, HoldSettle, SetupRead, SetupAdvance, Resume, media
    <3>5. CASE StopBegin \/ StopStep
      BY <3>5, Zenon DEF StopBegin, StopStep, StopCheck, StopAwait, StopRequestExit, StopWake, StopJoin,
         StopResetEvent, StopDrainCheck, StopFree, media
    <3>6. CASE UNCHANGED vars BY <3>6 DEF vars, media
    <3> QED BY <3>1, <3>2, <3>3, <3>4, <3>5, <3>6 DEF Next
  <2> QED BY <2>1
<1> QED BY <1>2, <1>3, <1>4

LEMMA OpKept == ASSUME PipeInv, [Next]_vars PROVE UNCHANGED op
<1>1. CASE MainThread
  BY <1>1, Zenon DEF MainThread, MainWake, MainDequeue, MainGate, MainResumed, MainGetItem, MainPoolFreed,
     MainFail, MainDeny, MainReadMisaligned, MainComplete, MainSignal, MainDrop, MainAccept, MainFragment,
     NextFragment, MainGetRequest, MainQueueIo, irps
<1>2. CASE IoThread \/ CompletionThread
  BY <1>2, Zenon DEF IoThread, IoWake, IoDequeue, IoSkip, IoWrite, IoRead, IoServed, IoDecideReadAhead, IoEnqueue,
     IoBeginReadAhead, IoReadAhead, IoEndReadAhead, IoSignal, CompletionThread, CompWake, CompDequeue,
     CompDecrypt, HandleComplete, AwaitWorkItem, DispatchWorkItem, ReleaseRequest, irps
<1>3. CASE \E i \in Irps : AddIrp(i) \/ CompleteIrpWorkItem(i)
  BY <1>3, Zenon DEF AddIrp, AddIrpCount, AddIrpAccept, AddIrpReject, AddIrpRejectSignal, AddIrpInsert,
     CompleteIrpWorkItem, WorkComplete, WorkSignal, WorkRetire, WorkReturn, WorkPost, WorkRelease, irps
<1>4. CASE HoldBegin \/ HoldStep \/ StopBegin \/ StopStep BY <1>4, Outsiders DEF irps
<1>5. CASE UNCHANGED vars BY <1>5 DEF vars, irps
<1> QED BY <1>1, <1>2, <1>3, <1>4, <1>5 DEF Next

\* The main thread comes to the fragments of an IRP when it has accepted it.
LEMMA LoopEntered ==
  ASSUME PipeInv, [Next]_vars, pc'["main"] \in Looping
  PROVE  MainAccept \/ (pc["main"] \in Looping /\ UNCHANGED mIrp)
<1>1. pc = [t \in Threads |-> pc[t]] BY DEF PipeInv, PipeTypes
<1>2. CASE MainThread
  <2> USE DEF Goto, Threads, Looping
  <2>1. CASE MainFragment \/ MainGetRequest \/ MainPoolFreed
    BY <1>1, <2>1 DEF MainFragment, NextFragment, MainGetRequest, MainPoolFreed, mainL
  <2>2. CASE MainQueueIo
    <3>1. UNCHANGED mIrp /\ pc["main"] = "fill" BY <2>2 DEF MainQueueIo
    <3> QED BY <3>1
  <2>3. CASE MainWake \/ MainGate \/ MainResumed \/ MainGetItem \/ MainSignal \/ MainDrop
    <3>1. \E l \in {"dequeue", "held", "item", "itemWait", "check", "drop"} : Goto("main", l)
      BY <2>3 DEF MainWake, MainGate, MainResumed, MainGetItem, MainSignal, MainDrop
    <3> QED BY <1>1, <3>1
  <2>4. CASE MainFail \/ MainDeny \/ MainReadMisaligned
    <3>1. \E l \in {"signal", "drop"} : Goto("main", l)
      BY <2>4 DEF MainFail, MainDeny, MainReadMisaligned, MainComplete, AfterDecrement
    <3> QED BY <1>1, <3>1
  <2>5. CASE MainDequeue
    <3>1. \E l \in {"exit", "wait", "gate"} : Goto("main", l) BY <2>5 DEF MainDequeue
    <3> QED BY <1>1, <3>1
  <2> QED BY <1>2, <2>1, <2>2, <2>3, <2>4, <2>5 DEF MainThread
<1>3. CASE ~MainThread
  <2>1. UNCHANGED mIrp /\ (UNCHANGED pc \/ \E t \in {"io", "comp", "hold", "stop"} : \E l : Goto(t, l))
    <3>1. CASE IoThread \/ CompletionThread
      BY <3>1, Zenon DEF IoThread, IoWake, IoDequeue, IoSkip, IoWrite, IoRead, IoServed, IoDecideReadAhead,
         IoEnqueue, IoBeginReadAhead, IoReadAhead, IoEndReadAhead, IoSignal, CompletionThread, CompWake,
         CompDequeue, CompDecrypt, HandleComplete, AwaitWorkItem, DispatchWorkItem, ReleaseRequest, mainL
    <3>2. CASE \E i \in Irps : AddIrp(i) \/ CompleteIrpWorkItem(i)
      BY <3>2, Zenon DEF AddIrp, AddIrpCount, AddIrpAccept, AddIrpReject, AddIrpRejectSignal, AddIrpInsert,
         CompleteIrpWorkItem, WorkComplete, WorkSignal, WorkRetire, WorkReturn, WorkPost, WorkRelease, mainL
    <3>3. CASE HoldBegin \/ HoldStep
      BY <3>3, Zenon DEF HoldBegin, HoldStep, HoldCheck, HoldAwait, HoldGiveUp, HoldRecheck, HoldSuspend,
         HoldVerify, HoldUndo, HoldSettle, SetupRead, SetupWrite, SetupUndo, SetupAdvance, Resume, mainL
    <3>4. CASE StopBegin \/ StopStep
      BY <3>4, Zenon DEF StopBegin, StopStep, StopCheck, StopAwait, StopRequestExit, StopWake, StopJoin,
         StopResetEvent, StopDrainCheck, StopFree, mainL
    <3>5. CASE UNCHANGED vars BY <3>5 DEF vars, mainL
    <3> QED BY <1>3, <3>1, <3>2, <3>3, <3>4, <3>5 DEF Next
  <2> QED BY <1>1, <2>1 DEF Goto, Threads
<1> QED BY <1>2, <1>3

LEMMA SparedKept == ASSUME PipeInv, MediumInv, SparedInv, [Next]_vars PROVE SparedInv'
<1>1. UNCHANGED op BY OpKept
<1>2. ASSUME pc'["main"] \in Looping, op[mIrp'].write PROVE Span(op[mIrp']) \cap Protected = {}
  <2>1. CASE MainAccept
    <3>1. UNCHANGED mIrp /\ ~Denied(op[mIrp]) /\ ~Misaligned(op[mIrp]) BY <2>1 DEF MainAccept, NextFragment
    <3>2. ~HitsProtected(op[mIrp]) BY <3>1 DEF Denied
    <3> QED BY <1>2, <3>1, <3>2 DEF HitsProtected
  <2>2. CASE ~MainAccept
    <3>1. pc["main"] \in Looping /\ UNCHANGED mIrp BY <1>2, <2>2, LoopEntered
    <3> QED BY <1>2, <3>1 DEF SparedInv
  <2> QED BY <2>1, <2>2
<1>3. ASSUME NEW r \in Transfers', op[r.irp].write PROVE op[r.irp].off + r.frag - 1 \notin Protected
  <2>1. CASE r \in Transfers BY <1>3, <2>1 DEF SparedInv, BlockOf
  <2>2. CASE r \notin Transfers
    <3>1. MainQueueIo /\ r.irp = mIrp /\ r.frag = mFrag BY <1>3, <2>2, TransfersArrive
    <3>2. pc["main"] = "fill" BY <3>1 DEF MainQueueIo
    <3>3. mIrp \in Irps /\ mFrag \in Nat \ {0} /\ mFrag <= op[mIrp].len
      BY <3>2 DEF PipeInv, PipeTypes, MainPlace, Looping
    <3>4. BlockOf(mIrp, mFrag) \in Span(op[mIrp]) BY <3>3, InSpan
    <3>5. Span(op[mIrp]) \cap Protected = {} BY <1>3, <3>1, <3>2 DEF SparedInv, Looping
    <3> QED BY <3>1, <3>4, <3>5 DEF BlockOf
  <2> QED BY <2>1, <2>2
<1>4. ASSUME NEW b \in Protected PROVE dev'[b].val = Origin
  <2>1. b \in Blocks /\ dev[b].val = Origin BY OpsAssumption DEF SparedInv
  <2>2. CASE IoWrite /\ b = ioBlock
    <3>1. pc["io"] = "perform" /\ op[ioIrp].write BY <2>2 DEF IoWrite
    <3>2. ioReq \in Transfers BY <3>1 DEF Transfers
    <3>3. ioBlock \notin Protected BY <3>1, <3>2 DEF SparedInv, ioBlock, ioIrp
    <3> QED BY <2>2, <3>3
  <2> QED BY <2>1, <2>2, DeviceKeeps
<1> QED BY <1>1, <1>2, <1>3, <1>4 DEF SparedInv, BlockOf

LEMMA OrderInit == ASSUME Init PROVE ArrivalInv /\ StatusInv /\ SparedInv
<1>1. /\ mainQ = <<>> /\ arrival = <<>> /\ ioQ = <<>> /\ pc["io"] = "wait" /\ pc["main"] = "wait"
      /\ phase = [i \in Irps |-> "new"] /\ status = [i \in Irps |-> "ok"] /\ protectionAction = FALSE
      /\ dev = [b \in Blocks |-> [val |-> Origin, enc |-> Encrypted(b)]]
  BY DEF Init, Threads
<1>2. Waiting = 0 /\ Dequeued = 0 BY <1>1 DEF Waiting, Dequeued, Early
<1>3. ArrivalInv BY <1>1, <1>2, EmptyQueue DEF ArrivalInv, Decided, Early
<1>4. StatusInv BY <1>1 DEF StatusInv, Exposes, Taken
<1>5. Transfers = {} BY <1>1, EmptyQueue DEF Transfers
<1>6. \A b \in Protected : dev[b].val = Origin BY <1>1, OpsAssumption
<1>7. SparedInv BY <1>1, <1>5, <1>6 DEF SparedInv, Looping
<1> QED BY <1>3, <1>4, <1>7

LEMMA OrderMeans == ASSUME PipeInv, ArrivalInv, StatusInv, SparedInv PROVE ProtectionHolds
<1>1. \A b \in Protected : dev[b].val = Origin BY DEF SparedInv
<1>2. ASSUME NEW m \in DOMAIN arrival, NEW n \in DOMAIN arrival, m < n, phase[arrival[n]] = "done",
             status[arrival[m]] = "denied", TriggersProtection(op[arrival[m]]), op[arrival[n]].write
      PROVE  status[arrival[n]] # "ok"
  <2>1. Exposes(arrival[m]) BY <1>2 DEF Exposes
  <2>2. ~(n > Decided)
    <3> SUFFICES ASSUME n > Decided PROVE FALSE OBVIOUS
    <3>1. phase[arrival[n]] = "queued" BY Undecided DEF PipeInv, MainPlace
    <3> QED BY <1>2, <3>1
  <2>3. n \in Nat /\ Decided \in Nat BY DEF ArrivalInv
  <2>4. n <= Decided BY <2>2, <2>3
  <2> QED BY <1>2, <2>1, <2>4 DEF StatusInv
<1> QED BY <1>1, <1>2 DEF ProtectionHolds

\* The protected blocks keep what they held, and a write that arrived after one
\* that was denied to protect the hidden volume does not succeed, whatever is
\* still in the queues (MainThreadProc, bHiddenVolProtectionAction).
THEOREM HiddenVolumeProtected == Spec => []ProtectionHolds
<1> DEFINE Inv == PipeInv /\ OutstandingExact /\ HoldInv /\ BufInv /\ MediumInv
                 /\ ArrivalInv /\ StatusInv /\ SparedInv
<1>1. Init => Inv BY PipeInit, CountInit, HoldInit, BufInit, MediumInit, OrderInit
<1>2. Inv /\ [Next]_vars => Inv'
  BY PipeStep, CountStep, HoldKept, BufKept, MediumKept, OrderKept, SparedKept DEF HoldInv
<1>3. Inv => ProtectionHolds BY OrderMeans
<1> QED BY <1>1, <1>2, <1>3, PTL DEF Spec

(***************************************************************************)
(* The types.  Most variables keep theirs by the invariants above; here are *)
(* the labels, the flags and events, the locals of the threads, the work    *)
(* items, each of which is free, with a worker or on its way back, and the  *)
(* contents of buffers, whose requests lie on the device.                   *)
(***************************************************************************)
LabelsOf == [main |-> MainStates, io |-> IoStates, comp |-> CompStates, hold |-> HoldStates, stop |-> StopStates]
LabelInv == \A t \in Threads : pc[t] \in LabelsOf[t]
PhaseInv == \A i \in Irps : phase[i] \in Phases

LEMMA LabelsKeptBy ==
  ASSUME PipeInv, LabelInv, NEW t \in Threads, NEW l \in LabelsOf[t], Goto(t, l)
  PROVE  LabelInv'
BY DEF PipeInv, PipeTypes, LabelInv, Goto

LEMMA LabelsMain == ASSUME MainThread PROVE \E l \in LabelsOf["main"] : Goto("main", l)
<1>1. LabelsOf["main"] = MainStates BY DEF LabelsOf
<1>2. CASE MainWake \/ MainDequeue \/ MainGate \/ MainResumed \/ MainGetItem \/ MainPoolFreed \/ MainSignal \/ MainDrop
  BY <1>1, <1>2, Zenon DEF MainStates, MainWake, MainDequeue, MainGate, MainResumed, MainGetItem, MainPoolFreed, MainSignal, MainDrop
<1>3. CASE MainFail \/ MainDeny \/ MainReadMisaligned
  <2>1. Goto("main", AfterDecrement("drop")) BY <1>3 DEF MainFail, MainDeny, MainReadMisaligned, MainComplete
  <2> QED BY <1>1, <2>1 DEF AfterDecrement, MainStates
<1>4. CASE MainAccept \/ MainFragment \/ MainGetRequest \/ MainQueueIo
  BY <1>1, <1>4, Zenon DEF MainStates, MainAccept, MainFragment, MainGetRequest, MainQueueIo, NextFragment
<1> QED BY <1>2, <1>3, <1>4 DEF MainThread

LEMMA LabelsIo ==
  ASSUME IoThread \/ CompletionThread
  PROVE  \E t \in {"io", "comp"} : \E l \in LabelsOf[t] : Goto(t, l)
<1>1. LabelsOf["io"] = IoStates /\ LabelsOf["comp"] = CompStates BY DEF LabelsOf
<1>2. CASE IoWake \/ IoDequeue \/ IoDecideReadAhead \/ IoEnqueue \/ IoBeginReadAhead \/ IoReadAhead \/ IoEndReadAhead \/ IoSignal
  <2>1. \E l \in IoStates : Goto("io", l)
    BY <1>2, Zenon DEF IoStates, IoWake, IoDequeue, IoDecideReadAhead, IoEnqueue, IoBeginReadAhead, IoReadAhead,
       IoEndReadAhead, AfterDecrement, IoSignal
  <2> QED BY <1>1, <2>1
<1>3. CASE IoSkip \/ IoWrite \/ IoRead
  <2>1. \E l \in {"complete", "release", "enqueue", "decide"} : Goto("io", l)
    BY <1>3, Zenon DEF IoSkip, IoWrite, IoRead, IoServed, WriteDone
  <2> QED BY <1>1, <2>1 DEF IoStates
<1>4. CASE CompWake \/ CompDequeue \/ CompDecrypt
  <2>1. \E l \in CompStates : Goto("comp", l) BY <1>4, Zenon DEF CompStates, CompWake, CompDequeue, CompDecrypt
  <2> QED BY <1>1, <2>1
<1>5. CASE HandleComplete("io") \/ HandleComplete("comp")
  <2>1. PICK t \in {"io", "comp"} : HandleComplete(t) BY <1>5
  <2>2. \E l \in {"release", "dispatch", "dequeue"} : Goto(t, l)
    BY <2>1, Zenon DEF HandleComplete, AwaitWorkItem, DispatchWorkItem, ReleaseRequest
  <2>3. {"release", "dispatch", "dequeue"} \subseteq LabelsOf[t] BY <1>1 DEF IoStates, CompStates
  <2> QED BY <2>2, <2>3
<1> QED BY <1>2, <1>3, <1>4, <1>5 DEF IoThread, CompletionThread

LEMMA LabelsClients ==
  ASSUME HoldBegin \/ HoldStep \/ StopBegin \/ StopStep
  PROVE  \E t \in {"hold", "stop"} : \E l \in LabelsOf[t] : Goto(t, l)
<1>1. LabelsOf["hold"] = HoldStates /\ LabelsOf["stop"] = StopStates BY DEF LabelsOf
<1>2. CASE HoldBegin \/ HoldStep
  <2>1. \E l \in HoldStates : Goto("hold", l)
    BY <1>2, Zenon DEF HoldStates, HoldBegin, HoldStep, HoldCheck, HoldAwait, HoldGiveUp, HoldRecheck, HoldSuspend,
       HoldVerify, HoldUndo, HoldSettle, SetupRead, SetupWrite, SetupUndo, SetupAdvance, Resume
  <2> QED BY <1>1, <2>1
<1>3. CASE StopBegin \/ StopStep
  <2>1. CASE \E t \in {"main", "io", "comp"} : StopWake(t) \/ StopJoin(t)
    <3>1. PICK t \in {"main", "io", "comp"} : StopWake(t) \/ StopJoin(t) BY <2>1
    <3>2. Goto("stop", Joining[t]) \/ Goto("stop", NextStop[t]) BY <3>1 DEF StopWake, StopJoin
    <3>3. Joining[t] \in StopStates /\ NextStop[t] \in StopStates BY DEF Joining, NextStop, StopStates
    <3> QED BY <1>1, <3>2, <3>3
  <2>2. CASE ~\E t \in {"main", "io", "comp"} : StopWake(t) \/ StopJoin(t)
    <3>1. \E l \in StopStates : Goto("stop", l)
      BY <1>3, <2>2, Zenon DEF StopStates, StopBegin, StopStep, StopCheck, StopAwait, StopRequestExit,
         StopResetEvent, StopDrainCheck, StopFree
    <3> QED BY <1>1, <3>1
  <2> QED BY <2>1, <2>2
<1> QED BY <1>2, <1>3

LEMMA LabelKept == ASSUME PipeInv, LabelInv, [Next]_vars PROVE LabelInv'
<1>1. CASE UNCHANGED pc BY <1>1 DEF LabelInv
<1>2. CASE \E i \in Irps : AddIrp(i) \/ CompleteIrpWorkItem(i)
  <2>1. UNCHANGED pc
    BY <1>2, Zenon DEF AddIrp, AddIrpCount, AddIrpAccept, AddIrpReject, AddIrpRejectSignal, AddIrpInsert,
       CompleteIrpWorkItem, WorkComplete, WorkSignal, WorkRetire, WorkReturn, WorkPost, WorkRelease
  <2> QED BY <1>1, <2>1
<1>3. {"main", "io", "comp", "hold", "stop"} = Threads BY DEF Threads
<1>4. ASSUME \E t \in Threads : \E l \in LabelsOf[t] : Goto(t, l) PROVE LabelInv' BY <1>4, LabelsKeptBy
<1>5. CASE MainThread
  <2>1. "main" \in Threads BY <1>3
  <2> QED BY <1>4, <1>5, <2>1, LabelsMain
<1>6. CASE IoThread \/ CompletionThread
  <2>1. {"io", "comp"} \subseteq Threads BY <1>3
  <2> QED BY <1>4, <1>6, <2>1, LabelsIo
<1>7. CASE HoldBegin \/ HoldStep \/ StopBegin \/ StopStep
  <2>1. {"hold", "stop"} \subseteq Threads BY <1>3
  <2> QED BY <1>4, <1>7, <2>1, LabelsClients
<1>8. CASE UNCHANGED vars BY <1>1, <1>8 DEF vars
<1> QED BY <1>2, <1>5, <1>6, <1>7, <1>8 DEF Next

LEMMA PhaseKept == ASSUME PipeInv, PhaseInv, [Next]_vars PROVE PhaseInv'
<1>1. phase = [i \in Irps |-> phase[i]] BY DEF PipeInv, PipeTypes
<1>2. ASSUME NEW j, NEW p \in Phases, phase' = [phase EXCEPT ![j] = p] PROVE PhaseInv'
  BY <1>1, <1>2 DEF PhaseInv
<1>3. CASE UNCHANGED phase BY <1>3 DEF PhaseInv
<1>4. ASSUME NEW i \in Irps, AddIrp(i) \/ CompleteIrpWorkItem(i) PROVE \E p \in Phases : Advance(i, p)
  BY <1>4, Zenon DEF Phases, AddIrp, AddIrpCount, AddIrpAccept, AddIrpReject, AddIrpRejectSignal, AddIrpInsert,
     CompleteIrpWorkItem, WorkComplete, WorkSignal, WorkRetire, WorkReturn, WorkPost, WorkRelease, AfterDecrement
<1>5. CASE MainThread
  <2>1. UNCHANGED phase \/ phase' = [phase EXCEPT ![mIrp] = "done"]
    BY <1>5, Zenon DEF MainThread, MainWake, MainDequeue, MainGate, MainResumed, MainGetItem, MainPoolFreed, MainFail,
       MainDeny, MainReadMisaligned, MainComplete, MainSignal, MainDrop, MainAccept, MainFragment, NextFragment,
       MainGetRequest, MainQueueIo, Advance
  <2> QED BY <1>2, <1>3, <2>1 DEF Phases
<1>6. CASE IoThread \/ CompletionThread
  <2>1. UNCHANGED phase \/ \E t \in {"io", "comp"} : phase' = [phase EXCEPT ![req[t].irp] = "completing"]
    BY <1>6, Zenon DEF IoThread, IoWake, IoDequeue, IoSkip, IoWrite, IoRead, IoServed, IoDecideReadAhead, IoEnqueue,
       IoBeginReadAhead, IoReadAhead, IoEndReadAhead, IoSignal, CompletionThread, CompWake, CompDequeue, CompDecrypt,
       HandleComplete, AwaitWorkItem, DispatchWorkItem, ReleaseRequest, Advance
  <2> QED BY <1>2, <1>3, <2>1 DEF Phases
<1>7. CASE HoldBegin \/ HoldStep \/ StopBegin \/ StopStep BY <1>3, <1>7, Outsiders
<1>8. CASE UNCHANGED vars BY <1>3, <1>8 DEF vars
<1>9. ASSUME NEW i \in Irps, AddIrp(i) \/ CompleteIrpWorkItem(i) PROVE PhaseInv'
  BY <1>2, <1>4, <1>9 DEF Advance
<1> QED BY <1>5, <1>6, <1>7, <1>8, <1>9 DEF Next

FlagInv ==
  /\ suspendPending \in BOOLEAN /\ suspended \in BOOLEAN /\ stopPending \in BOOLEAN
  /\ exitRequested \in BOOLEAN /\ protectionAction \in BOOLEAN /\ freed \in BOOLEAN
  /\ ioPending \in Int /\ holds \in 0 .. MaxHolds
EvtInv == \A e \in Events \cup Buffers : evt[e] \in BOOLEAN

LEMMA FlagKept == ASSUME FlagInv, [Next]_vars PROVE FlagInv'
<1>1. CASE MainThread
  <2>1. UNCHANGED <<suspendPending, suspended, stopPending, exitRequested, freed, holds>>
    BY <1>1, Zenon DEF MainThread, MainWake, MainDequeue, MainGate, MainResumed, MainGetItem, MainPoolFreed,
       MainFail, MainDeny, MainReadMisaligned, MainComplete, MainSignal, MainDrop, MainAccept, MainFragment,
       NextFragment, MainGetRequest, MainQueueIo, flags, setup
  <2>2. UNCHANGED ioPending \/ ioPending' = ioPending + 1
    BY <1>1, Zenon DEF MainThread, MainWake, MainDequeue, MainGate, MainResumed, MainGetItem, MainPoolFreed,
       MainFail, MainDeny, MainReadMisaligned, MainComplete, MainSignal, MainDrop, MainAccept, MainFragment,
       NextFragment, MainGetRequest, MainQueueIo
  <2>3. UNCHANGED protectionAction \/ protectionAction' = (protectionAction \/ TriggersProtection(op[mIrp]))
    BY <1>1, Zenon DEF MainThread, MainWake, MainDequeue, MainGate, MainResumed, MainGetItem, MainPoolFreed,
       MainFail, MainDeny, MainReadMisaligned, MainComplete, MainSignal, MainDrop, MainAccept, MainFragment,
       NextFragment, MainGetRequest, MainQueueIo, flags
  <2>4. protectionAction' \in BOOLEAN BY <2>3 DEF FlagInv
  <2>5. ioPending' \in Int BY <2>2 DEF FlagInv
  <2> QED BY <2>1, <2>4, <2>5 DEF FlagInv
<1>2. CASE IoThread \/ CompletionThread
  <2>1. UNCHANGED <<suspendPending, suspended, stopPending, exitRequested, protectionAction, freed, holds>>
    BY <1>2, Zenon DEF IoThread, IoWake, IoDequeue, IoSkip, IoWrite, IoRead, IoServed, IoDecideReadAhead, IoEnqueue,
       IoBeginReadAhead, IoReadAhead, IoEndReadAhead, IoSignal, CompletionThread, CompWake, CompDequeue,
       CompDecrypt, HandleComplete, AwaitWorkItem, DispatchWorkItem, ReleaseRequest, flags, setup
  <2>2. UNCHANGED ioPending \/ ioPending' = ioPending - 1
    BY <1>2, Zenon DEF IoThread, IoWake, IoDequeue, IoSkip, IoWrite, IoRead, IoServed, IoDecideReadAhead, IoEnqueue,
       IoBeginReadAhead, IoReadAhead, IoEndReadAhead, IoSignal, CompletionThread, CompWake, CompDequeue,
       CompDecrypt, HandleComplete, AwaitWorkItem, DispatchWorkItem, ReleaseRequest
  <2>3. ioPending' \in Int BY <2>2 DEF FlagInv
  <2> QED BY <2>1, <2>3 DEF FlagInv
<1>3. CASE \E i \in Irps : AddIrp(i) \/ CompleteIrpWorkItem(i)
  <2>1. UNCHANGED <<suspendPending, suspended, stopPending, exitRequested, protectionAction, freed, ioPending, holds>>
    BY <1>3, Zenon DEF AddIrp, AddIrpCount, AddIrpAccept, AddIrpReject, AddIrpRejectSignal, AddIrpInsert,
       CompleteIrpWorkItem, WorkComplete, WorkSignal, WorkRetire, WorkReturn, WorkPost, WorkRelease, flags, setup
  <2> QED BY <2>1 DEF FlagInv
<1>4. CASE HoldBegin
  <2>1. /\ UNCHANGED <<suspended, stopPending, exitRequested, protectionAction, freed, ioPending>>
        /\ suspendPending' = TRUE /\ holds < MaxHolds /\ holds' = holds + 1
    BY <1>4 DEF HoldBegin
  <2>2. holds' \in 0 .. MaxHolds BY <2>1, CountsAssumption DEF FlagInv
  <2> QED BY <2>1, <2>2 DEF FlagInv
<1>5. CASE HoldStep
  <2>1. UNCHANGED <<stopPending, exitRequested, protectionAction, freed, ioPending, holds>>
    BY <1>5, Zenon DEF HoldStep, HoldCheck, HoldAwait, HoldGiveUp, HoldRecheck, HoldSuspend,
       HoldVerify, HoldUndo, HoldSettle, SetupRead, SetupWrite, SetupUndo, SetupAdvance, Resume, flags, setup
  <2>2. suspended' \in {suspended, TRUE, FALSE} /\ suspendPending' \in {suspendPending, FALSE}
    BY <1>5, Zenon DEF HoldStep, HoldCheck, HoldAwait, HoldGiveUp, HoldRecheck, HoldSuspend,
       HoldVerify, HoldUndo, HoldSettle, SetupRead, SetupWrite, SetupUndo, SetupAdvance, Resume, flags
  <2> QED BY <2>1, <2>2 DEF FlagInv
<1>6. CASE StopBegin \/ StopStep
  <2>1. /\ UNCHANGED <<suspendPending, suspended, protectionAction, ioPending, holds>>
        /\ stopPending' \in {stopPending, TRUE} /\ exitRequested' \in {exitRequested, TRUE}
        /\ freed' \in {freed, TRUE}
    BY <1>6, Zenon DEF StopBegin, StopStep, StopCheck, StopAwait, StopRequestExit, StopWake, StopJoin,
       StopResetEvent, StopDrainCheck, StopFree, flags, setup
  <2> QED BY <2>1 DEF FlagInv
<1>7. CASE UNCHANGED vars BY <1>7 DEF vars, flags, setup, FlagInv
<1> QED BY <1>1, <1>2, <1>3, <1>4, <1>5, <1>6, <1>7 DEF Next

\* An event is set or reset, or set when a condition holds.
LEMMA EvtSet ==
  ASSUME EvtTypes, EvtInv, NEW e, NEW b \in BOOLEAN, evt' = [evt EXCEPT ![e] = b] PROVE EvtInv'
BY Zenon DEF EvtTypes, EvtInv

LEMMA EvtSignal ==
  ASSUME EvtTypes, EvtInv, NEW e \in Events, NEW b \in BOOLEAN, evt' = [evt EXCEPT ![e] = @ \/ b] PROVE EvtInv'
<1>1. (evt[e] \/ b) \in BOOLEAN OBVIOUS
<1>2. evt' = [evt EXCEPT ![e] = (evt[e] \/ b)] OBVIOUS
<1> QED BY <1>1, <1>2, EvtSet

LEMMA EvtKept == ASSUME EvtTypes, EvtInv, FlagInv, [Next]_vars PROVE EvtInv'
<1>1. CASE UNCHANGED evt BY <1>1 DEF EvtInv
<1>2. CASE \E e : \E b \in BOOLEAN : evt' = [evt EXCEPT ![e] = b] BY <1>2, EvtSet
<1>3. CASE SignalIfPending
  <2>1. evt' = [evt EXCEPT !["noIo"] = @ \/ (suspendPending \/ stopPending)] BY <1>3 DEF SignalIfPending
  <2>2. (suspendPending \/ stopPending) \in BOOLEAN /\ "noIo" \in Events BY DEF Events
  <2> QED BY <2>1, <2>2, EvtSignal
<1> USE DEF Set, Await
<1>4. CASE MainThread
  <2>1. CASE MainQueueIo
    <3>1. evt' = [evt EXCEPT ![mBuf] = FALSE, !["ioQ"] = TRUE] BY <2>1, Zenon DEF MainQueueIo
    <3> QED BY <3>1, Zenon DEF EvtTypes, EvtInv
  <2>2. CASE ~MainQueueIo
    <3>1. UNCHANGED evt \/ SignalIfPending \/ \E e : \E b \in {TRUE, FALSE} : evt' = [evt EXCEPT ![e] = b]
      BY <1>4, <2>2, Zenon DEF MainThread, MainWake, MainDequeue, MainGate, MainResumed, MainGetItem, MainPoolFreed,
         MainFail, MainDeny, MainReadMisaligned, MainComplete, MainSignal, MainDrop, MainAccept, MainFragment,
         NextFragment, MainGetRequest
    <3> QED BY <1>1, <1>2, <1>3, <3>1
  <2> QED BY <2>1, <2>2
<1>5. CASE IoThread \/ CompletionThread
  <2>1. UNCHANGED evt \/ SignalIfPending \/ \E e : \E b \in {TRUE, FALSE} : evt' = [evt EXCEPT ![e] = b]
    BY <1>5, Zenon DEF IoThread, IoWake, IoDequeue, IoSkip, IoWrite, IoRead, IoServed, IoDecideReadAhead, IoEnqueue,
       IoBeginReadAhead, IoReadAhead, IoEndReadAhead, IoSignal, CompletionThread, CompWake, CompDequeue,
       CompDecrypt, HandleComplete, AwaitWorkItem, DispatchWorkItem, ReleaseRequest
  <2> QED BY <1>1, <1>2, <1>3, <2>1
<1>6. ASSUME NEW i \in Irps, AddIrp(i) \/ CompleteIrpWorkItem(i) PROVE EvtInv'
  <2>1. CASE WorkRetire(i)
    <3>1. evt' = [evt EXCEPT !["noActive"] = @ \/ activeWork = 1] BY <2>1 DEF WorkRetire
    <3>2. (activeWork = 1) \in BOOLEAN /\ "noActive" \in Events BY DEF Events
    <3> QED BY <3>1, <3>2, EvtSignal
  <2>2. CASE ~WorkRetire(i)
    <3>1. UNCHANGED evt \/ SignalIfPending \/ \E e : \E b \in {TRUE, FALSE} : evt' = [evt EXCEPT ![e] = b]
      BY <1>6, <2>2, Zenon DEF AddIrp, AddIrpCount, AddIrpAccept, AddIrpReject, AddIrpRejectSignal, AddIrpInsert,
         CompleteIrpWorkItem, WorkComplete, WorkSignal, WorkReturn, WorkPost, WorkRelease
    <3> QED BY <1>1, <1>2, <1>3, <3>1
  <2> QED BY <2>1, <2>2
<1>7. CASE HoldBegin \/ HoldStep
  <2>1. UNCHANGED evt \/ \E e : \E b \in {TRUE, FALSE} : evt' = [evt EXCEPT ![e] = b]
    BY <1>7, Zenon DEF HoldBegin, HoldStep, HoldCheck, HoldAwait, HoldGiveUp, HoldRecheck, HoldSuspend,
       HoldVerify, HoldUndo, HoldSettle, SetupRead, SetupWrite, SetupUndo, SetupAdvance, Resume
  <2> QED BY <1>1, <1>2, <2>1
<1>8. CASE StopBegin \/ StopStep
  <2>1. UNCHANGED evt \/ \E e : \E b \in {TRUE, FALSE} : evt' = [evt EXCEPT ![e] = b]
    BY <1>8, Zenon DEF StopBegin, StopStep, StopCheck, StopAwait, StopRequestExit, StopWake, StopJoin,
       StopResetEvent, StopDrainCheck, StopFree
  <2> QED BY <1>1, <1>2, <2>1
<1>9. CASE UNCHANGED vars BY <1>1, <1>9 DEF vars
<1> QED BY <1>4, <1>5, <1>6, <1>7, <1>8, <1>9 DEF Next

(***************************************************************************)
(* The locals of the threads.                                               *)
(***************************************************************************)
LocalInv ==
  /\ mIrp \in Irps \cup {NoIrp} /\ mFrag \in Nat /\ items \subseteq Irps
  /\ req["io"] \in Requests \cup {NoReq} /\ req["comp"] \in Requests \cup {NoReq}
  /\ pc["io"] \in Ahead => req["io"] \in Requests

LEMMA LocalMain == ASSUME PipeInv, LocalInv, MainThread PROVE LocalInv'
<1>1. pc = [t \in Threads |-> pc[t]] /\ mainQ \in Seq(Irps) BY DEF PipeInv, PipeTypes
<1>2. UNCHANGED req /\ \E l : Goto("main", l)
  BY Zenon DEF MainThread, MainWake, MainDequeue, MainGate, MainResumed, MainGetItem, MainPoolFreed, MainFail,
     MainDeny, MainReadMisaligned, MainComplete, MainSignal, MainDrop, MainAccept, MainFragment, NextFragment,
     MainGetRequest, MainQueueIo
<1>3. pc'["io"] = pc["io"] BY <1>1, <1>2 DEF Goto, Threads
<1>4. mIrp' \in Irps \cup {NoIrp}
  <2>1. CASE MainDequeue
    <3>1. CASE mainQ = <<>>
      <4>1. UNCHANGED mIrp BY <2>1, <3>1 DEF MainDequeue
      <4> QED BY <4>1 DEF LocalInv
    <3>2. CASE mainQ # <<>>
      <4>1. mIrp' = Head(mainQ) BY <2>1, <3>2, Zenon DEF MainDequeue
      <4> QED BY <1>1, <3>2, <4>1
    <3> QED BY <3>1, <3>2
  <2>2. CASE ~MainDequeue
    <3>1. UNCHANGED mIrp
      BY <2>2, Zenon DEF MainThread, MainWake, MainGate, MainResumed, MainGetItem, MainPoolFreed, MainFail,
         MainDeny, MainReadMisaligned, MainComplete, MainSignal, MainDrop, MainAccept, MainFragment, NextFragment,
         MainGetRequest, MainQueueIo, mainL
    <3> QED BY <3>1 DEF LocalInv
  <2> QED BY <2>1, <2>2
<1>5. mFrag' \in Nat
  <2>1. mFrag' \in {mFrag, mFrag + 1, 1}
    BY Zenon DEF MainThread, MainWake, MainDequeue, MainGate, MainResumed, MainGetItem, MainPoolFreed, MainFail,
       MainDeny, MainReadMisaligned, MainComplete, MainSignal, MainDrop, MainAccept, MainFragment, NextFragment,
       MainGetRequest, MainQueueIo, mainL
  <2> QED BY <2>1 DEF LocalInv
<1>6. items' \subseteq Irps
  <2>1. CASE MainGetItem
    <3>1. mIrp \in Irps /\ items' \subseteq items \cup {mIrp} BY <2>1 DEF MainGetItem, PipeInv, PipeTypes, Early
    <3> QED BY <3>1 DEF LocalInv
  <2>2. CASE ~MainGetItem
    <3>1. items' \subseteq items
      BY <2>2, Zenon DEF MainThread, MainWake, MainDequeue, MainGate, MainResumed, MainPoolFreed, MainFail,
         MainDeny, MainReadMisaligned, MainComplete, MainSignal, MainDrop, MainAccept, MainFragment, NextFragment,
         MainGetRequest, MainQueueIo, pools
    <3> QED BY <3>1 DEF LocalInv
  <2> QED BY <2>1, <2>2
<1> QED BY <1>2, <1>3, <1>4, <1>5, <1>6 DEF LocalInv

LEMMA LocalThreads == ASSUME PipeInv, LocalInv, IoThread \/ CompletionThread PROVE LocalInv'
<1>1. /\ pc = [t \in Threads |-> pc[t]] /\ req = [t \in {"io", "comp"} |-> req[t]]
      /\ ioQ \in Seq(Requests) /\ compQ \in Seq(Requests)
  BY DEF PipeInv, PipeTypes
<1>2. UNCHANGED <<mIrp, mFrag, items>>
  BY Zenon DEF IoThread, IoWake, IoDequeue, IoSkip, IoWrite, IoRead, IoServed, IoDecideReadAhead, IoEnqueue,
     IoBeginReadAhead, IoReadAhead, IoEndReadAhead, IoSignal, CompletionThread, CompWake, CompDequeue,
     CompDecrypt, HandleComplete, AwaitWorkItem, DispatchWorkItem, ReleaseRequest, mainL, pools
<1>3. CASE IoDequeue
  <2>1. CASE ioQ = <<>>
    <3>1. UNCHANGED req /\ pc'["io"] \notin Ahead BY <1>1, <1>3, <2>1 DEF IoDequeue, Goto, Threads, Ahead
    <3> QED BY <1>2, <3>1 DEF LocalInv
  <2>2. CASE ioQ # <<>>
    <3>1. Head(ioQ) \in Requests BY <1>1, <2>2
    <3>2. req' = [req EXCEPT !["io"] = Head(ioQ)] BY <1>3, <2>2 DEF IoDequeue
    <3>3. req'["io"] \in Requests /\ req'["comp"] = req["comp"] BY <1>1, <3>1, <3>2
    <3> QED BY <1>2, <3>3 DEF LocalInv
  <2> QED BY <2>1, <2>2
<1>4. CASE CompDequeue
  <2>1. pc'["io"] = pc["io"] BY <1>1, <1>4 DEF CompDequeue, Goto, Threads
  <2>2. CASE compQ = <<>>
    <3>1. UNCHANGED req BY <1>4, <2>2 DEF CompDequeue
    <3> QED BY <1>2, <2>1, <3>1 DEF LocalInv
  <2>3. CASE compQ # <<>>
    <3>1. Head(compQ) \in Requests BY <1>1, <2>3
    <3>2. req' = [req EXCEPT !["comp"] = Head(compQ)] BY <1>4, <2>3 DEF CompDequeue
    <3>3. req'["comp"] \in Requests /\ req'["io"] = req["io"] BY <1>1, <3>1, <3>2
    <3> QED BY <1>2, <2>1, <3>3 DEF LocalInv
  <2> QED BY <2>2, <2>3
<1>5. CASE ~IoDequeue /\ ~CompDequeue
  <2>1. UNCHANGED req
    BY <1>5, Zenon DEF IoThread, IoWake, IoSkip, IoWrite, IoRead, IoServed, IoDecideReadAhead, IoEnqueue,
       IoBeginReadAhead, IoReadAhead, IoEndReadAhead, IoSignal, CompletionThread, CompWake,
       CompDecrypt, HandleComplete, AwaitWorkItem, DispatchWorkItem, ReleaseRequest
  <2>2. pc'["io"] \in Ahead => pc["io"] \in Ahead \/ pc["io"] = "decide"
    <3>1. CASE IoDecideReadAhead BY <3>1 DEF IoDecideReadAhead
    <3>2. CASE IoEnqueue \/ IoBeginReadAhead \/ IoReadAhead
      <4>1. \/ pc["io"] \in Ahead
            \/ pc["io"] = "enqueue" /\ Goto("io", "dequeue")
        BY <3>2 DEF IoEnqueue, IoBeginReadAhead, IoReadAhead, Ahead
      <4> QED BY <1>1, <4>1 DEF Goto, Threads, Ahead
    <3>3. CASE IoWake \/ IoSkip \/ IoWrite \/ IoRead \/ IoEndReadAhead \/ IoSignal \/ HandleComplete("io")
      <4>1. \E l \in {"exit", "dequeue", "complete", "release", "enqueue", "decide", "dispatch", "signal"} : Goto("io", l)
        BY <3>3 DEF IoWake, IoSkip, IoWrite, IoRead, IoEndReadAhead, IoSignal, IoServed, WriteDone, AfterDecrement,
           HandleComplete, AwaitWorkItem, DispatchWorkItem, ReleaseRequest
      <4> QED BY <1>1, <4>1 DEF Goto, Threads, Ahead
    <3>4. CASE CompWake \/ CompDecrypt \/ HandleComplete("comp")
      <4>1. \E l : Goto("comp", l)
        BY <3>4 DEF CompWake, CompDecrypt, HandleComplete, AwaitWorkItem, DispatchWorkItem, ReleaseRequest
      <4> QED BY <1>1, <4>1 DEF Goto, Threads
    <3> QED BY <1>5, <3>1, <3>2, <3>3, <3>4 DEF IoThread, CompletionThread
  <2>3. pc["io"] = "decide" => req["io"] \in Requests BY HandFacts DEF Handling
  <2> QED BY <1>2, <2>1, <2>2, <2>3 DEF LocalInv
<1> QED BY <1>3, <1>4, <1>5

LEMMA LocalKept == ASSUME PipeInv, LocalInv, [Next]_vars PROVE LocalInv'
<1>1. CASE \E i \in Irps : AddIrp(i) \/ CompleteIrpWorkItem(i)
  <2>1. UNCHANGED <<pc, mIrp, mFrag, req>> /\ items' \subseteq items
    BY <1>1, Zenon DEF AddIrp, AddIrpCount, AddIrpAccept, AddIrpReject, AddIrpRejectSignal, AddIrpInsert,
       CompleteIrpWorkItem, WorkComplete, WorkSignal, WorkRetire, WorkReturn, WorkPost, WorkRelease, pools, mainL
  <2> QED BY <2>1 DEF LocalInv
<1>2. CASE HoldBegin \/ HoldStep \/ StopBegin \/ StopStep
  <2>1. UNCHANGED <<mIrp, mFrag, req, items>> /\ pc'["io"] = pc["io"] BY <1>2, Outsiders DEF mainL, pools
  <2> QED BY <2>1 DEF LocalInv
<1>3. CASE UNCHANGED vars BY <1>3 DEF vars, mainL, pools, LocalInv
<1> QED BY <1>1, <1>2, <1>3, LocalMain, LocalThreads DEF Next

(***************************************************************************)
(* A work item is in the free list, with a worker, or on its way back.      *)
(***************************************************************************)
Returning == {i \in Irps : phase[i] = "return"}
ItemsAccount == freeWork + Cardinality(WorkingIrps) + Cardinality(Returning) = MaxWorkItems

LEMMA ReturningCount == IsFiniteSet(Returning) /\ Cardinality(Returning) \in Nat
<1>1. IsFiniteSet(Returning) BY FS_Subset, OpsAssumption DEF Returning
<1> QED BY <1>1, FS_CardinalityType

\* An IRP goes from one phase to the next.
LEMMA AccountMoves ==
  ASSUME PipeInv, WorkTypes, ItemsAccount, NEW i \in Irps, NEW new, phase' = [phase EXCEPT ![i] = new],
         \/ /\ UNCHANGED freeWork /\ (phase[i] \in Working <=> new \in Working)
            /\ (phase[i] = "return" <=> new = "return")
         \/ freeWork' = freeWork - 1 /\ phase[i] = "queued" /\ new = "completing"
         \/ UNCHANGED freeWork /\ phase[i] = "retire" /\ new = "return"
         \/ freeWork' = freeWork + 1 /\ phase[i] = "return" /\ new = "post"
  PROVE  ItemsAccount'
<1>1. phase = [k \in Irps |-> phase[k]] BY DEF PipeInv, PipeTypes
<1>2. phase'[i] = new /\ \A k \in Irps : k # i => phase'[k] = phase[k] BY <1>1
<1>3. freeWork \in Int /\ Cardinality(WorkingIrps) \in Nat /\ Cardinality(Returning) \in Nat
  BY WorkingCount, ReturningCount DEF WorkTypes
<1>4. CASE /\ UNCHANGED freeWork /\ (phase[i] \in Working <=> new \in Working)
           /\ (phase[i] = "return" <=> new = "return")
  <2>1. WorkingIrps' = WorkingIrps BY <1>4, WorkingMoves
  <2>2. Returning' = Returning BY <1>2, <1>4 DEF Returning
  <2> QED BY <1>4, <2>1, <2>2, Zenon DEF ItemsAccount
<1>5. CASE freeWork' = freeWork - 1 /\ phase[i] = "queued" /\ new = "completing"
  <2>1. phase[i] \notin Working /\ new \in Working BY <1>5 DEF Working
  <2>2. Cardinality(WorkingIrps') = Cardinality(WorkingIrps) + 1 BY <2>1, WorkingMoves
  <2>3. Returning' = Returning BY <1>2, <1>5 DEF Returning
  <2>4. Cardinality(Returning') = Cardinality(Returning) BY <2>3, Zenon
  <2> QED BY <1>3, <1>5, <2>2, <2>4 DEF ItemsAccount
<1>6. CASE UNCHANGED freeWork /\ phase[i] = "retire" /\ new = "return"
  <2>1. phase[i] \in Working /\ new \notin Working BY <1>6 DEF Working
  <2>2. Cardinality(WorkingIrps') = Cardinality(WorkingIrps) - 1 BY <2>1, WorkingMoves
  <2>3. Returning' = Returning \cup {i} /\ i \notin Returning BY <1>2, <1>6 DEF Returning
  <2>4. Cardinality(Returning') = Cardinality(Returning) + 1 BY <2>3, ReturningCount, FS_AddElement
  <2> QED BY <1>3, <1>6, <2>2, <2>4 DEF ItemsAccount
<1>7. CASE freeWork' = freeWork + 1 /\ phase[i] = "return" /\ new = "post"
  <2>1. phase[i] \notin Working /\ new \notin Working BY <1>7 DEF Working
  <2>2. WorkingIrps' = WorkingIrps BY <2>1, WorkingMoves
  <2>3. Cardinality(WorkingIrps') = Cardinality(WorkingIrps) BY <2>2, Zenon
  <2>4. Returning' = Returning \ {i} /\ i \in Returning BY <1>2, <1>7 DEF Returning
  <2>5. Cardinality(Returning') = Cardinality(Returning) - 1 BY <2>4, ReturningCount, FS_RemoveElement
  <2> QED BY <1>3, <1>7, <2>3, <2>5 DEF ItemsAccount
<1> QED BY <1>4, <1>5, <1>6, <1>7

LEMMA AccountKept == ASSUME PipeInv, WorkTypes, ItemsAccount, [Next]_vars PROVE ItemsAccount'
<1>1. ASSUME UNCHANGED <<phase, freeWork>> PROVE ItemsAccount'
  <2>1. WorkingIrps' = WorkingIrps /\ Returning' = Returning BY <1>1 DEF WorkingIrps, Returning
  <2> QED BY <1>1, <2>1, Zenon DEF ItemsAccount
<1>2. CASE MainThread
  <2>1. UNCHANGED freeWork
    BY <1>2, Zenon DEF MainThread, MainWake, MainDequeue, MainGate, MainResumed, MainGetItem, MainPoolFreed, MainFail,
       MainDeny, MainReadMisaligned, MainSignal, MainDrop, MainAccept, MainFragment, NextFragment,
       MainGetRequest, MainQueueIo, work
  <2>2. CASE MainFail \/ MainDeny \/ MainReadMisaligned
    <3>1. pc["main"] = "check" /\ phase' = [phase EXCEPT ![mIrp] = "done"]
      BY <2>2 DEF MainFail, MainDeny, MainReadMisaligned, MainComplete, Advance
    <3>2. mIrp \in Irps /\ phase[mIrp] = "queued" BY <3>1 DEF PipeInv, PipeTypes, MainPlace, Early
    <3>3. phase[mIrp] \notin Working /\ "done" \notin Working BY <3>2 DEF Working
    <3> QED BY <2>1, <3>1, <3>2, <3>3, AccountMoves
  <2>3. CASE ~(MainFail \/ MainDeny \/ MainReadMisaligned)
    <3>1. UNCHANGED phase
      BY <1>2, <2>3, Zenon DEF MainThread, MainWake, MainDequeue, MainGate, MainResumed, MainGetItem, MainPoolFreed,
         MainSignal, MainDrop, MainAccept, MainFragment, NextFragment, MainGetRequest, MainQueueIo
    <3> QED BY <1>1, <2>1, <3>1
  <2> QED BY <2>2, <2>3
<1>3. CASE IoThread \/ CompletionThread
  <2>1. CASE DispatchWorkItem("io") \/ DispatchWorkItem("comp")
    <3>1. PICK t \in {"io", "comp"} : DispatchWorkItem(t) BY <2>1
    <3>2. /\ phase' = [phase EXCEPT ![req[t].irp] = "completing"] /\ freeWork' = freeWork - 1
          /\ pc[t] = "dispatch"
      BY <3>1 DEF DispatchWorkItem, Advance
    <3>3. req[t].irp \in Irps /\ phase[req[t].irp] = "queued"
      BY <3>2, HandFacts DEF PipeInv, Stations, Handling
    <3> QED BY <3>2, <3>3, AccountMoves
  <2>2. CASE ~(DispatchWorkItem("io") \/ DispatchWorkItem("comp"))
    <3>1. UNCHANGED <<phase, freeWork>>
      BY <1>3, <2>2, Zenon DEF IoThread, IoWake, IoDequeue, IoSkip, IoWrite, IoRead, IoServed, IoDecideReadAhead,
         IoEnqueue, IoBeginReadAhead, IoReadAhead, IoEndReadAhead, IoSignal, CompletionThread, CompWake, CompDequeue,
         CompDecrypt, HandleComplete, AwaitWorkItem, ReleaseRequest, work
    <3> QED BY <1>1, <3>1
  <2> QED BY <2>1, <2>2
<1>4. ASSUME NEW i \in Irps, AddIrp(i) PROVE ItemsAccount'
  <2>1. /\ UNCHANGED freeWork /\ phase[i] \in {"new", "counted", "granted", "rejecting"}
        /\ \E p \in {"counted", "granted", "rejecting", "rejected", "queued"} : phase' = [phase EXCEPT ![i] = p]
    BY <1>4, Zenon DEF AddIrp, AddIrpCount, AddIrpAccept, AddIrpReject, AddIrpRejectSignal, AddIrpInsert, Advance, work
  <2>2. PICK p \in {"counted", "granted", "rejecting", "rejected", "queued"} : phase' = [phase EXCEPT ![i] = p] BY <2>1
  <2>3. phase[i] \notin Working /\ p \notin Working /\ phase[i] # "return" /\ p # "return" BY <2>1 DEF Working
  <2> QED BY <2>1, <2>2, <2>3, AccountMoves
<1>5. ASSUME NEW i \in Irps, CompleteIrpWorkItem(i) PROVE ItemsAccount'
  <2>1. CASE WorkComplete(i) \/ WorkSignal(i)
    <3>1. /\ UNCHANGED freeWork /\ phase[i] \in {"completing", "signal"}
          /\ \E p \in {"retire", "signal"} : phase' = [phase EXCEPT ![i] = p]
      BY <2>1 DEF WorkComplete, WorkSignal, Advance, AfterDecrement, work
    <3>2. PICK p \in {"retire", "signal"} : phase' = [phase EXCEPT ![i] = p] BY <3>1
    <3>3. phase[i] \in Working /\ p \in Working /\ phase[i] # "return" /\ p # "return" BY <3>1 DEF Working
    <3> QED BY <3>1, <3>2, <3>3, AccountMoves
  <2>2. CASE WorkRetire(i)
    <3>1. UNCHANGED freeWork /\ phase[i] = "retire" /\ phase' = [phase EXCEPT ![i] = "return"]
      BY <2>2 DEF WorkRetire, Advance
    <3> QED BY <3>1, AccountMoves
  <2>3. CASE WorkReturn(i)
    <3>1. freeWork' = freeWork + 1 /\ phase[i] = "return" /\ phase' = [phase EXCEPT ![i] = "post"]
      BY <2>3 DEF WorkReturn, Advance
    <3> QED BY <3>1, AccountMoves
  <2>4. CASE WorkPost(i) \/ WorkRelease(i)
    <3>1. /\ UNCHANGED freeWork /\ phase[i] \in {"post", "release"}
          /\ \E p \in {"release", "done"} : phase' = [phase EXCEPT ![i] = p]
      BY <2>4 DEF WorkPost, WorkRelease, Advance, work
    <3>2. PICK p \in {"release", "done"} : phase' = [phase EXCEPT ![i] = p] BY <3>1
    <3>3. phase[i] \notin Working /\ p \notin Working /\ phase[i] # "return" /\ p # "return" BY <3>1 DEF Working
    <3> QED BY <3>1, <3>2, <3>3, AccountMoves
  <2> QED BY <1>5, <2>1, <2>2, <2>3, <2>4 DEF CompleteIrpWorkItem
<1>6. CASE HoldBegin \/ HoldStep \/ StopBegin \/ StopStep BY <1>1, <1>6, Outsiders DEF work
<1>7. CASE UNCHANGED vars BY <1>1, <1>7 DEF vars, work
<1> QED BY <1>2, <1>3, <1>4, <1>5, <1>6, <1>7 DEF Next

LEMMA AccountMeans ==
  ASSUME WorkInv, StopInv, ItemsAccount PROVE {sem, freeWork, activeWork} \subseteq 0 .. MaxWorkItems
<1>1. /\ Cardinality(WorkingIrps) \in Nat /\ Cardinality(Returning) \in Nat /\ Cardinality(Posting) \in Nat
  BY WorkingCount, ReturningCount, PostingFinite
<1>2. Dispatching("io") \in Nat /\ Dispatching("comp") \in Nat BY DEF Dispatching
<1>3. sem \in Nat /\ freeWork \in Int /\ activeWork = Cardinality(WorkingIrps) BY DEF WorkInv, WorkTypes, StopInv
<1>4. sem <= freeWork BY <1>1, <1>2, <1>3 DEF WorkInv, WorkAccount
<1>5. freeWork <= MaxWorkItems /\ activeWork <= MaxWorkItems /\ MaxWorkItems \in Nat
  BY <1>1, <1>3, <1>4, CountsAssumption DEF ItemsAccount
<1>6. sem \in 0 .. MaxWorkItems /\ freeWork \in 0 .. MaxWorkItems /\ activeWork \in 0 .. MaxWorkItems
  BY <1>1, <1>3, <1>4, <1>5
<1> QED BY <1>6

(***************************************************************************)
(* The contents of buffers.  What is transferred lies on the device: the    *)
(* main thread has turned away what reaches past its end.                   *)
(***************************************************************************)
Fits(i) == op[i].off + op[i].len <= DevLen
AddressInv ==
  /\ \A r \in Flight : Fits(r.irp)
  /\ pc["main"] \in Looping => Fits(mIrp)

LEMMA FitsBlock ==
  ASSUME PipeInv, NEW i \in Irps, Fits(i), NEW k \in 1 .. op[i].len PROVE BlockOf(i, k) \in Blocks
<1>1. op[i] \in Ops BY DEF PipeInv, PipeTypes
<1>2. op[i].off \in Nat /\ op[i].len \in Nat BY <1>1, OpsAssumption DEF Blocks
<1> QED BY <1>2, CountsAssumption DEF Fits, BlockOf, Blocks

LEMMA AddressAside ==
  ASSUME AddressInv, UNCHANGED op, Flight' \subseteq Flight,
         pc'["main"] \in Looping => pc["main"] \in Looping /\ UNCHANGED mIrp
  PROVE  AddressInv'
BY DEF AddressInv, Fits

\* What a thread or a queue has is what it had, unless the main thread queues a request.
LEMMA FlightShrinks ==
  ASSUME PipeInv, [Next]_vars, ~MainQueueIo PROVE Flight' \subseteq Flight
<1>1. CASE UNCHANGED <<ioQ, compQ, req>> /\ pc'["io"] = pc["io"] /\ pc'["comp"] = pc["comp"]
  BY <1>1, FlightKept
<1>2. pc = [t \in Threads |-> pc[t]] BY DEF PipeInv, PipeTypes
<1>3. CASE MainThread
  <2>1. UNCHANGED <<ioQ, compQ, req>> /\ \E l : Goto("main", l)
    BY <1>3, Zenon DEF MainThread, MainWake, MainDequeue, MainGate, MainResumed, MainGetItem, MainPoolFreed, MainFail,
       MainDeny, MainReadMisaligned, MainComplete, MainSignal, MainDrop, MainAccept, MainFragment, NextFragment,
       MainGetRequest, queues
  <2>2. pc'["io"] = pc["io"] /\ pc'["comp"] = pc["comp"] BY <1>2, <2>1 DEF Goto, Threads
  <2> QED BY <1>1, <2>1, <2>2
<1>4. CASE IoThread \/ CompletionThread
  <2>1. CASE ReleaseRequest("io") \/ ReleaseRequest("comp")
    <3>1. PICK t \in {"io", "comp"} : ReleaseRequest(t) BY <2>1
    <3> QED BY <3>1, OneOfEachFragment
  <2>2. CASE ~(ReleaseRequest("io") \/ ReleaseRequest("comp")) BY <1>4, <2>2, FlightStays
  <2> QED BY <2>1, <2>2
<1>5. CASE \E i \in Irps : AddIrp(i) \/ CompleteIrpWorkItem(i)
  <2>1. UNCHANGED <<ioQ, compQ, req, pc>>
    BY <1>5, Zenon DEF AddIrp, AddIrpCount, AddIrpAccept, AddIrpReject, AddIrpRejectSignal, AddIrpInsert,
       CompleteIrpWorkItem, WorkComplete, WorkSignal, WorkRetire, WorkReturn, WorkPost, WorkRelease, queues
  <2> QED BY <1>1, <2>1
<1>6. CASE HoldBegin \/ HoldStep \/ StopBegin \/ StopStep BY <1>1, <1>6, Outsiders DEF queues
<1>7. CASE UNCHANGED vars BY <1>1, <1>7 DEF vars, queues
<1> QED BY <1>3, <1>4, <1>5, <1>6, <1>7 DEF Next

LEMMA AddressKept == ASSUME PipeInv, AddressInv, [Next]_vars PROVE AddressInv'
<1>1. UNCHANGED op BY OpKept
<1>2. CASE MainAccept
  <2>1. pc["main"] = "check" /\ ~Denied(op[mIrp]) /\ ~Misaligned(op[mIrp]) /\ UNCHANGED mIrp
    BY <1>2 DEF MainAccept, NextFragment
  <2>2. op[mIrp] \in Ops BY <2>1 DEF PipeInv, PipeTypes, Early
  <2>3. op[mIrp].off \in Int /\ op[mIrp].len \in Int /\ DevLen \in Int BY <2>2, OpTypes, CountsAssumption
  <2>4. ~OutOfRange(op[mIrp]) BY <2>1 DEF Denied
  <2>5. IsFilterDevice => op[mIrp].off + op[mIrp].len <= DevLen BY <2>2, OpsAssumption
  <2>6. Fits(mIrp) BY <2>3, <2>4, <2>5 DEF Fits, OutOfRange
  <2>7. ~MainQueueIo BY <2>1 DEF MainQueueIo
  <2>8. Flight' \subseteq Flight BY <2>7, FlightShrinks
  <2> QED BY <1>1, <2>1, <2>6, <2>8 DEF AddressInv, Fits
<1>3. CASE MainQueueIo
  <2>1. pc["main"] \in Looping /\ UNCHANGED mIrp BY <1>3 DEF MainQueueIo, Looping
  <2>2. Flight' = Flight \cup {[irp |-> mIrp, frag |-> mFrag, buf |-> mBuf, enc |-> mEnc]}
    BY <1>3, FlightEnters
  <2>3. \A r \in Flight' : Fits(r.irp) BY <2>1, <2>2 DEF AddressInv
  <2> QED BY <1>1, <2>1, <2>3 DEF AddressInv, Fits
<1>4. CASE ~MainAccept /\ ~MainQueueIo
  <2>1. Flight' \subseteq Flight BY <1>4, FlightShrinks
  <2> QED BY <1>1, <1>4, <2>1, LoopEntered, AddressAside
<1> QED BY <1>2, <1>3, <1>4

SetupTypes == areaEnd \in 0 .. DevLen /\ hBlock \in Blocks /\ hData \in Content
AheadTypes ==
  /\ ra.off \in Nat /\ ra.data \in Content
  /\ pc["io"] = "aheadRead" => ra.off \in Blocks
BufferTypes == \A b \in Buffers : fragBuf[b] \in Content
ReadTypes == got \in [Irps -> Seq(Content)] /\ served \in [Irps -> Nat]

LEMMA SetupTyped == ASSUME PipeInv, DevInv, SetupTypes, [Next]_vars PROVE SetupTypes'
<1>1. dev \in [Blocks -> Content] BY DEF DevInv
<1>2. CASE SetupRead
  <2>1. UNCHANGED areaEnd /\ hBlock' \in Blocks /\ hData' = dev[hBlock'] BY <1>2 DEF SetupRead
  <2> QED BY <1>1, <2>1 DEF SetupTypes
<1>3. CASE SetupAdvance
  <2>1. UNCHANGED <<hBlock, hData>> /\ areaEnd' = NewAreaEnd /\ hBlock \in {areaEnd, areaEnd - 1} \cap Blocks
    BY <1>3 DEF SetupAdvance, DevInv
  <2>2. areaEnd \in Int /\ DevLen \in Nat /\ hBlock \in 0 .. DevLen - 1
    BY <2>1, CountsAssumption DEF DevInv, Blocks
  <2>3. areaEnd' \in 0 .. DevLen BY <2>1, <2>2 DEF NewAreaEnd
  <2> QED BY <2>1, <2>3 DEF SetupTypes
<1>4. CASE ~SetupRead /\ ~SetupAdvance
  <2>1. UNCHANGED <<areaEnd, hBlock, hData>>
    <3>1. CASE MainThread
      BY <3>1, Zenon DEF MainThread, MainWake, MainDequeue, MainGate, MainResumed, MainGetItem, MainPoolFreed,
         MainFail, MainDeny, MainReadMisaligned, MainComplete, MainSignal, MainDrop, MainAccept, MainFragment,
         NextFragment, MainGetRequest, MainQueueIo, setup
    <3>2. CASE IoThread \/ CompletionThread
      BY <3>2, Zenon DEF IoThread, IoWake, IoDequeue, IoSkip, IoWrite, IoRead, IoServed, IoDecideReadAhead,
         IoEnqueue, IoBeginReadAhead, IoReadAhead, IoEndReadAhead, IoSignal, CompletionThread, CompWake,
         CompDequeue, CompDecrypt, HandleComplete, AwaitWorkItem, DispatchWorkItem, ReleaseRequest, setup
    <3>3. CASE \E i \in Irps : AddIrp(i) \/ CompleteIrpWorkItem(i)
      BY <3>3, Zenon DEF AddIrp, AddIrpCount, AddIrpAccept, AddIrpReject, AddIrpRejectSignal, AddIrpInsert,
         CompleteIrpWorkItem, WorkComplete, WorkSignal, WorkRetire, WorkReturn, WorkPost, WorkRelease, setup
    <3>4. CASE HoldBegin \/ HoldStep
      BY <1>4, <3>4, Zenon DEF HoldBegin, HoldStep, HoldCheck, HoldAwait, HoldGiveUp, HoldRecheck, HoldSuspend,
         HoldVerify, HoldUndo, HoldSettle, SetupWrite, SetupUndo, Resume, setup
    <3>5. CASE StopBegin \/ StopStep
      BY <3>5, Zenon DEF StopBegin, StopStep, StopCheck, StopAwait, StopRequestExit, StopWake, StopJoin,
         StopResetEvent, StopDrainCheck, StopFree, setup
    <3>6. CASE UNCHANGED vars BY <3>6 DEF vars, setup
    <3> QED BY <3>1, <3>2, <3>3, <3>4, <3>5, <3>6 DEF Next
  <2> QED BY <2>1 DEF SetupTypes
<1> QED BY <1>2, <1>3, <1>4

\* The block a request is for.
LEMMA IoBlockIs ==
  ASSUME PipeInv, req["io"] \in Requests
  PROVE  ioBlock = op[ioIrp].off + ioReq.frag - 1 /\ ioBlock \in Nat /\ ioIrp \in Irps
<1>1. ioReq.irp \in Irps /\ ioReq.frag \in Nat \ {0} BY DEF ioReq, Requests
<1>2. op[ioReq.irp] \in Ops BY <1>1 DEF PipeInv, PipeTypes
<1>3. op[ioReq.irp].off \in Nat BY <1>2, OpsAssumption DEF Blocks
<1> QED BY <1>1, <1>3 DEF ioBlock, ioIrp, BlockOf

LEMMA AheadTyped == ASSUME PipeInv, LocalInv, MediumInv, AheadTypes, [Next]_vars PROVE AheadTypes'
<1>1. pc = [t \in Threads |-> pc[t]] BY DEF PipeInv, PipeTypes
<1>2. ra = [valid |-> ra.valid, off |-> ra.off, data |-> ra.data] BY DEF MediumInv, AheadInv
<1>3. dev \in [Blocks -> Content] BY DEF MediumInv, DevInv
<1>4. CASE IoBeginReadAhead
  <2>1. /\ ra' = [ra EXCEPT !.valid = FALSE, !.off = ioBlock + 1] /\ pc["io"] = "ahead"
        /\ Goto("io", IF ioBlock + 1 < DevLen THEN "aheadRead" ELSE "aheadDone")
    BY <1>4 DEF IoBeginReadAhead
  <2>2. req["io"] \in Requests BY <2>1 DEF LocalInv, Ahead
  <2>3. ioBlock + 1 \in Nat BY <2>2, IoBlockIs
  <2>4. ra'.off = ioBlock + 1 /\ ra'.data = ra.data BY <1>2, <2>1
  <2>5. pc'["io"] = "aheadRead" => ioBlock + 1 < DevLen BY <1>1, <2>1 DEF Goto, Threads
  <2>6. pc'["io"] = "aheadRead" => ioBlock + 1 \in Blocks BY <2>3, <2>5, CountsAssumption DEF Blocks
  <2> QED BY <2>3, <2>4, <2>6 DEF AheadTypes
<1>5. CASE IoReadAhead
  <2>1. /\ pc["io"] = "aheadRead" /\ Goto("io", "aheadDone")
        /\ UNCHANGED ra \/ ra' = [ra EXCEPT !.valid = TRUE, !.data = dev[ra.off]]
    BY <1>5 DEF IoReadAhead
  <2>2. ra'.off = ra.off /\ ra'.data \in {ra.data, dev[ra.off]} BY <1>2, <2>1
  <2>3. dev[ra.off] \in Content BY <1>3, <2>1 DEF AheadTypes
  <2>4. pc'["io"] # "aheadRead" BY <1>1, <2>1 DEF Goto, Threads
  <2> QED BY <2>2, <2>3, <2>4 DEF AheadTypes
<1>6. CASE IoSkip \/ IoWrite
  <2>1. /\ \E l \in {"complete", "release", "enqueue"} : Goto("io", l)
        /\ \E b : ra' = [ra EXCEPT !.valid = b]
    BY <1>6 DEF IoSkip, IoWrite, IoServed, WriteDone, ReadAheadAfterWrite
  <2>2. ra'.off = ra.off /\ ra'.data = ra.data BY <1>2, <2>1
  <2>3. pc'["io"] # "aheadRead" BY <1>1, <2>1 DEF Goto, Threads
  <2> QED BY <2>2, <2>3 DEF AheadTypes
<1>7. CASE HoldSettle
  <2>1. ra' = [ra EXCEPT !.valid = FALSE] /\ Goto("hold", "held") BY <1>7 DEF HoldSettle, ReadAheadWhenHeld
  <2>2. ra'.off = ra.off /\ ra'.data = ra.data BY <1>2, <2>1
  <2>3. pc'["io"] = pc["io"] BY <1>1, <2>1 DEF Goto, Threads
  <2> QED BY <2>2, <2>3 DEF AheadTypes
<1>8. ASSUME UNCHANGED ra, UNCHANGED pc \/ (\E t \in {"main", "comp", "hold", "stop"} : \E l : Goto(t, l))
                           \/ (\E l : l # "aheadRead" /\ Goto("io", l))
      PROVE  AheadTypes'
  <2>1. pc'["io"] = "aheadRead" => pc["io"] = "aheadRead" BY <1>1, <1>8 DEF Goto, Threads
  <2> QED BY <1>8, <2>1 DEF AheadTypes
<1>9. CASE MainThread
  BY <1>8, <1>9, Zenon DEF MainThread, MainWake, MainDequeue, MainGate, MainResumed, MainGetItem, MainPoolFreed,
     MainFail, MainDeny, MainReadMisaligned, MainComplete, MainSignal, MainDrop, MainAccept, MainFragment,
     NextFragment, MainGetRequest, MainQueueIo, media
<1>10. CASE IoThread \/ CompletionThread
  <2>1. CASE IoWake \/ IoDequeue \/ IoRead \/ IoDecideReadAhead \/ IoEnqueue \/ IoEndReadAhead \/ IoSignal
             \/ HandleComplete("io")
    <3>1. UNCHANGED ra
          /\ \E l \in {"exit", "wait", "dequeue", "perform", "decide", "enqueue", "enqueueAhead", "ahead", "signal",
                       "dispatch", "release"} : Goto("io", l)
      BY <2>1, Zenon DEF IoWake, IoDequeue, IoRead, IoServed, IoDecideReadAhead, IoEnqueue, IoEndReadAhead,
         AfterDecrement, IoSignal, HandleComplete, AwaitWorkItem, DispatchWorkItem, ReleaseRequest, media
    <3> QED BY <1>8, <3>1
  <2>2. CASE CompletionThread
    <3>1. UNCHANGED ra /\ \E l : Goto("comp", l)
      BY <2>2, Zenon DEF CompletionThread, CompWake, CompDequeue, CompDecrypt, HandleComplete, AwaitWorkItem,
         DispatchWorkItem, ReleaseRequest, media
    <3> QED BY <1>8, <3>1
  <2> QED BY <1>4, <1>5, <1>6, <1>10, <2>1, <2>2 DEF IoThread
<1>11. CASE \E i \in Irps : AddIrp(i) \/ CompleteIrpWorkItem(i)
  BY <1>8, <1>11, Zenon DEF AddIrp, AddIrpCount, AddIrpAccept, AddIrpReject, AddIrpRejectSignal, AddIrpInsert,
     CompleteIrpWorkItem, WorkComplete, WorkSignal, WorkRetire, WorkReturn, WorkPost, WorkRelease, media
<1>12. CASE HoldBegin \/ HoldStep
  <2>1. CASE ~HoldSettle
    <3>1. UNCHANGED ra /\ \E l : Goto("hold", l)
      BY <1>12, <2>1, Zenon DEF HoldBegin, HoldStep, HoldCheck, HoldAwait, HoldGiveUp, HoldRecheck, HoldSuspend,
         HoldVerify, HoldUndo, SetupRead, SetupWrite, SetupUndo, SetupAdvance, Resume, media
    <3> QED BY <1>8, <3>1
  <2> QED BY <1>7, <2>1
<1>13. CASE StopBegin \/ StopStep
  <2>1. UNCHANGED ra /\ \E l : Goto("stop", l)
    BY <1>13, Zenon DEF StopBegin, StopStep, StopCheck, StopAwait, StopRequestExit, StopWake, StopJoin,
       StopResetEvent, StopDrainCheck, StopFree, media
  <2> QED BY <1>8, <2>1
<1>14. CASE UNCHANGED vars BY <1>8, <1>14 DEF vars, media
<1> QED BY <1>9, <1>10, <1>11, <1>12, <1>13, <1>14 DEF Next

\* What a transfer reads is what a block or the read-ahead buffer holds.
LEMMA BlockRead ==
  ASSUME PipeInv, MediumInv, AddressInv, AheadTypes, pc["io"] = "perform"
  PROVE  /\ ioReq \in Requests /\ ioBlock \in Blocks /\ dev[ioBlock] \in Content
         /\ (IF ra.valid /\ ra.off = ioBlock THEN ra.data ELSE dev[ioBlock]) = dev[ioBlock]
<1>1. ioReq \in Flight /\ ioReq \in Requests BY HandFacts DEF Handling, ioReq
<1>2. ioReq.frag <= op[ioReq.irp].len BY <1>1 DEF PipeInv, Stations
<1>3. ioReq.irp \in Irps /\ Fits(ioReq.irp) /\ ioReq.frag \in Nat \ {0} BY <1>1 DEF AddressInv, Requests
<1>4. op[ioReq.irp].len \in Nat BY <1>3, OpTypes DEF PipeInv, PipeTypes
<1>5. ioReq.frag \in 1 .. op[ioReq.irp].len BY <1>2, <1>3, <1>4
<1>6. ioBlock \in Blocks BY <1>3, <1>5, FitsBlock DEF ioBlock, ioIrp
<1>7. dev[ioBlock] \in Content BY <1>6 DEF MediumInv, DevInv
<1>8. ra.valid => ra.data = dev[ra.off] BY DEF MediumInv, AheadInv, ReadAheadCoherent
<1> QED BY <1>1, <1>6, <1>7, <1>8

LEMMA BufferTyped ==
  ASSUME PipeInv, MediumInv, AddressInv, AheadTypes, BufferTypes, [Next]_vars PROVE BufferTypes'
<1>1. fragBuf = [b \in Buffers |-> fragBuf[b]] BY DEF MediumInv, FillShape
<1>2. CASE UNCHANGED fragBuf BY <1>2 DEF BufferTypes
<1>3. ASSUME NEW c \in Content, NEW b, fragBuf' = [fragBuf EXCEPT ![b] = c] PROVE BufferTypes'
  BY <1>1, <1>3 DEF BufferTypes
<1>4. CASE MainQueueIo
  <2>1. /\ pc["main"] = "fill"
        /\ UNCHANGED fragBuf \/ fragBuf' = [fragBuf EXCEPT ![mBuf] = [val |-> Fragment(mIrp, mFrag), enc |-> mEnc]]
    BY <1>4, Zenon DEF MainQueueIo
  <2>2. mIrp \in Irps /\ mFrag \in Nat /\ mEnc \in BOOLEAN BY <2>1 DEF PipeInv, PipeTypes, Looping
  <2>3. [val |-> Fragment(mIrp, mFrag), enc |-> mEnc] \in Content BY <2>2 DEF Content, Fragment, Writers
  <2> QED BY <1>2, <1>3, <2>1, <2>3
<1>5. CASE IoRead
  <2>1. /\ pc["io"] = "perform"
        /\ \/ UNCHANGED fragBuf
           \/ fragBuf' = [fragBuf EXCEPT ![ioReq.buf] = IF ra.valid /\ ra.off = ioBlock THEN ra.data ELSE dev[ioBlock]]
    BY <1>5 DEF IoRead
  <2> QED BY <1>2, <1>3, <2>1, BlockRead
<1>6. CASE ~MainQueueIo /\ ~IoRead
  <2>1. UNCHANGED fragBuf
    <3>1. CASE MainThread
      BY <1>6, <3>1, Zenon DEF MainThread, MainWake, MainDequeue, MainGate, MainResumed, MainGetItem, MainPoolFreed,
         MainFail, MainDeny, MainReadMisaligned, MainComplete, MainSignal, MainDrop, MainAccept, MainFragment,
         NextFragment, MainGetRequest, media
    <3>2. CASE IoThread \/ CompletionThread
      BY <1>6, <3>2, Zenon DEF IoThread, IoWake, IoDequeue, IoSkip, IoWrite, IoServed, IoDecideReadAhead, IoEnqueue,
         IoBeginReadAhead, IoReadAhead, IoEndReadAhead, IoSignal, CompletionThread, CompWake,
         CompDequeue, CompDecrypt, HandleComplete, AwaitWorkItem, DispatchWorkItem, ReleaseRequest, media
    <3>3. CASE \E i \in Irps : AddIrp(i) \/ CompleteIrpWorkItem(i)
      BY <3>3, Zenon DEF AddIrp, AddIrpCount, AddIrpAccept, AddIrpReject, AddIrpRejectSignal, AddIrpInsert,
         CompleteIrpWorkItem, WorkComplete, WorkSignal, WorkRetire, WorkReturn, WorkPost, WorkRelease, media
    <3>4. CASE HoldBegin \/ HoldStep
      BY <3>4, Zenon DEF HoldBegin, HoldStep, HoldCheck, HoldAwait, HoldGiveUp, HoldRecheck, HoldSuspend,
         HoldVerify, HoldUndo, HoldSettle, SetupRead, SetupWrite, SetupUndo, SetupAdvance, Resume, media
    <3>5. CASE StopBegin \/ StopStep
      BY <3>5, Zenon DEF StopBegin, StopStep, StopCheck, StopAwait, StopRequestExit, StopWake, StopJoin,
         StopResetEvent, StopDrainCheck, StopFree, media
    <3>6. CASE UNCHANGED vars BY <3>6 DEF vars, media
    <3> QED BY <3>1, <3>2, <3>3, <3>4, <3>5, <3>6 DEF Next
  <2> QED BY <1>2, <2>1
<1> QED BY <1>4, <1>5, <1>6

\* What was read, and what of it is decrypted in place.
LEMMA ReadTyped ==
  ASSUME PipeInv, MediumInv, AddressInv, AheadTypes, ReadTypes, [Next]_vars PROVE ReadTypes'
<1>1. got \in [Irps -> Seq(Content)] /\ served \in [Irps -> Nat] BY DEF ReadTypes
<1>2. CASE MainReadMisaligned
  <2> DEFINE all == [k \in 1 .. op[mIrp].len |->
                      LET b == BlockOf(mIrp, k) IN IF Encrypted(b) THEN Decrypt(dev[b]) ELSE dev[b]]
  <2>1. /\ pc["main"] = "check" /\ Misaligned(op[mIrp])
        /\ got' = [got EXCEPT ![mIrp] = all] /\ served' = [served EXCEPT ![mIrp] = op[mIrp].len]
    BY <1>2 DEF MainReadMisaligned
  <2>2. mIrp \in Irps /\ op[mIrp] \in Ops BY <2>1 DEF PipeInv, PipeTypes, Early
  <2>3. op[mIrp].len \in Nat /\ Fits(mIrp) BY <2>1, <2>2, OpsAssumption DEF Misaligned, Fits
  <2>4. \A k \in 1 .. op[mIrp].len : dev[BlockOf(mIrp, k)] \in Content
    BY <2>2, <2>3, FitsBlock DEF MediumInv, DevInv
  <2>5. all \in Seq(Content)
    <3>1. \A c \in Content : Decrypt(c) \in Content BY Ciphered
    <3>2. \A k \in 1 .. op[mIrp].len : all[k] \in Content BY <2>4, <3>1
    <3>3. all \in [1 .. op[mIrp].len -> Content] BY <3>2
    <3> HIDE DEF all
    <3> QED BY <2>3, <3>3, SeqDef
  <2> HIDE DEF all
  <2> QED BY <1>1, <2>1, <2>2, <2>3, <2>5 DEF ReadTypes
<1>3. CASE IoSkip \/ IoWrite \/ IoRead
  <2>1. pc["io"] = "perform" /\ served' = [served EXCEPT ![ioIrp] = @ + 1]
    BY <1>3 DEF IoSkip, IoWrite, IoRead, IoServed
  <2>2. ioIrp \in Irps /\ dev[ioBlock] \in Content BY <2>1, BlockRead DEF ioIrp, Requests
  <2>3. served' \in [Irps -> Nat] BY <1>1, <2>1, <2>2
  <2>4. UNCHANGED got \/ got' = [got EXCEPT ![ioIrp] = Append(@, IF ra.valid /\ ra.off = ioBlock THEN ra.data ELSE dev[ioBlock])]
    BY <1>3 DEF IoSkip, IoWrite, IoRead
  <2>5. UNCHANGED got \/ got' = [got EXCEPT ![ioIrp] = Append(@, dev[ioBlock])] BY <2>1, <2>4, BlockRead
  <2>6. Append(got[ioIrp], dev[ioBlock]) \in Seq(Content) BY <1>1, <2>2
  <2>7. got' \in [Irps -> Seq(Content)] BY <1>1, <2>2, <2>5, <2>6
  <2> QED BY <2>3, <2>7 DEF ReadTypes
<1>4. CASE CompDecrypt
  <2> DEFINE i == req["comp"].irp
             k == req["comp"].frag
  <2>1. UNCHANGED served /\ (UNCHANGED got \/ got' = [got EXCEPT ![i][k] = Decrypt(@)]) /\ pc["comp"] = "decrypt"
    BY <1>4, Zenon DEF CompDecrypt
  <2>2. i \in Irps BY <2>1, HandFacts DEF Handling
  <2> HIDE DEF i, k
  <2>3. got[i] \in Seq(Content) BY <1>1, <2>2
  <2>4. [got[i] EXCEPT ![k] = Decrypt(@)] \in Seq(Content)
    <3>1. \A c \in Content : Decrypt(c) \in Content BY Ciphered
    <3>2. \A n \in 1 .. Len(got[i]) : got[i][n] \in Content BY <2>3
    <3>3. CASE k \in 1 .. Len(got[i])
      <4>1. Decrypt(got[i][k]) \in Content BY <3>1, <3>2, <3>3
      <4> QED BY <2>3, <3>3, <4>1, ExceptSeq
    <3>4. CASE k \notin 1 .. Len(got[i])
      <4>1. [got[i] EXCEPT ![k] = Decrypt(@)] = got[i] BY <2>3, <3>4
      <4> QED BY <2>3, <4>1
    <3> QED BY <3>3, <3>4
  <2>5. got' = got \/ got' = [got EXCEPT ![i] = [got[i] EXCEPT ![k] = Decrypt(@)]] BY <2>1
  <2>6. got' \in [Irps -> Seq(Content)] BY <1>1, <2>2, <2>4, <2>5
  <2> QED BY <1>1, <2>1, <2>6 DEF ReadTypes
<1>5. CASE ~MainReadMisaligned /\ ~(IoSkip \/ IoWrite \/ IoRead) /\ ~CompDecrypt
  <2>1. UNCHANGED <<got, served>>
    <3>1. CASE MainThread
      BY <1>5, <3>1, Zenon DEF MainThread, MainWake, MainDequeue, MainGate, MainResumed, MainGetItem, MainPoolFreed,
         MainFail, MainDeny, MainComplete, MainSignal, MainDrop, MainAccept, MainFragment,
         NextFragment, MainGetRequest, MainQueueIo, irps
    <3>2. CASE IoThread \/ CompletionThread
      BY <1>5, <3>2, Zenon DEF IoThread, IoWake, IoDequeue, IoServed, IoDecideReadAhead, IoEnqueue,
         IoBeginReadAhead, IoReadAhead, IoEndReadAhead, IoSignal, CompletionThread, CompWake,
         CompDequeue, HandleComplete, AwaitWorkItem, DispatchWorkItem, ReleaseRequest, irps
    <3>3. CASE \E i \in Irps : AddIrp(i) \/ CompleteIrpWorkItem(i)
      BY <3>3, Zenon DEF AddIrp, AddIrpCount, AddIrpAccept, AddIrpReject, AddIrpRejectSignal, AddIrpInsert,
         CompleteIrpWorkItem, WorkComplete, WorkSignal, WorkRetire, WorkReturn, WorkPost, WorkRelease, irps
    <3>4. CASE HoldBegin \/ HoldStep \/ StopBegin \/ StopStep BY <3>4, Outsiders DEF irps
    <3>5. CASE UNCHANGED vars BY <3>5 DEF vars, irps
    <3> QED BY <3>1, <3>2, <3>3, <3>4, <3>5 DEF Next
  <2> QED BY <2>1 DEF ReadTypes
<1> QED BY <1>2, <1>3, <1>4, <1>5

TypesInv ==
  /\ LabelInv /\ PhaseInv /\ FlagInv /\ EvtInv /\ LocalInv /\ ItemsAccount /\ AddressInv
  /\ SetupTypes /\ AheadTypes /\ BufferTypes /\ ReadTypes

LEMMA TypesInit == ASSUME Init PROVE TypesInv
<1>1. LabelInv
  <2>1. pc = [t \in Threads |-> IF t \in {"hold", "stop"} THEN "idle" ELSE "wait"] BY DEF Init
  <2> QED BY <2>1 DEF LabelInv, LabelsOf, Threads, MainStates, IoStates, CompStates, HoldStates, StopStates
<1>2. phase = [i \in Irps |-> "new"] BY DEF Init
<1>3. PhaseInv BY <1>2 DEF PhaseInv, Phases
<1>4. FlagInv
  <2>1. /\ suspendPending = FALSE /\ suspended = FALSE /\ stopPending = FALSE
        /\ exitRequested = FALSE /\ protectionAction = FALSE /\ freed = FALSE
        /\ ioPending = 0 /\ holds = 0
    BY DEF Init
  <2>2. ioPending \in Int /\ holds \in 0 .. MaxHolds BY <2>1, CountsAssumption
  <2>3. /\ suspendPending \in BOOLEAN /\ suspended \in BOOLEAN /\ stopPending \in BOOLEAN
        /\ exitRequested \in BOOLEAN /\ protectionAction \in BOOLEAN /\ freed \in BOOLEAN
    BY <2>1, Zenon
  <2> QED BY <2>2, <2>3, Zenon DEF FlagInv
<1>5. EvtInv
  <2>1. evt = [e \in Events \cup Buffers |-> e \in Buffers] BY Zenon DEF Init
  <2> SUFFICES ASSUME NEW e \in Events \cup Buffers PROVE evt[e] \in BOOLEAN BY DEF EvtInv
  <2>2. evt[e] = (e \in Buffers) BY <2>1, Zenon
  <2>3. CASE e \in Buffers
    <3>1. evt[e] = TRUE BY <2>2, <2>3, Zenon
    <3> QED BY <3>1, Zenon
  <2>4. CASE e \notin Buffers
    <3>1. (e \in Buffers) = FALSE BY <2>4
    <3>2. evt[e] = FALSE BY <2>2, <3>1, Zenon
    <3> QED BY <3>2, Zenon
  <2> QED BY <2>3, <2>4, Zenon
<1>6. pc["io"] = "wait" /\ pc["main"] = "wait" BY DEF Init, Threads
<1>7. LocalInv BY <1>6 DEF Init, LocalInv, Ahead
<1>8. ItemsAccount
  <2>1. WorkingIrps = {} /\ Returning = {} BY <1>2 DEF WorkingIrps, Returning, Working
  <2>2. Cardinality(WorkingIrps) = 0 /\ Cardinality(Returning) = 0 BY <2>1, FS_EmptySet, Zenon
  <2>3. freeWork = MaxWorkItems /\ MaxWorkItems \in Nat BY CountsAssumption DEF Init
  <2> QED BY <2>2, <2>3 DEF ItemsAccount
<1>9. AddressInv
  <2>1. Flight = {}
    <3>1. /\ ioQ = <<>> /\ compQ = <<>>
          /\ pc = [t \in Threads |-> IF t \in {"hold", "stop"} THEN "idle" ELSE "wait"]
      BY DEF Init
    <3>2. pc["io"] = "wait" /\ pc["comp"] = "wait" BY <3>1 DEF Threads
    <3> QED BY <3>1, <3>2, EmptyQueue DEF Flight, IoHand, CompHand, IoHolds, CompHolds, Handling
  <2> QED BY <1>6, <2>1 DEF AddressInv, Looping
<1>10. [val |-> Origin, enc |-> FALSE] \in Content BY DEF Content, Writers, Origin
<1>11. SetupTypes
  <2>1. areaEnd \in 0 .. DevLen BY OpsAssumption DEF Init
  <2>2. 0 \in Blocks BY CountsAssumption DEF Blocks
  <2> QED BY <1>10, <2>1, <2>2 DEF Init, SetupTypes
<1>12. AheadTypes
  <2>1. ra = [valid |-> FALSE, off |-> 0, data |-> [val |-> Origin, enc |-> FALSE]] BY DEF Init
  <2> QED BY <1>6, <1>10, <2>1 DEF AheadTypes
<1>13. BufferTypes BY <1>10 DEF Init, BufferTypes
<1>14. ReadTypes BY DEF Init, ReadTypes
<1> QED BY <1>1, <1>3, <1>4, <1>5, <1>7, <1>8, <1>9, <1>11, <1>12, <1>13, <1>14 DEF TypesInv

LEMMA TypesKept ==
  ASSUME PipeInv, EvtTypes, WorkInv, MediumInv, TypesInv, [Next]_vars PROVE TypesInv'
<1>1. WorkTypes BY DEF WorkInv
<1>2. DevInv BY DEF MediumInv
<1>3. LabelInv' /\ PhaseInv' /\ FlagInv' BY LabelKept, PhaseKept, FlagKept DEF TypesInv
<1>4. EvtInv' /\ LocalInv' BY EvtKept, LocalKept DEF TypesInv
<1>5. ItemsAccount' /\ AddressInv' BY <1>1, AccountKept, AddressKept DEF TypesInv
<1>6. SetupTypes' /\ AheadTypes' BY <1>2, SetupTyped, AheadTyped DEF TypesInv
<1>7. BufferTypes' /\ ReadTypes' BY BufferTyped, ReadTyped DEF TypesInv
<1> QED BY <1>3, <1>4, <1>5, <1>6, <1>7 DEF TypesInv

LEMMA TypesMean ==
  ASSUME PipeInv, EvtTypes, PoolInv, StopInv, WorkInv, MediumInv, ArrivalInv, StatusInv, TypesInv PROVE TypeOK
<1>1. /\ outstanding \in Int /\ mainQ \in Seq(Irps) /\ ioQ \in Seq(Requests) /\ compQ \in Seq(Requests)
      /\ pc = [t \in Threads |-> pc[t]] /\ phase = [i \in Irps |-> phase[i]]
      /\ req = [t \in {"io", "comp"} |-> req[t]] /\ op \in [Irps -> Ops]
      /\ mBuf \in Buffers /\ mEnc \in BOOLEAN
  BY DEF PipeInv, PipeTypes
<1>2. evt \in [Events \cup Buffers -> BOOLEAN]
  <2>1. evt = [e \in Events \cup Buffers |-> evt[e]] BY DEF EvtTypes
  <2> QED BY <2>1, Zenon DEF TypesInv, EvtInv
<1>3. requests \in SUBSET (Irps \X Nat)
  <2>1. \A r \in Flight : <<r.irp, r.frag>> \in Irps \X Nat BY DEF PipeInv, PipeTypes, Requests
  <2>2. pc["main"] = "fill" => mIrp \in Irps /\ mFrag \in Nat BY DEF PipeInv, PipeTypes, Looping
  <2> QED BY <2>1, <2>2 DEF PoolInv, Claims, Filling
<1>4. {sem, freeWork, activeWork} \subseteq 0 .. MaxWorkItems BY AccountMeans DEF TypesInv
<1>5. pc \in [Threads -> MainStates \cup IoStates \cup CompStates \cup HoldStates \cup StopStates]
  <2>1. \A t \in Threads : pc[t] \in MainStates \cup IoStates \cup CompStates \cup HoldStates \cup StopStates
    BY Zenon DEF TypesInv, LabelInv, LabelsOf, Threads
  <2> QED BY <1>1, <2>1
<1>6. req \in [{"io", "comp"} -> Requests \cup {NoReq}] BY <1>1 DEF TypesInv, LocalInv
<1>7. fragBuf \in [Buffers -> Content] /\ dev \in [Blocks -> Content]
  <2>1. fragBuf = [b \in Buffers |-> fragBuf[b]] BY DEF MediumInv, FillShape
  <2> QED BY <2>1 DEF TypesInv, BufferTypes, MediumInv, DevInv
<1>8. ra \in [valid : BOOLEAN, off : Nat, data : Content]
  <2>1. ra = [valid |-> ra.valid, off |-> ra.off, data |-> ra.data] /\ ra.valid \in BOOLEAN
    BY DEF MediumInv, AheadInv
  <2> QED BY <2>1 DEF TypesInv, AheadTypes
<1>9. phase \in [Irps -> Phases] BY <1>1 DEF TypesInv, PhaseInv
<1>10. status \in [Irps -> {"ok", "error", "denied"}] /\ arrival \in Seq(Irps) BY DEF StatusInv, ArrivalInv
<1>11. /\ ioPending \in Int /\ holds \in 0 .. MaxHolds
       /\ {suspendPending, suspended, stopPending, exitRequested, protectionAction, freed} \subseteq BOOLEAN
  BY Zenon DEF TypesInv, FlagInv
<1>12. mIrp \in Irps \cup {NoIrp} /\ mFrag \in Nat /\ items \in SUBSET Irps BY DEF TypesInv, LocalInv
<1>13. areaEnd \in 0 .. DevLen /\ hBlock \in Blocks /\ hData \in Content BY DEF TypesInv, SetupTypes
<1>14. got \in [Irps -> Seq(Content)] /\ served \in [Irps -> Nat] BY DEF TypesInv, ReadTypes
<1> QED
  BY <1>1, <1>2, <1>3, <1>4, <1>5, <1>6, <1>7, <1>8, <1>9, <1>10, <1>11, <1>12, <1>13, <1>14, Zenon DEF TypeOK

\* Every variable of the queue keeps its type; in particular the semaphore, the
\* free list and the number of work items under way stay within the items that
\* EncryptedIoQueueStart allocated, and what is read or written lies on the device.
THEOREM TypesHold == Spec => []TypeOK
<1> DEFINE Inv == PipeInv /\ OutstandingExact /\ HoldInv /\ BufInv /\ MediumInv /\ WorkInv
                 /\ PoolInv /\ StopInv /\ ArrivalInv /\ StatusInv /\ TypesInv
<1>1. Init => Inv
  BY PipeInit, CountInit, HoldInit, BufInit, MediumInit, WorkInit, PoolInit, StopInit, OrderInit, TypesInit
<1>2. Inv /\ [Next]_vars => Inv'
  BY PipeStep, CountStep, HoldKept, BufKept, MediumKept, WorkKept, PoolKept, StopKept, OrderKept, TypesKept DEF HoldInv
<1>3. Inv => TypeOK BY TypesMean DEF HoldInv
<1> QED BY <1>1, <1>2, <1>3, PTL DEF Spec

(***************************************************************************)
(* The order of service.  The fragments of an IRP are handed to the I/O     *)
(* thread one after the other and served in that order, and those of an     *)
(* earlier arrival before those of a later one.                             *)
(***************************************************************************)
Deciding == MainAccept \/ MainFail \/ MainDeny \/ MainReadMisaligned

LEMMA DecidedMoves ==
  ASSUME PipeInv, ArrivalInv, StatusInv, [Next]_vars
  PROVE  /\ ~Deciding => Decided' = Decided
         /\ Deciding => Decided' = Decided + 1 /\ arrival'[Decided'] = mIrp'
<1>1. CASE MainThread BY <1>1, OrderMain, OrderDequeue, OrderDecides DEF MainThread, Deciding
<1>2. CASE ~MainThread
  <2>1. ~Deciding BY <1>2 DEF MainThread, Deciding
  <2>2. CASE \E i \in Irps : AddIrp(i) \/ CompleteIrpWorkItem(i) BY <2>1, <2>2, OrderInsert, OrderRest
  <2>3. CASE ~(\E i \in Irps : AddIrp(i) \/ CompleteIrpWorkItem(i))
    BY <1>2, <2>1, <2>3, OrderServes, OrderRest DEF Next
  <2> QED BY <2>2, <2>3
<1> QED BY <1>1, <1>2

\* The phases of an IRP: taken up by its insertion in the main queue, answered
\* for good by the main thread or a work item.
LEMMA PhasesMove ==
  ASSUME PipeInv, [Next]_vars, NEW i \in Irps
  PROVE  /\ phase[i] \in Taken => phase'[i] \in Taken
         /\ phase'[i] \in Taken /\ ~AddIrpInsert(i) => phase[i] \in Taken
         /\ Answered(i) => Answered(i)'
         /\ Answered(i)' => Answered(i) \/ WorkComplete(i) \/ (i = mIrp /\ (MainFail \/ MainDeny \/ MainReadMisaligned))
<1>1. phase = [j \in Irps |-> phase[j]] BY DEF PipeInv, PipeTypes
<1>2. CASE UNCHANGED vars BY <1>2 DEF vars, Answered
<1>3. CASE HoldBegin \/ HoldStep \/ StopBegin \/ StopStep BY <1>3, Outsiders DEF Answered
<1>4. ASSUME NEW j \in Irps, AddIrp(j)
      PROVE  /\ phase[i] \in Taken => phase'[i] \in Taken
             /\ phase'[i] \in Taken /\ ~AddIrpInsert(i) => phase[i] \in Taken
             /\ Answered(i) <=> Answered(i)'
  <2>1. CASE AddIrpInsert(j) BY <1>1, <2>1 DEF AddIrpInsert, Advance, Taken, Answered
  <2>2. CASE AddIrpCount(j) \/ AddIrpAccept(j) \/ AddIrpReject(j) \/ AddIrpRejectSignal(j)
    BY <1>1, <2>2 DEF AddIrpCount, AddIrpAccept, AddIrpReject, AddIrpRejectSignal, Advance, Taken, Answered
  <2> QED BY <1>4, <2>1, <2>2 DEF AddIrp
<1>5. ASSUME NEW j \in Irps, CompleteIrpWorkItem(j)
      PROVE  /\ phase[i] \in Taken <=> phase'[i] \in Taken
             /\ (Answered(i) => Answered(i)') /\ (Answered(i)' => Answered(i) \/ WorkComplete(i))
  <2>1. CASE WorkComplete(j)
    <3>1. phase[j] = "completing" /\ \E p \in {"signal", "retire"} : phase' = [phase EXCEPT ![j] = p]
      BY <2>1 DEF WorkComplete, Advance, AfterDecrement
    <3> QED BY <1>1, <2>1, <3>1 DEF Taken, Answered
  <2>2. CASE WorkSignal(j) \/ WorkRetire(j) \/ WorkReturn(j) \/ WorkPost(j) \/ WorkRelease(j)
    BY <1>1, <2>2 DEF WorkSignal, WorkRetire, WorkReturn, WorkPost, WorkRelease, Advance, Taken, Answered
  <2> QED BY <1>5, <2>1, <2>2 DEF CompleteIrpWorkItem
<1>6. CASE MainThread
  <2>1. CASE MainFail \/ MainDeny \/ MainReadMisaligned
    <3>1. phase' = [phase EXCEPT ![mIrp] = "done"] /\ pc["main"] = "check"
      BY <2>1 DEF MainFail, MainDeny, MainReadMisaligned, MainComplete, Advance
    <3>2. phase[mIrp] = "queued" BY <3>1 DEF PipeInv, MainPlace, Early
    <3> QED BY <1>1, <2>1, <3>1, <3>2 DEF Taken, Answered
  <2>2. CASE ~(MainFail \/ MainDeny \/ MainReadMisaligned)
    <3>1. UNCHANGED phase
      BY <1>6, <2>2, Zenon DEF MainThread, MainWake, MainDequeue, MainGate, MainResumed, MainGetItem, MainPoolFreed,
         MainSignal, MainDrop, MainAccept, MainFragment, NextFragment, MainGetRequest, MainQueueIo
    <3> QED BY <3>1 DEF Answered
  <2> QED BY <2>1, <2>2
<1>7. CASE IoThread \/ CompletionThread
  <2>1. UNCHANGED phase \/ \E t \in {"io", "comp"} : pc[t] = "dispatch" /\ phase' = [phase EXCEPT ![req[t].irp] = "completing"]
    BY <1>7, Zenon DEF IoThread, IoWake, IoDequeue, IoSkip, IoWrite, IoRead, IoServed, IoDecideReadAhead, IoEnqueue,
       IoBeginReadAhead, IoReadAhead, IoEndReadAhead, IoSignal, CompletionThread, CompWake, CompDequeue, CompDecrypt,
       HandleComplete, AwaitWorkItem, DispatchWorkItem, ReleaseRequest, Advance
  <2>2. \A t \in {"io", "comp"} : pc[t] = "dispatch" => phase[req[t].irp] = "queued"
    BY DEF PipeInv, Stations, Handling
  <2>3. CASE UNCHANGED phase BY <2>3 DEF Answered
  <2>4. ASSUME NEW t \in {"io", "comp"}, pc[t] = "dispatch", phase' = [phase EXCEPT ![req[t].irp] = "completing"]
        PROVE  (phase'[i] \in Taken <=> phase[i] \in Taken) /\ (Answered(i)' <=> Answered(i))
    <3>1. phase[req[t].irp] = "queued" BY <2>2, <2>4
    <3> QED BY <1>1, <2>4, <3>1 DEF Taken, Answered
  <2> QED BY <2>1, <2>3, <2>4
<1>8. CASE \E j \in Irps : AddIrp(j) \/ CompleteIrpWorkItem(j) BY <1>4, <1>5, <1>8
<1> QED BY <1>2, <1>3, <1>6, <1>7, <1>8 DEF Next

\* How many fragments of an IRP the main thread has handed to the I/O thread.
AtMain(i) == pc["main"] \in Early /\ mIrp = i
InLoop(i) == pc["main"] \in Looping /\ mIrp = i
Untouched(i) == phase[i] \notin Taken \/ i \in Elements(mainQ) \/ AtMain(i)
Handed(i) == IF Untouched(i) THEN 0 ELSE IF InLoop(i) THEN mFrag - 1 ELSE op[i].len

\* The other steps of the main thread leave an IRP where it is.
LEMMA LoopKept ==
  ASSUME PipeInv, [Next]_vars, ~MainDequeue, ~Deciding, ~MainQueueIo
  PROVE  /\ UNCHANGED <<mIrp, mFrag>>
         /\ (pc'["main"] \in Early <=> pc["main"] \in Early) /\ (pc'["main"] \in Looping <=> pc["main"] \in Looping)
         /\ UNCHANGED mainQ \/ \E i \in Irps : AddIrpInsert(i)
<1>1. pc = [t \in Threads |-> pc[t]] BY DEF PipeInv, PipeTypes
<1>2. CASE MainThread
  <2> USE DEF Goto, Early, Looping, Threads
  <2>1. CASE MainWake BY <1>1, <2>1 DEF MainWake, mainL, queues
  <2>2. CASE MainGate BY <1>1, <2>2 DEF MainGate, mainL, queues
  <2>3. CASE MainResumed BY <1>1, <2>3 DEF MainResumed, mainL, queues
  <2>4. CASE MainGetItem BY <1>1, <2>4 DEF MainGetItem, mainL, queues
  <2>5. CASE MainPoolFreed BY <1>1, <2>5 DEF MainPoolFreed, mainL, queues
  <2>6. CASE MainSignal BY <1>1, <2>6 DEF MainSignal, mainL, queues
  <2>7. CASE MainDrop BY <1>1, <2>7 DEF MainDrop, mainL, queues
  <2>8. CASE MainFragment BY <1>1, <2>8 DEF MainFragment, NextFragment, queues
  <2>9. CASE MainGetRequest BY <1>1, <2>9 DEF MainGetRequest, queues
  <2> QED BY <1>2, <2>1, <2>2, <2>3, <2>4, <2>5, <2>6, <2>7, <2>8, <2>9 DEF MainThread, Deciding
<1>3. CASE ~MainThread
  <2>1. /\ UNCHANGED <<mIrp, mFrag>> /\ (UNCHANGED pc \/ \E t \in {"io", "comp", "hold", "stop"} : \E l : Goto(t, l))
        /\ UNCHANGED mainQ \/ \E i \in Irps : AddIrpInsert(i)
    <3>1. CASE IoThread \/ CompletionThread
      BY <3>1, Zenon DEF IoThread, IoWake, IoDequeue, IoSkip, IoWrite, IoRead, IoServed, IoDecideReadAhead,
         IoEnqueue, IoBeginReadAhead, IoReadAhead, IoEndReadAhead, IoSignal, CompletionThread, CompWake,
         CompDequeue, CompDecrypt, HandleComplete, AwaitWorkItem, DispatchWorkItem, ReleaseRequest, mainL, queues
    <3>2. CASE \E i \in Irps : AddIrp(i) \/ CompleteIrpWorkItem(i)
      <4>1. UNCHANGED <<mIrp, mFrag, pc>>
        BY <3>2, Zenon DEF AddIrp, AddIrpCount, AddIrpAccept, AddIrpReject, AddIrpRejectSignal, AddIrpInsert,
           CompleteIrpWorkItem, WorkComplete, WorkSignal, WorkRetire, WorkReturn, WorkPost, WorkRelease, mainL
      <4>2. UNCHANGED mainQ \/ \E i \in Irps : AddIrpInsert(i)
        BY <3>2, Zenon DEF AddIrp, AddIrpCount, AddIrpAccept, AddIrpReject, AddIrpRejectSignal,
           CompleteIrpWorkItem, WorkComplete, WorkSignal, WorkRetire, WorkReturn, WorkPost, WorkRelease, queues
      <4> QED BY <4>1, <4>2
    <3>3. CASE HoldBegin \/ HoldStep
      BY <3>3, Zenon DEF HoldBegin, HoldStep, HoldCheck, HoldAwait, HoldGiveUp, HoldRecheck, HoldSuspend,
         HoldVerify, HoldUndo, HoldSettle, SetupRead, SetupWrite, SetupUndo, SetupAdvance, Resume, mainL, queues
    <3>4. CASE StopBegin \/ StopStep
      BY <3>4, Zenon DEF StopBegin, StopStep, StopCheck, StopAwait, StopRequestExit, StopWake, StopJoin,
         StopResetEvent, StopDrainCheck, StopFree, mainL, queues
    <3>5. CASE UNCHANGED vars BY <3>5 DEF vars, mainL, queues
    <3> QED BY <1>3, <3>1, <3>2, <3>3, <3>4, <3>5 DEF Next
  <2> QED BY <1>1, <2>1 DEF Goto, Threads
<1> QED BY <1>2, <1>3

LEMMA HandedMoves ==
  ASSUME PipeInv, [Next]_vars, NEW i \in Irps, ~Answered(i)'
  PROVE  /\ Handed(i)' = IF MainQueueIo /\ i = mIrp THEN Handed(i) + 1 ELSE Handed(i)
         /\ MainQueueIo /\ i = mIrp => Handed(i)' = mFrag
<1>1. pc = [t \in Threads |-> pc[t]] BY DEF PipeInv, PipeTypes
<1>2. UNCHANGED op BY OpKept
<1>3. phase[i] \in Taken => phase'[i] \in Taken BY PhasesMove
<1>4. ~AddIrpInsert(i) => (phase'[i] \in Taken <=> phase[i] \in Taken) BY PhasesMove
<1>5. CASE MainQueueIo
  <2>1. /\ UNCHANGED <<mainQ, mIrp, phase>> /\ pc["main"] = "fill"
        /\ mFrag' = (IF mFrag = op[mIrp].len THEN mFrag ELSE mFrag + 1)
        /\ Goto("main", IF mFrag = op[mIrp].len THEN "dequeue" ELSE "fragment")
    BY <1>5 DEF MainQueueIo, IsLast
  <2>2. mFrag \in Nat \ {0} BY <2>1 DEF PipeInv, PipeTypes, Looping
  <2>3. Elements(mainQ)' = Elements(mainQ) BY <2>1 DEF Elements
  <2>4. phase[mIrp] \in Taken /\ mIrp \notin Elements(mainQ) BY <2>1 DEF PipeInv, MainPlace, Looping, Taken
  <2>5. pc'["main"] = IF mFrag = op[mIrp].len THEN "dequeue" ELSE "fragment" BY <1>1, <2>1 DEF Goto, Threads
  <2>6. ~AtMain(i) /\ ~AtMain(i)' /\ (InLoop(i) <=> i = mIrp)
        /\ (InLoop(i)' <=> i = mIrp /\ mFrag # op[mIrp].len)
    BY <2>1, <2>5 DEF AtMain, InLoop, Early, Looping
  <2>7. Untouched(i)' <=> Untouched(i) BY <2>1, <2>3, <2>6 DEF Untouched
  <2>8. CASE i = mIrp
    <3>1. ~Untouched(i) BY <2>4, <2>6, <2>8 DEF Untouched
    <3>2. Handed(i) = mFrag - 1 BY <2>6, <2>8, <3>1 DEF Handed
    <3>3. Handed(i)' = mFrag BY <1>2, <2>1, <2>2, <2>6, <2>7, <2>8, <3>1 DEF Handed
    <3> QED BY <1>5, <2>2, <2>8, <3>2, <3>3
  <2>9. CASE i # mIrp BY <1>2, <2>6, <2>7, <2>9 DEF Handed
  <2> QED BY <2>8, <2>9
<1>6. CASE MainDequeue
  <2>1. ~MainQueueIo /\ pc["main"] = "dequeue" BY <1>6 DEF MainDequeue, MainQueueIo
  <2>2. ~AtMain(i) /\ ~InLoop(i) /\ ~AddIrpInsert(i) /\ UNCHANGED phase
    BY <1>6, <2>1 DEF MainDequeue, AtMain, InLoop, Early, Looping, AddIrpInsert
  <2>3. CASE mainQ = <<>>
    <3>1. UNCHANGED mainQ /\ pc'["main"] \notin Early \cup Looping
      BY <1>1, <1>6, <2>3 DEF MainDequeue, Goto, Threads, Early, Looping
    <3> QED BY <1>2, <2>1, <2>2, <3>1 DEF Handed, Untouched, AtMain, InLoop, Elements
  <2>4. CASE mainQ # <<>>
    <3>1. mIrp' = Head(mainQ) /\ mainQ' = Tail(mainQ) /\ pc'["main"] = "gate"
      BY <1>1, <1>6, <2>4 DEF MainDequeue, Goto, Threads
    <3>2. Elements(mainQ) = {mIrp'} \cup Elements(mainQ)'
      BY <2>4, <3>1, HeadAndTail DEF PipeInv, PipeTypes
    <3>3. Untouched(i)' <=> Untouched(i)
      BY <2>2, <3>1, <3>2 DEF Untouched, AtMain, Early
    <3>4. ~InLoop(i)' BY <3>1 DEF InLoop, Looping
    <3> QED BY <1>2, <2>1, <2>2, <3>3, <3>4 DEF Handed
  <2> QED BY <2>3, <2>4
<1>7. CASE Deciding
  <2>1. /\ UNCHANGED <<mIrp, mainQ>> /\ pc["main"] = "check" /\ ~MainQueueIo
    BY <1>7 DEF Deciding, MainAccept, NextFragment, MainFail, MainDeny, MainReadMisaligned, MainComplete, MainQueueIo, queues, mainL
  <2>2. \E l \in {"request", "signal", "drop"} : Goto("main", l)
    BY <1>7 DEF Deciding, MainAccept, NextFragment, MainFail, MainDeny, MainReadMisaligned, MainComplete, AfterDecrement
  <2>3. Elements(mainQ)' = Elements(mainQ) BY <2>1 DEF Elements
  <2>4. pc'["main"] \notin Early /\ (pc'["main"] \in Looping => pc'["main"] = "request")
    BY <1>1, <2>2 DEF Goto, Threads, Early, Looping
  <2>5. ~AddIrpInsert(i) BY <2>1 DEF AddIrpInsert
  <2>6. CASE i # mIrp
    <3>1. ~AtMain(i) /\ ~AtMain(i)' /\ ~InLoop(i) /\ ~InLoop(i)' BY <2>1, <2>6 DEF AtMain, InLoop
    <3> QED BY <1>2, <1>4, <2>1, <2>3, <2>5, <3>1 DEF Handed, Untouched
  <2>7. CASE i = mIrp
    <3>1. MainAccept
      BY <1>7, <2>7, <1>1 DEF Deciding, MainFail, MainDeny, MainReadMisaligned, MainComplete, Advance, Answered, PipeInv, PipeTypes
    <3>2. mFrag' = 1 /\ Goto("main", "request") BY <3>1 DEF MainAccept, NextFragment
    <3>3. pc'["main"] = "request" BY <1>1, <3>2 DEF Goto, Threads
    <3>4. AtMain(i) /\ ~AtMain(i)' /\ InLoop(i)' BY <2>1, <2>7, <3>3 DEF AtMain, InLoop, Early, Looping
    <3>5. phase[i] \in Taken /\ i \notin Elements(mainQ) BY <2>1, <2>7 DEF PipeInv, MainPlace, Early, Taken
    <3>6. Untouched(i) /\ ~Untouched(i)' BY <1>3, <2>3, <3>4, <3>5 DEF Untouched
    <3> QED BY <2>1, <3>2, <3>4, <3>6 DEF Handed
  <2> QED BY <2>6, <2>7
<1>8. CASE ~MainDequeue /\ ~Deciding /\ ~MainQueueIo
  <2>1. /\ UNCHANGED <<mIrp, mFrag>>
        /\ (pc'["main"] \in Early <=> pc["main"] \in Early) /\ (pc'["main"] \in Looping <=> pc["main"] \in Looping)
        /\ UNCHANGED mainQ \/ \E j \in Irps : AddIrpInsert(j)
    BY <1>8, LoopKept
  <2>2. (AtMain(i)' <=> AtMain(i)) /\ (InLoop(i)' <=> InLoop(i)) BY <2>1 DEF AtMain, InLoop
  <2>3. CASE AddIrpInsert(i)
    <3>1. phase[i] = "granted" /\ mainQ' = Append(mainQ, i) BY <2>3 DEF AddIrpInsert
    <3>2. Elements(mainQ)' = Elements(mainQ) \cup {i} BY <3>1, ElementsAppend DEF PipeInv, PipeTypes
    <3> QED BY <1>8, <3>1, <3>2 DEF Handed, Untouched, Taken
  <2>4. CASE ~AddIrpInsert(i)
    <3>1. i \in Elements(mainQ)' <=> i \in Elements(mainQ)
      <4>1. CASE UNCHANGED mainQ BY <4>1 DEF Elements
      <4>2. ASSUME NEW j \in Irps, AddIrpInsert(j) PROVE i \in Elements(mainQ)' <=> i \in Elements(mainQ)
        <5>1. mainQ' = Append(mainQ, j) /\ i # j BY <2>4, <4>2 DEF AddIrpInsert
        <5>2. Elements(mainQ)' = Elements(mainQ) \cup {j} BY <5>1, ElementsAppend DEF PipeInv, PipeTypes
        <5> QED BY <5>1, <5>2
      <4> QED BY <2>1, <4>1, <4>2
    <3>2. Untouched(i)' <=> Untouched(i) BY <1>4, <2>2, <2>4, <3>1 DEF Untouched
    <3> QED BY <1>2, <1>8, <2>1, <2>2, <3>2 DEF Handed
  <2> QED BY <2>3, <2>4
<1> QED BY <1>5, <1>6, <1>7, <1>8

\* The fragments of an unanswered IRP that are to be transferred are those
\* that were handed over and not served yet.
ServedSoFar(i) ==
  /\ served[i] <= Handed(i)
  /\ \A r \in Transfers : r.irp = i => served[i] < r.frag /\ r.frag <= Handed(i)
  /\ \A k \in served[i] + 1 .. Handed(i) : \E r \in Transfers : r.irp = i /\ r.frag = k
ServedInv == \A i \in Irps : ~Answered(i) => ServedSoFar(i)

Serving == IoSkip \/ IoWrite \/ IoRead

LEMMA HandedNat == ASSUME PipeInv, NEW i \in Irps PROVE Handed(i) \in Nat /\ op[i].len \in Nat \ {0}
<1>1. op[i].len \in Nat \ {0} BY OpTypes DEF PipeInv, PipeTypes
<1>2. pc["main"] \in Looping => mFrag \in Nat \ {0} BY DEF PipeInv, PipeTypes
<1> QED BY <1>1, <1>2 DEF Handed, InLoop

LEMMA ServedMoves ==
  ASSUME PipeInv, ReadTypes, [Next]_vars
  PROVE  /\ ~Serving /\ ~MainReadMisaligned => UNCHANGED served
         /\ Serving => /\ pc["io"] = "perform" /\ ioIrp \in Irps /\ phase[ioIrp] = "queued"
                       /\ served' = [served EXCEPT ![ioIrp] = @ + 1]
<1>1. ASSUME ~Serving, ~MainReadMisaligned PROVE UNCHANGED served
  <2>1. CASE MainThread
    BY <1>1, <2>1, Zenon DEF MainThread, MainWake, MainDequeue, MainGate, MainResumed, MainGetItem, MainPoolFreed,
       MainFail, MainDeny, MainSignal, MainDrop, MainAccept, MainFragment,
       NextFragment, MainGetRequest, MainQueueIo, irps
  <2>2. CASE IoThread \/ CompletionThread
    BY <1>1, <2>2, Zenon DEF Serving, IoThread, IoWake, IoDequeue, IoDecideReadAhead, IoEnqueue,
       IoBeginReadAhead, IoReadAhead, IoEndReadAhead, IoSignal, CompletionThread, CompWake,
       CompDequeue, CompDecrypt, HandleComplete, AwaitWorkItem, DispatchWorkItem, ReleaseRequest, irps
  <2>3. CASE \E i \in Irps : AddIrp(i) \/ CompleteIrpWorkItem(i)
    BY <2>3, Zenon DEF AddIrp, AddIrpCount, AddIrpAccept, AddIrpReject, AddIrpRejectSignal, AddIrpInsert,
       CompleteIrpWorkItem, WorkComplete, WorkSignal, WorkRetire, WorkReturn, WorkPost, WorkRelease, irps
  <2>4. CASE HoldBegin \/ HoldStep \/ StopBegin \/ StopStep BY <2>4, Outsiders DEF irps
  <2>5. CASE UNCHANGED vars BY <2>5 DEF vars, irps
  <2> QED BY <2>1, <2>2, <2>3, <2>4, <2>5 DEF Next
<1>2. ASSUME Serving
      PROVE  /\ pc["io"] = "perform" /\ ioIrp \in Irps /\ phase[ioIrp] = "queued"
             /\ served' = [served EXCEPT ![ioIrp] = @ + 1]
  <2>1. pc["io"] = "perform" /\ served' = [served EXCEPT ![ioIrp] = @ + 1]
    BY <1>2 DEF Serving, IoSkip, IoWrite, IoRead, IoServed
  <2>2. ioIrp \in Irps BY <2>1, HandFacts DEF Handling, ioIrp, ioReq
  <2>3. phase[ioIrp] = "queued" BY <2>1 DEF PipeInv, Stations, Handling, ioIrp, ioReq
  <2> QED BY <2>1, <2>2, <2>3
<1> QED BY <1>1, <1>2

\* The transfer of the I/O thread is of the next fragment of its IRP.
LEMMA NextServed ==
  ASSUME PipeInv, ReadTypes, ServedInv, pc["io"] = "perform"
  PROVE  /\ ioIrp \in Irps /\ ~Answered(ioIrp) /\ served[ioIrp] \in Nat /\ ioReq.frag = served[ioIrp] + 1
         /\ ioReq.frag <= Handed(ioIrp) /\ ioReq.frag <= op[ioIrp].len
         /\ \A r \in Elements(ioQ) : r.irp = ioIrp => ioReq.frag < r.frag
         /\ \A k \in served[ioIrp] + 2 .. Handed(ioIrp) : \E r \in Elements(ioQ) : r.irp = ioIrp /\ r.frag = k
<1>1. /\ ioReq \in Flight /\ ioReq \in Requests /\ ioIrp \in Irps /\ ioReq.irp = ioIrp /\ phase[ioIrp] = "queued"
  BY HandFacts DEF Handling, ioReq, ioIrp, PipeInv, Stations
<1>2. ~Answered(ioIrp) BY <1>1 DEF Answered
<1>3. ServedSoFar(ioIrp) BY <1>1, <1>2 DEF ServedInv
<1>4. ioReq \in Transfers /\ Transfers = Elements(ioQ) \cup {ioReq} BY DEF Transfers
<1>5. served[ioIrp] < ioReq.frag /\ ioReq.frag <= Handed(ioIrp) BY <1>1, <1>3, <1>4 DEF ServedSoFar
<1>6. served[ioIrp] \in Nat /\ Handed(ioIrp) \in Nat /\ ioReq.frag \in Nat
  BY <1>1, HandedNat DEF ReadTypes, Requests
<1>7. \A r \in Elements(ioQ) : r.irp = ioIrp => ioReq.frag < r.frag
  <2>1. IoHand = {ioReq} BY DEF IoHand, IoHolds, Handling, ioReq
  <2> QED BY <1>1, <2>1 DEF PipeInv, InOrder, Before
<1>8. ASSUME NEW k \in served[ioIrp] + 1 .. Handed(ioIrp)
      PROVE  k >= ioReq.frag /\ (k # ioReq.frag => \E r \in Elements(ioQ) : r.irp = ioIrp /\ r.frag = k)
  <2>1. PICK r \in Transfers : r.irp = ioIrp /\ r.frag = k BY <1>3 DEF ServedSoFar
  <2>2. CASE r = ioReq BY <1>6, <2>1, <2>2
  <2>3. CASE r \in Elements(ioQ) BY <1>6, <1>7, <2>1, <2>3
  <2> QED BY <1>4, <2>2, <2>3
<1>9. ioReq.frag = served[ioIrp] + 1
  <2>1. served[ioIrp] + 1 \in served[ioIrp] + 1 .. Handed(ioIrp) BY <1>5, <1>6
  <2>2. served[ioIrp] + 1 >= ioReq.frag BY <1>8, <2>1
  <2> QED BY <1>5, <1>6, <2>2
<1>10. ASSUME NEW k \in served[ioIrp] + 2 .. Handed(ioIrp)
       PROVE  \E r \in Elements(ioQ) : r.irp = ioIrp /\ r.frag = k
  <2>1. k \in served[ioIrp] + 1 .. Handed(ioIrp) /\ k # ioReq.frag BY <1>6, <1>9
  <2> QED BY <1>8, <2>1
<1>11. ioReq.frag <= op[ioIrp].len BY <1>1 DEF PipeInv, Stations
<1> QED BY <1>1, <1>2, <1>5, <1>6, <1>7, <1>9, <1>10, <1>11

LEMMA ServedKept == ASSUME PipeInv, ReadTypes, ServedInv, [Next]_vars PROVE ServedInv'
<1> SUFFICES ASSUME NEW i \in Irps, ~Answered(i)' PROVE ServedSoFar(i)' BY DEF ServedInv
<1>1. ~Answered(i) BY PhasesMove
<1>2. ServedSoFar(i) BY <1>1 DEF ServedInv
<1>3. Handed(i)' = IF MainQueueIo /\ i = mIrp THEN Handed(i) + 1 ELSE Handed(i) BY HandedMoves
<1>4. served[i] \in Nat /\ Handed(i) \in Nat BY HandedNat DEF ReadTypes
<1>5. CASE MainQueueIo
  <2> DEFINE r == [irp |-> mIrp, frag |-> mFrag, buf |-> mBuf, enc |-> mEnc]
  <2>1. Transfers' = Transfers \cup {r} BY <1>5, TransfersArrive
  <2>2. r.irp = mIrp /\ r.frag = mFrag OBVIOUS
  <2> HIDE DEF r
  <2>3. UNCHANGED served BY <1>5, Zenon DEF MainQueueIo, irps
  <2>4. CASE i # mIrp BY <1>2, <1>3, <2>1, <2>2, <2>3, <2>4 DEF ServedSoFar
  <2>5. CASE i = mIrp
    <3>1. Handed(i)' = Handed(i) + 1 /\ mFrag = Handed(i) + 1
      BY <1>3, <1>5, <2>5, HandedMoves
    <3>2. served[i] <= Handed(i) BY <1>2 DEF ServedSoFar
    <3>3. \A s \in Transfers : s.irp = i => served[i] < s.frag /\ s.frag <= Handed(i) BY <1>2 DEF ServedSoFar
    <3>4. \A s \in Transfers : s.frag \in Nat BY TransferFacts DEF Requests
    <3>5. \A s \in Transfers' : s.irp = i => served[i] < s.frag /\ s.frag <= Handed(i) + 1
      BY <1>4, <2>1, <2>2, <3>1, <3>2, <3>3, <3>4
    <3>6. \A k \in served[i] + 1 .. Handed(i) + 1 : \E s \in Transfers' : s.irp = i /\ s.frag = k
      <4> SUFFICES ASSUME NEW k \in served[i] + 1 .. Handed(i) + 1
                   PROVE  \E s \in Transfers' : s.irp = i /\ s.frag = k
        OBVIOUS
      <4>1. CASE k = Handed(i) + 1 BY <2>1, <2>2, <2>5, <3>1, <4>1
      <4>2. CASE k # Handed(i) + 1
        <5>1. k \in served[i] + 1 .. Handed(i) BY <1>4, <4>2
        <5> QED BY <1>2, <2>1, <5>1 DEF ServedSoFar
      <4> QED BY <4>1, <4>2
    <3>7. served[i] <= Handed(i) + 1 BY <1>4, <3>2
    <3> QED BY <2>3, <3>1, <3>5, <3>6, <3>7 DEF ServedSoFar
  <2> QED BY <2>4, <2>5
<1>6. CASE Serving
  <2>1. /\ pc["io"] = "perform" /\ ioIrp \in Irps
        /\ served' = [served EXCEPT ![ioIrp] = @ + 1]
    BY <1>6, ServedMoves
  <2>2. ~MainQueueIo
    <3>1. served' # served BY <2>1 DEF ReadTypes
    <3>2. MainQueueIo => UNCHANGED served BY Zenon DEF MainQueueIo, irps
    <3> QED BY <3>1, <3>2
  <2>3. Transfers' = Elements(ioQ) BY <1>6, <2>2, TransfersMove DEF Serving
  <2>4. Handed(i)' = Handed(i) BY <1>3, <2>2
  <2>5. CASE i # ioIrp
    <3>1. served'[i] = served[i] BY <2>1, <2>5 DEF ReadTypes
    <3>2. \A r \in Transfers : r.irp = i <=> r \in Elements(ioQ) /\ r.irp = i
      BY <2>1, <2>5 DEF Transfers, ioIrp
    <3>3. \A r : r \in Elements(ioQ) => r \in Transfers BY DEF Transfers
    <3> QED BY <1>2, <2>3, <2>4, <3>1, <3>2, <3>3 DEF ServedSoFar
  <2>6. CASE i = ioIrp
    <3>1. served'[i] = served[i] + 1 BY <2>1, <2>6 DEF ReadTypes
    <3>2. /\ ioReq.frag = served[i] + 1 /\ ioReq.frag <= Handed(i)
          /\ \A r \in Elements(ioQ) : r.irp = i => ioReq.frag < r.frag
          /\ \A k \in served[i] + 2 .. Handed(i) : \E r \in Elements(ioQ) : r.irp = i /\ r.frag = k
      BY <2>1, <2>6, NextServed
    <3>3. \A r \in Elements(ioQ) : r.irp = i => r.frag <= Handed(i)
      BY <1>2 DEF ServedSoFar, Transfers
    <3>4. (served[i] + 1) + 1 = served[i] + 2 BY <1>4
    <3> QED BY <2>3, <2>4, <3>1, <3>2, <3>3, <3>4 DEF ServedSoFar
  <2> QED BY <2>5, <2>6
<1>7. CASE ~MainQueueIo /\ ~Serving
  <2>1. Transfers' = Transfers BY <1>7, TransfersMove DEF Serving
  <2>2. served'[i] = served[i]
    <3>1. CASE MainReadMisaligned
      <4>1. i # mIrp
        BY <3>1 DEF MainReadMisaligned, MainComplete, Advance, Answered, PipeInv, PipeTypes
      <4>2. served' = [served EXCEPT ![mIrp] = op[mIrp].len] BY <3>1 DEF MainReadMisaligned
      <4> QED BY <4>1, <4>2 DEF ReadTypes
    <3>2. CASE ~MainReadMisaligned BY <1>7, <3>2, ServedMoves
    <3> QED BY <3>1, <3>2
  <2> QED BY <1>2, <1>3, <1>7, <2>1, <2>2 DEF ServedSoFar
<1> QED BY <1>5, <1>6, <1>7

LEMMA ServedInit == ASSUME Init PROVE ServedInv
<1>1. /\ ioQ = <<>> /\ pc["io"] = "wait" /\ phase = [i \in Irps |-> "new"] /\ served = [i \in Irps |-> 0]
  BY DEF Init, Threads
<1>2. Transfers = {} BY <1>1, EmptyQueue DEF Transfers
<1>3. \A i \in Irps : Handed(i) = 0 /\ served[i] = 0 BY <1>1 DEF Handed, Untouched, Taken
<1> QED BY <1>2, <1>3 DEF ServedInv, ServedSoFar

\* Nothing of an IRP is served while the main thread has not accepted it, and
\* all of it when its completion is under way.
LEMMA UntouchedUnserved ==
  ASSUME PipeInv, ReadTypes, ServedInv, NEW i \in Irps, ~Answered(i), Untouched(i)
  PROVE  served[i] = 0
<1>1. ServedSoFar(i) /\ Handed(i) = 0 BY DEF ServedInv, Handed
<1> QED BY <1>1 DEF ServedSoFar, ReadTypes

LEMMA AllServed ==
  ASSUME PipeInv, ReadTypes, ServedInv, NEW i \in Irps, ~Answered(i), Handed(i) = op[i].len,
         \A r \in Transfers : r.irp # i
  PROVE  served[i] = op[i].len
<1>1. ServedSoFar(i) BY DEF ServedInv
<1>2. served[i] \in Nat /\ Handed(i) \in Nat BY HandedNat DEF ReadTypes
<1>3. ~(served[i] + 1 <= Handed(i))
  <2> SUFFICES ASSUME served[i] + 1 <= Handed(i) PROVE FALSE OBVIOUS
  <2>1. served[i] + 1 \in served[i] + 1 .. Handed(i) BY <1>2
  <2> QED BY <1>1, <2>1 DEF ServedSoFar
<1>4. served[i] <= Handed(i) BY <1>1 DEF ServedSoFar
<1> QED BY <1>2, <1>3, <1>4

LEMMA CompletingServed ==
  ASSUME PipeInv, ReadTypes, ServedInv, NEW i \in Irps, phase[i] = "completing"
  PROVE  served[i] = op[i].len
<1>1. ~Answered(i) BY DEF Answered
<1>2. i \notin Elements(mainQ) BY DEF PipeInv, MainPlace
<1>3. ~AtMain(i) /\ ~InLoop(i) BY DEF AtMain, InLoop, PipeInv, MainPlace
<1>4. Handed(i) = op[i].len BY <1>2, <1>3 DEF Handed, Untouched, Taken
<1>5. \A r \in Transfers : r.irp # i
  <2>1. \A r \in Elements(ioQ) : phase[r.irp] = "queued" BY DEF PipeInv, Stations
  <2>2. pc["io"] = "perform" => phase[ioReq.irp] = "queued" BY DEF PipeInv, Stations, Handling, ioReq
  <2> QED BY <2>1, <2>2 DEF Transfers
<1> QED BY <1>1, <1>4, <1>5, AllServed

\* The requests to be transferred, in the order of the I/O queue, are of IRPs in
\* the order of their arrival, none beyond the one decided last.
Follows(order, r, s) == \A m, n \in DOMAIN order : order[m] = r.irp /\ order[n] = s.irp => m <= n
Arrived(i) == \E n \in DOMAIN arrival : arrival[n] = i /\ n <= Decided
TurnInv ==
  /\ \A m, n \in DOMAIN ioQ : m < n => Follows(arrival, ioQ[m], ioQ[n])
  /\ pc["io"] = "perform" => \A s \in Elements(ioQ) : Follows(arrival, ioReq, s)
  /\ \A r \in Transfers : Arrived(r.irp)
  /\ pc["main"] \in Looping => Decided \in DOMAIN arrival /\ arrival[Decided] = mIrp

LEMMA ArrivalGrows ==
  ASSUME PipeInv, ArrivalInv, [Next]_vars
  PROVE  UNCHANGED arrival \/ \E i \in Irps : AddIrpInsert(i) /\ arrival' = Append(arrival, i) /\ i \notin Elements(arrival)
<1>1. CASE MainThread
  BY <1>1, Zenon DEF MainThread, MainWake, MainDequeue, MainGate, MainResumed, MainGetItem, MainPoolFreed,
     MainFail, MainDeny, MainReadMisaligned, MainSignal, MainDrop, MainAccept, MainFragment,
     NextFragment, MainGetRequest, MainQueueIo, irps
<1>2. CASE IoThread \/ CompletionThread
  BY <1>2, Zenon DEF IoThread, IoWake, IoDequeue, IoSkip, IoWrite, IoRead, IoServed, IoDecideReadAhead, IoEnqueue,
     IoBeginReadAhead, IoReadAhead, IoEndReadAhead, IoSignal, CompletionThread, CompWake,
     CompDequeue, CompDecrypt, HandleComplete, AwaitWorkItem, DispatchWorkItem, ReleaseRequest, irps
<1>3. ASSUME NEW i \in Irps, AddIrpInsert(i)
      PROVE  arrival' = Append(arrival, i) /\ i \notin Elements(arrival)
  BY <1>3 DEF AddIrpInsert, ArrivalInv, Taken
<1>4. ASSUME NEW i \in Irps, (AddIrp(i) /\ ~AddIrpInsert(i)) \/ CompleteIrpWorkItem(i) PROVE UNCHANGED arrival
  BY <1>4, Zenon DEF AddIrp, AddIrpCount, AddIrpAccept, AddIrpReject, AddIrpRejectSignal,
     CompleteIrpWorkItem, WorkComplete, WorkSignal, WorkRetire, WorkReturn, WorkPost, WorkRelease, irps
<1>5. CASE \E i \in Irps : AddIrp(i) \/ CompleteIrpWorkItem(i) BY <1>3, <1>4, <1>5
<1>6. CASE HoldBegin \/ HoldStep \/ StopBegin \/ StopStep BY <1>6, Outsiders DEF irps
<1>7. CASE UNCHANGED vars BY <1>7 DEF vars, irps
<1> QED BY <1>1, <1>2, <1>5, <1>6, <1>7 DEF Next

\* A new arrival comes after those that have arrived.
LEMMA FollowsKept ==
  ASSUME PipeInv, ArrivalInv, StatusInv, [Next]_vars
  PROVE  /\ \A r, s : Arrived(r.irp) /\ Arrived(s.irp) /\ Follows(arrival, r, s) => Follows(arrival', r, s)
         /\ \A i : Arrived(i) => Arrived(i)'
<1>1. /\ arrival \in Seq(Irps) /\ Len(arrival) \in Nat /\ DOMAIN arrival = 1 .. Len(arrival) /\ Decided \in Nat
  BY DEF ArrivalInv
<1>2. Decided' = Decided \/ Decided' = Decided + 1 BY DecidedMoves
<1>3. \A n \in DOMAIN arrival : n <= Decided => n <= Decided' BY <1>1, <1>2
<1>4. CASE UNCHANGED arrival BY <1>3, <1>4 DEF Follows, Arrived
<1>5. ASSUME NEW i \in Irps, arrival' = Append(arrival, i), i \notin Elements(arrival)
      PROVE  /\ \A r, s : Arrived(r.irp) /\ Arrived(s.irp) /\ Follows(arrival, r, s) => Follows(arrival', r, s)
             /\ \A j : Arrived(j) => Arrived(j)'
  <2>1. /\ \A n \in DOMAIN arrival : n \in DOMAIN arrival' /\ arrival'[n] = arrival[n] /\ arrival[n] # i
        /\ \A n \in DOMAIN arrival' : n \in DOMAIN arrival \/ arrival'[n] = i
    BY <1>1, <1>5 DEF Elements
  <2>2. \A j : Arrived(j) => Arrived(j)' /\ j # i BY <1>3, <2>1 DEF Arrived
  <2> QED BY <2>1, <2>2 DEF Follows
<1> QED BY <1>4, <1>5, ArrivalGrows

\* The decided IRP that the main thread hands over arrived last.
LEMMA LastArrived ==
  ASSUME ArrivalInv, Decided \in DOMAIN arrival, NEW r, NEW s, Arrived(r.irp), arrival[Decided] = s.irp
  PROVE  Follows(arrival, r, s)
<1>1. PICK k \in DOMAIN arrival : arrival[k] = r.irp /\ k <= Decided BY DEF Arrived
<1>2. SUFFICES ASSUME NEW m \in DOMAIN arrival, NEW n \in DOMAIN arrival, arrival[m] = r.irp, arrival[n] = s.irp
               PROVE  m <= n
  BY DEF Follows
<1>3. m = k /\ n = Decided BY <1>1, <1>2 DEF ArrivalInv, Distinct
<1> QED BY <1>1, <1>3

LEMMA TurnKept == ASSUME PipeInv, ArrivalInv, StatusInv, TurnInv, [Next]_vars PROVE TurnInv'
<1>1. \A r \in Elements(ioQ) : r \in Transfers /\ Arrived(r.irp) BY DEF TurnInv, Transfers
<1>2. \A r, s : r \in Transfers /\ s \in Transfers /\ Follows(arrival, r, s) => Follows(arrival', r, s)
  BY FollowsKept DEF TurnInv
<1>3. \A n \in DOMAIN ioQ : ioQ[n] \in Elements(ioQ) BY DEF Elements
<1>4. pc["io"] = "perform" => ioReq \in Transfers BY DEF Transfers
<1>5. pc'["main"] \in Looping => Decided' \in DOMAIN arrival' /\ arrival'[Decided'] = mIrp'
  <2> SUFFICES ASSUME pc'["main"] \in Looping PROVE Decided' \in DOMAIN arrival' /\ arrival'[Decided'] = mIrp' OBVIOUS
  <2>1. ArrivalInv' BY OrderKept
  <2>2. arrival' \in Seq(Irps) /\ Decided' \in Nat BY <2>1 DEF ArrivalInv
  <2>3. CASE MainAccept
    <3>1. Decided' = Decided + 1 /\ arrival'[Decided'] = mIrp' BY <2>3, DecidedMoves DEF Deciding
    <3>2. Decided' >= 1 BY <3>1 DEF ArrivalInv
    <3>3. Len(mainQ') \in Nat /\ Len(arrival') \in Nat
      <4>1. PipeInv' BY PipeStep
      <4> QED BY <2>2, <4>1 DEF PipeInv, PipeTypes
    <3>4. Decided' <= Len(arrival') BY <2>2, <3>3 DEF Decided, Dequeued, Waiting
    <3>5. Decided' \in 1 .. Len(arrival') BY <2>2, <3>2, <3>3, <3>4
    <3> QED BY <2>2, <3>1, <3>5
  <2>4. CASE ~MainAccept
    <3>1. pc["main"] \in Looping /\ UNCHANGED mIrp BY <2>4, LoopEntered
    <3>2. ~Deciding
      BY <2>4, <3>1 DEF Deciding, Looping, MainFail, MainDeny, MainReadMisaligned
    <3>3. Decided' = Decided /\ Decided \in DOMAIN arrival /\ arrival[Decided] = mIrp
      BY <3>1, <3>2, DecidedMoves DEF TurnInv
    <3>4. \A n \in DOMAIN arrival : n \in DOMAIN arrival' /\ arrival'[n] = arrival[n]
      BY ArrivalGrows DEF ArrivalInv
    <3> QED BY <3>1, <3>3, <3>4
  <2> QED BY <2>3, <2>4
<1>6. \A r \in Transfers' : Arrived(r.irp)'
  <2>1. CASE MainQueueIo
    <3> DEFINE r == [irp |-> mIrp, frag |-> mFrag, buf |-> mBuf, enc |-> mEnc]
    <3>1. Transfers' = Transfers \cup {r} BY <2>1, TransfersArrive
    <3>2. pc["main"] \in Looping BY <2>1 DEF MainQueueIo, Looping
    <3>3. Decided \in Nat BY DEF ArrivalInv
    <3>4. Arrived(mIrp) BY <3>2, <3>3 DEF TurnInv, Arrived
    <3> QED BY <3>1, <3>4, FollowsKept DEF TurnInv
  <2>2. CASE ~MainQueueIo BY <2>2, TransfersMove, FollowsKept DEF TurnInv
  <2> QED BY <2>1, <2>2
<1>7. CASE MainQueueIo
  <2> DEFINE r == [irp |-> mIrp, frag |-> mFrag, buf |-> mBuf, enc |-> mEnc]
  <2>1. /\ UNCHANGED <<req, arrival>> /\ ioQ' = Append(ioQ, r) /\ pc["main"] = "fill" /\ \E l : Goto("main", l)
    BY <1>7, Zenon DEF MainQueueIo, irps
  <2>2. r \in Requests /\ r.irp = mIrp BY <2>1 DEF PipeInv, PipeTypes, Looping, Requests
  <2> HIDE DEF r
  <2>3. pc'["io"] = pc["io"] BY <2>1 DEF Goto, Threads, PipeInv, PipeTypes
  <2>4. Decided \in DOMAIN arrival /\ arrival[Decided] = mIrp BY <2>1 DEF TurnInv, Looping
  <2>5. \A s \in Transfers : Follows(arrival, s, r) BY <2>2, <2>4, LastArrived DEF TurnInv
  <2>6. \A s, q : Follows(arrival', s, q) <=> Follows(arrival, s, q) BY <2>1 DEF Follows
  <2>7. Elements(ioQ)' = Elements(ioQ) \cup {r} BY <2>1, <2>2, ElementsAppend DEF PipeInv, PipeTypes
  <2>8. ASSUME NEW m \in DOMAIN ioQ', NEW n \in DOMAIN ioQ', m < n PROVE Follows(arrival, ioQ'[m], ioQ'[n])
    <3>1. ioQ \in Seq(Requests) BY DEF PipeInv, PipeTypes
    <3>2. DOMAIN ioQ' = 1 .. Len(ioQ) + 1 /\ DOMAIN ioQ = 1 .. Len(ioQ) /\ Len(ioQ) \in Nat BY <2>1, <2>2, <3>1
    <3>3. m \in DOMAIN ioQ /\ ioQ'[m] = ioQ[m] BY <2>1, <2>2, <2>8, <3>1, <3>2
    <3>4. CASE n = Len(ioQ) + 1
      <4>1. ioQ'[n] = r BY <2>1, <2>2, <3>1, <3>4
      <4> QED BY <1>1, <1>3, <2>5, <3>3, <4>1
    <3>5. CASE n # Len(ioQ) + 1
      <4>1. n \in DOMAIN ioQ /\ ioQ'[n] = ioQ[n] BY <2>1, <2>2, <3>1, <3>2, <3>5
      <4> QED BY <2>8, <3>3, <4>1 DEF TurnInv
    <3> QED BY <3>4, <3>5
  <2>9. pc["io"] = "perform" => \A s \in Elements(ioQ)' : Follows(arrival, ioReq, s)
    BY <1>4, <2>5, <2>7 DEF TurnInv
  <2>10. ioReq' = ioReq BY <2>1 DEF ioReq
  <2> QED BY <1>5, <1>6, <2>3, <2>6, <2>8, <2>9, <2>10 DEF TurnInv
<1>8. CASE Serving
  <2>1. /\ UNCHANGED ioQ /\ pc["io"] = "perform"
        /\ \E l \in {"complete", "release", "enqueue", "decide"} : Goto("io", l)
    BY <1>8 DEF Serving, IoSkip, IoWrite, IoRead, IoServed, WriteDone, queues
  <2>2. pc'["io"] # "perform" BY <2>1 DEF Goto, Threads, PipeInv, PipeTypes
  <2> QED BY <1>1, <1>2, <1>3, <1>5, <1>6, <2>1, <2>2 DEF TurnInv
<1>9. CASE IoDequeue
  <2>1. CASE ioQ = <<>>
    <3>1. UNCHANGED ioQ /\ pc'["io"] # "perform"
      BY <1>9, <2>1 DEF IoDequeue, Goto, Threads, PipeInv, PipeTypes
    <3> QED BY <1>1, <1>2, <1>3, <1>5, <1>6, <3>1 DEF TurnInv
  <2>2. CASE ioQ # <<>>
    <3>1. ioReq' = Head(ioQ) /\ ioQ' = Tail(ioQ)
      BY <1>9, <2>2 DEF IoDequeue, ioReq, PipeInv, PipeTypes
    <3>2. ioQ \in Seq(Requests) BY DEF PipeInv, PipeTypes
    <3>3. /\ Len(ioQ) \in Nat /\ Len(ioQ) >= 1 /\ DOMAIN ioQ = 1 .. Len(ioQ) /\ DOMAIN ioQ' = 1 .. Len(ioQ) - 1
          /\ Head(ioQ) = ioQ[1] /\ \A n \in 1 .. Len(ioQ) - 1 : ioQ'[n] = ioQ[n + 1]
      BY <2>2, <3>1, <3>2
    <3>4. \A m, n \in DOMAIN ioQ : m < n => Follows(arrival', ioQ[m], ioQ[n])
      BY <1>1, <1>2, <1>3 DEF TurnInv
    <3>5. ASSUME NEW m \in DOMAIN ioQ', NEW n \in DOMAIN ioQ', m < n PROVE Follows(arrival', ioQ[m + 1], ioQ[n + 1])
      <4>1. m + 1 \in DOMAIN ioQ /\ n + 1 \in DOMAIN ioQ /\ m + 1 < n + 1 BY <3>3, <3>5
      <4> QED BY <3>4, <4>1
    <3>6. ASSUME NEW n \in DOMAIN ioQ' PROVE Follows(arrival', ioQ[1], ioQ[n + 1])
      <4>1. 1 \in DOMAIN ioQ /\ n + 1 \in DOMAIN ioQ /\ 1 < n + 1 BY <3>3
      <4> QED BY <3>4, <4>1
    <3>7. \A m, n \in DOMAIN ioQ' : m < n => Follows(arrival', ioQ'[m], ioQ'[n]) BY <3>3, <3>5
    <3>8. ASSUME NEW s \in Elements(ioQ)' PROVE Follows(arrival', ioReq', s)
      <4>1. PICK n \in DOMAIN ioQ' : s = ioQ'[n] BY DEF Elements
      <4>2. s = ioQ[n + 1] BY <3>3, <4>1
      <4> QED BY <3>1, <3>3, <3>6, <4>2
    <3> QED BY <1>5, <1>6, <3>7, <3>8 DEF TurnInv
  <2> QED BY <2>1, <2>2
<1>10. CASE ~MainQueueIo /\ ~Serving /\ ~IoDequeue
  <2>1. UNCHANGED ioQ /\ req'["io"] = req["io"] /\ (pc'["io"] = "perform" <=> pc["io"] = "perform")
    BY <1>10, TransferStays DEF Serving
  <2>2. \A m, n \in DOMAIN ioQ : m < n => Follows(arrival', ioQ[m], ioQ[n]) BY <1>1, <1>2, <1>3 DEF TurnInv
  <2>3. pc["io"] = "perform" => \A s \in Elements(ioQ) : Follows(arrival', ioReq, s) BY <1>1, <1>2, <1>4 DEF TurnInv
  <2>4. Elements(ioQ)' = Elements(ioQ) /\ ioReq' = ioReq BY <2>1 DEF Elements, ioReq
  <2> QED BY <1>5, <1>6, <2>1, <2>2, <2>3, <2>4 DEF TurnInv
<1> QED BY <1>7, <1>8, <1>9, <1>10

LEMMA TurnInit == ASSUME Init PROVE TurnInv
<1>1. ioQ = <<>> /\ pc["io"] = "wait" /\ pc["main"] = "wait" BY DEF Init, Threads
<1>2. Transfers = {} /\ DOMAIN ioQ = {} BY <1>1, EmptyQueue DEF Transfers
<1> QED BY <1>1, <1>2 DEF TurnInv, Looping

\* Before the transfer of an IRP come only IRPs that are answered or served.
LEMMA InTurn ==
  ASSUME PipeInv, ReadTypes, ArrivalInv, ServedInv, TurnInv, pc["io"] = "perform"
  PROVE  \E n \in DOMAIN arrival :
           /\ arrival[n] = ioIrp
           /\ \A m \in 1 .. n - 1 : Answered(arrival[m]) \/ served[arrival[m]] = op[arrival[m]].len
<1>1. ioReq \in Transfers /\ ioReq.irp = ioIrp BY DEF Transfers, ioIrp
<1>2. PICK n \in DOMAIN arrival : arrival[n] = ioIrp /\ n <= Decided BY <1>1 DEF TurnInv, Arrived
<1>3. /\ arrival \in Seq(Irps) /\ Len(arrival) \in Nat /\ DOMAIN arrival = 1 .. Len(arrival) /\ Decided \in Nat
      /\ mainQ \in Seq(Irps) /\ Len(mainQ) \in Nat
  BY DEF ArrivalInv, PipeInv, PipeTypes
<1>4. ASSUME NEW m \in 1 .. n - 1, ~Answered(arrival[m]) PROVE served[arrival[m]] = op[arrival[m]].len
  <2>1. m \in DOMAIN arrival /\ m < n /\ m < Decided /\ m # n BY <1>2, <1>3
  <2> DEFINE i == arrival[m]
  <2>2. i \in Irps /\ i \in Elements(arrival) /\ i # ioIrp
    BY <1>2, <1>3, <2>1 DEF Elements, ArrivalInv, Distinct
  <2>3. phase[i] \in Taken BY <2>2 DEF ArrivalInv
  <2>4. \A k \in DOMAIN arrival : arrival[k] = i => k = m BY <2>1 DEF ArrivalInv, Distinct
  <2>5. i \notin Elements(mainQ)
    <3> SUFFICES ASSUME NEW k \in DOMAIN mainQ, mainQ[k] = i PROVE FALSE BY DEF Elements
    <3>1. arrival[Dequeued + k] = i BY DEF ArrivalInv
    <3>2. Dequeued + k > Decided /\ Dequeued + k <= Len(arrival) BY <1>3 DEF Decided, Waiting, Dequeued
    <3>3. Dequeued + k \in DOMAIN arrival BY <1>3, <3>2 DEF Dequeued
    <3>4. Dequeued + k = m BY <2>4, <3>1, <3>3
    <3> QED BY <1>3, <2>1, <3>2, <3>4
  <2>6. ~AtMain(i)
    <3> SUFFICES ASSUME pc["main"] \in Early, mIrp = i PROVE FALSE BY DEF AtMain
    <3>1. arrival[Dequeued] = i /\ Dequeued = Decided + 1
      BY <1>3 DEF ArrivalInv, Decided, Waiting, Dequeued
    <3>2. Dequeued \in DOMAIN arrival BY <1>3, <3>1 DEF Dequeued
    <3>3. Dequeued = m BY <2>4, <3>1, <3>2
    <3> QED BY <1>3, <2>1, <3>1, <3>3
  <2>7. ~InLoop(i)
    <3> SUFFICES ASSUME pc["main"] \in Looping, mIrp = i PROVE FALSE BY DEF InLoop
    <3>1. Decided = m BY <2>4 DEF TurnInv
    <3> QED BY <1>3, <2>1, <3>1
  <2>8. Handed(i) = op[i].len BY <2>3, <2>5, <2>6, <2>7 DEF Handed, Untouched
  <2>9. \A r \in Transfers : r.irp # i
    <3> SUFFICES ASSUME NEW r \in Transfers, r.irp = i PROVE FALSE OBVIOUS
    <3>1. r # ioReq BY <1>1, <2>2
    <3>2. r \in Elements(ioQ) BY <3>1 DEF Transfers
    <3>3. Follows(arrival, ioReq, r) BY <3>2 DEF TurnInv
    <3>4. n <= m BY <1>1, <1>2, <2>1, <3>3 DEF Follows
    <3> QED BY <1>3, <2>1, <3>4
  <2> HIDE DEF i
  <2>10. served[i] = op[i].len BY <1>4, <2>2, <2>8, <2>9, AllServed DEF i
  <2> QED BY <2>10 DEF i
<1> QED BY <1>2, <1>4

(***************************************************************************)
(* What was read.  The blocks of a read lie in the buffer of its IRP in the *)
(* order of its fragments; one of them is still encrypted only as long as   *)
(* its request is on the way to its decryption.                             *)
(***************************************************************************)
Passing == {"decide", "enqueue", "enqueueAhead"}
Pending == Elements(compQ) \cup (IF pc["io"] \in Passing THEN {ioReq} ELSE {})
                           \cup (IF pc["comp"] = "decrypt" THEN {req["comp"]} ELSE {})
ReadSoFar(i) ==
  /\ Len(got[i]) = served[i]
  /\ \A r \in Pending : r.irp = i => r.frag <= served[i] /\ got[i][r.frag].enc = r.enc
  /\ \A k \in 1 .. served[i] : got[i][k].enc => \E r \in Pending : r.irp = i /\ r.frag = k
PlainInv == \A i \in Irps : ~Answered(i) =>
  /\ op[i].write => got[i] = <<>>
  /\ ~op[i].write /\ status[i] = "ok" => ReadSoFar(i)

LEMMA PendingFacts ==
  ASSUME PipeInv
  PROVE  \A r \in Pending : r \in Flight /\ r \in Requests /\ ~op[r.irp].write /\ phase[r.irp] = "queued"
<1>1. \A r \in Elements(compQ) : r \in Flight /\ ~op[r.irp].write /\ phase[r.irp] = "queued"
  BY DEF PipeInv, Stations, Flight
<1>2. pc["io"] \in Passing => ioReq \in Flight /\ ~op[ioReq.irp].write /\ phase[ioReq.irp] = "queued"
  BY HandFacts DEF PipeInv, Stations, ioReq, ioIrp, Passing, Handling
<1>3. pc["comp"] = "decrypt" => req["comp"] \in CompHand BY DEF CompHand, CompHolds, Handling
<1>4. pc["comp"] = "decrypt" =>
        req["comp"] \in Flight /\ ~op[req["comp"].irp].write /\ phase[req["comp"].irp] = "queued"
  BY <1>3 DEF PipeInv, Stations, Flight, Handling
<1> QED BY <1>1, <1>2, <1>4 DEF Pending, PipeInv, PipeTypes

\* A read that was served comes to be decrypted, and leaves when it was.
LEMMA PendingMoves ==
  ASSUME PipeInv, [Next]_vars
  PROVE  /\ ~IoRead /\ ~IoSkip /\ ~CompDecrypt => Pending' = Pending
         /\ IoRead => Pending' = Pending \cup {ioReq}
         /\ IoSkip => Pending' \in {Pending, Pending \cup {ioReq}}
         /\ CompDecrypt => /\ Pending = Pending' \cup {req["comp"]}
                           /\ \A r \in Pending' : r.irp = req["comp"].irp => r.frag # req["comp"].frag
<1>1. pc = [t \in Threads |-> pc[t]] /\ req = [t \in {"io", "comp"} |-> req[t]] /\ compQ \in Seq(Requests)
  BY DEF PipeInv, PipeTypes
<1> DEFINE Still == UNCHANGED compQ /\ req'["io"] = req["io"] /\ req'["comp"] = req["comp"]
                    /\ pc'["io"] = pc["io"] /\ pc'["comp"] = pc["comp"]
<1>2. Still => Pending' = Pending BY DEF Pending, Elements, ioReq
<1>3. CASE MainThread \/ HoldBegin \/ HoldStep \/ StopBegin \/ StopStep \/ UNCHANGED vars
           \/ \E i \in Irps : AddIrp(i) \/ CompleteIrpWorkItem(i)
  <2>1. Still
    <3>1. CASE MainThread
      <4>1. UNCHANGED <<compQ, req>> /\ \E l : Goto("main", l)
        BY <3>1, Zenon DEF MainThread, MainWake, MainDequeue, MainGate, MainResumed, MainGetItem, MainPoolFreed,
           MainFail, MainDeny, MainReadMisaligned, MainComplete, MainSignal, MainDrop, MainAccept, MainFragment,
           NextFragment, MainGetRequest, MainQueueIo, queues
      <4> QED BY <1>1, <4>1 DEF Goto, Threads
    <3>2. CASE HoldBegin \/ HoldStep \/ StopBegin \/ StopStep BY <3>2, Outsiders DEF queues
    <3>3. CASE UNCHANGED vars BY <3>3 DEF vars, queues
    <3>4. CASE \E i \in Irps : AddIrp(i) \/ CompleteIrpWorkItem(i)
      <4>1. UNCHANGED <<compQ, req, pc>>
        BY <3>4, Zenon DEF AddIrp, AddIrpCount, AddIrpAccept, AddIrpReject, AddIrpRejectSignal, AddIrpInsert,
           CompleteIrpWorkItem, WorkComplete, WorkSignal, WorkRetire, WorkReturn, WorkPost, WorkRelease, queues
      <4> QED BY <4>1
    <3> QED BY <1>3, <3>1, <3>2, <3>3, <3>4
  <2>2. ~IoRead /\ ~IoSkip /\ ~CompDecrypt
    BY <2>1, <1>1 DEF IoRead, IoSkip, IoServed, WriteDone, CompDecrypt, Goto, Threads
  <2> QED BY <1>2, <2>1, <2>2
<1>4. CASE IoRead \/ IoSkip
  <2>1. /\ UNCHANGED <<compQ, req>> /\ pc["io"] = "perform" /\ ~CompDecrypt
        /\ \E l \in {"complete", "release", "enqueue", "decide"} : Goto("io", l)
        /\ IoRead => \E l \in {"enqueue", "decide"} : Goto("io", l)
    BY <1>1, <1>4 DEF IoRead, IoSkip, IoServed, WriteDone, CompDecrypt, queues, Goto, Threads
  <2>2. pc'["comp"] = pc["comp"] /\ (IoRead => pc'["io"] \in Passing)
    BY <1>1, <2>1 DEF Goto, Threads, Passing
  <2>3. Elements(compQ)' = Elements(compQ) /\ ioReq' = ioReq /\ pc["io"] \notin Passing
    BY <2>1 DEF Elements, ioReq, Passing
  <2>4. CASE pc'["io"] \in Passing
    <3>1. Pending' = Pending \cup {ioReq} BY <2>1, <2>2, <2>3, <2>4 DEF Pending
    <3> QED BY <1>4, <2>1, <3>1
  <2>5. CASE pc'["io"] \notin Passing
    <3>1. Pending' = Pending BY <2>1, <2>2, <2>3, <2>5 DEF Pending
    <3> QED BY <1>4, <2>1, <2>2, <2>5, <3>1
  <2> QED BY <2>4, <2>5
<1>5. CASE IoEnqueue
  <2>1. /\ compQ' = Append(compQ, ioReq) /\ UNCHANGED req /\ pc["io"] \in {"enqueue", "enqueueAhead"}
        /\ pc'["io"] \in {"dequeue", "ahead"} /\ pc'["comp"] = pc["comp"]
    BY <1>1, <1>5 DEF IoEnqueue, Goto, Threads
  <2>2. ioReq \in Requests BY <2>1, HandFacts DEF Handling, ioReq
  <2>3. Elements(compQ)' = Elements(compQ) \cup {ioReq} BY <1>1, <2>1, <2>2, ElementsAppend
  <2>4. pc["io"] \in Passing /\ pc'["io"] \notin Passing BY <2>1 DEF Passing
  <2>5. Pending' = Pending BY <2>1, <2>3, <2>4 DEF Pending
  <2>6. ~IoRead /\ ~IoSkip /\ ~CompDecrypt
    BY <1>1, <2>1 DEF IoRead, IoSkip, CompDecrypt, Goto, Threads
  <2> QED BY <2>5, <2>6
<1>6. CASE IoThread /\ ~(IoRead \/ IoSkip \/ IoEnqueue)
  <2>1. /\ UNCHANGED compQ /\ req'["comp"] = req["comp"] /\ pc'["comp"] = pc["comp"]
        /\ \/ pc["io"] \notin Passing /\ pc'["io"] \notin Passing
           \/ pc["io"] \in Passing /\ pc'["io"] \in Passing /\ UNCHANGED req
    <3> USE DEF Goto, Threads, Passing
    <3>1. CASE IoWake BY <1>1, <3>1 DEF IoWake, queues
    <3>2. CASE IoDequeue BY <1>1, <3>2 DEF IoDequeue, queues
    <3>3. CASE IoWrite BY <1>1, <3>3 DEF IoWrite, IoServed, WriteDone, queues
    <3>4. CASE IoDecideReadAhead BY <1>1, <3>4 DEF IoDecideReadAhead, queues
    <3>5. CASE IoBeginReadAhead BY <1>1, <3>5 DEF IoBeginReadAhead, queues
    <3>6. CASE IoReadAhead BY <1>1, <3>6 DEF IoReadAhead, queues
    <3>7. CASE IoEndReadAhead BY <1>1, <3>7 DEF IoEndReadAhead, AfterDecrement, queues
    <3>8. CASE IoSignal BY <1>1, <3>8 DEF IoSignal, queues
    <3>9. CASE HandleComplete("io")
      BY <1>1, <3>9 DEF HandleComplete, AwaitWorkItem, DispatchWorkItem, ReleaseRequest, queues
    <3> QED BY <1>6, <3>1, <3>2, <3>3, <3>4, <3>5, <3>6, <3>7, <3>8, <3>9 DEF IoThread
  <2>2. Elements(compQ)' = Elements(compQ) BY <2>1 DEF Elements
  <2>3. Pending' = Pending BY <2>1, <2>2 DEF Pending, ioReq
  <2>4. ~CompDecrypt BY <1>1, <2>1 DEF CompDecrypt, Goto, Threads
  <2> QED BY <1>6, <2>3, <2>4
<1>7. CASE CompDecrypt
  <2>1. /\ UNCHANGED <<compQ, req>> /\ pc["comp"] = "decrypt"
        /\ pc'["comp"] \in {"complete", "release"} /\ pc'["io"] = pc["io"]
    BY <1>1, <1>7 DEF CompDecrypt, queues, Goto, Threads
  <2>2. ~IoRead /\ ~IoSkip BY <1>1, <2>1 DEF IoRead, IoSkip, IoServed, WriteDone, Goto, Threads
  <2>3. Elements(compQ)' = Elements(compQ) /\ ioReq' = ioReq BY <2>1 DEF Elements, ioReq
  <2>4. Pending = Pending' \cup {req["comp"]} BY <2>1, <2>3 DEF Pending
  <2>5. Pending' \subseteq Elements(compQ) \cup IoHand
    BY <2>1, <2>3 DEF Pending, IoHand, IoHolds, Handling, Passing, ioReq
  <2>6. req["comp"] \in CompHand BY <2>1 DEF CompHand, CompHolds, Handling
  <2>7. req["comp"].frag \in Nat /\ \A r \in Pending' : r.frag \in Nat
    BY <2>5, <2>6 DEF PipeInv, PipeTypes, Flight, Requests
  <2>8. \A r \in Pending' : Before(req["comp"], r) BY <2>5, <2>6 DEF PipeInv, InOrder
  <2> QED BY <1>7, <2>2, <2>4, <2>7, <2>8 DEF Before
<1>8. CASE CompDequeue
  <2>1. /\ pc["comp"] = "dequeue" /\ pc'["io"] = pc["io"] /\ req'["io"] = req["io"]
    BY <1>1, <1>8 DEF CompDequeue, Goto, Threads
  <2>2. ~IoRead /\ ~IoSkip /\ ~CompDecrypt
    BY <1>1, <2>1 DEF IoRead, IoSkip, IoServed, WriteDone, CompDecrypt, Goto, Threads
  <2>3. CASE compQ = <<>>
    <3>1. UNCHANGED compQ /\ pc'["comp"] # "decrypt" BY <1>1, <1>8, <2>3 DEF CompDequeue, Goto, Threads
    <3> QED BY <2>1, <2>2, <3>1 DEF Pending, Elements, ioReq
  <2>4. CASE compQ # <<>>
    <3>1. req'["comp"] = Head(compQ) /\ compQ' = Tail(compQ) /\ pc'["comp"] = "decrypt"
      BY <1>1, <1>8, <2>4 DEF CompDequeue, Goto, Threads
    <3>2. Elements(compQ) = Elements(compQ)' \cup {req'["comp"]} BY <1>1, <2>4, <3>1, HeadAndTail
    <3>3. Pending' = Pending BY <2>1, <3>1, <3>2 DEF Pending, ioReq
    <3> QED BY <2>2, <3>3
  <2> QED BY <2>3, <2>4
<1>9. CASE CompletionThread /\ ~CompDecrypt /\ ~CompDequeue
  <2>1. UNCHANGED <<compQ, req>> /\ pc["comp"] # "decrypt" /\ pc'["comp"] # "decrypt" /\ pc'["io"] = pc["io"]
    BY <1>1, <1>9 DEF CompletionThread, CompWake, HandleComplete, AwaitWorkItem, DispatchWorkItem, ReleaseRequest,
       queues, Goto, Threads
  <2>2. ~IoRead /\ ~IoSkip BY <1>1, <2>1 DEF IoRead, IoSkip, IoServed, WriteDone, Goto, Threads
  <2> QED BY <1>9, <2>1, <2>2 DEF Pending, Elements, ioReq
<1> QED BY <1>3, <1>4, <1>5, <1>6, <1>7, <1>8, <1>9 DEF Next

LEMMA GotMoves ==
  ASSUME PipeInv, [Next]_vars
  PROVE  /\ ~IoRead /\ ~CompDecrypt /\ ~MainReadMisaligned => UNCHANGED got
         /\ ~IoRead /\ ~IoWrite /\ ~MainFail /\ ~MainDeny => UNCHANGED status
<1>1. CASE MainThread
  BY <1>1, Zenon DEF MainThread, MainWake, MainDequeue, MainGate, MainResumed, MainGetItem, MainPoolFreed,
     MainFail, MainDeny, MainReadMisaligned, MainSignal, MainDrop, MainAccept, MainFragment,
     NextFragment, MainGetRequest, MainQueueIo, irps
<1>2. CASE IoThread \/ CompletionThread
  BY <1>2, Zenon DEF IoThread, IoWake, IoDequeue, IoSkip, IoWrite, IoServed, IoDecideReadAhead, IoEnqueue,
     IoBeginReadAhead, IoReadAhead, IoEndReadAhead, IoSignal, CompletionThread, CompWake,
     CompDequeue, CompDecrypt, HandleComplete, AwaitWorkItem, DispatchWorkItem, ReleaseRequest, irps
<1>3. CASE \E i \in Irps : AddIrp(i) \/ CompleteIrpWorkItem(i)
  BY <1>3, Zenon DEF AddIrp, AddIrpCount, AddIrpAccept, AddIrpReject, AddIrpRejectSignal, AddIrpInsert,
     CompleteIrpWorkItem, WorkComplete, WorkSignal, WorkRetire, WorkReturn, WorkPost, WorkRelease, irps
<1>4. CASE HoldBegin \/ HoldStep \/ StopBegin \/ StopStep BY <1>4, Outsiders DEF irps
<1>5. CASE UNCHANGED vars BY <1>5 DEF vars, irps
<1> QED BY <1>1, <1>2, <1>3, <1>4, <1>5 DEF Next

\* The block under transfer lies on the device as its request has it.
LEMMA TransferCiphered ==
  ASSUME PipeInv, HoldInv, MediumInv, AddressInv, AheadTypes, pc["io"] = "perform"
  PROVE  ioBlock \in Blocks /\ dev[ioBlock] \in Content /\ dev[ioBlock].enc = ioReq.enc
<1>1. ioReq \in Requests /\ ioBlock \in Blocks /\ dev[ioBlock] \in Content BY BlockRead
<1>2. ioReq \in Transfers BY DEF Transfers
<1>3. ioReq.enc = Encrypted(ioBlock)
  BY <1>2 DEF MediumInv, ReadyInv, Ready, Encrypted, ioBlock, BlockOf, ioIrp
<1>4. IoBusy BY DEF IoBusy, IoStates
<1>5. pc["hold"] # "advance" BY <1>4 DEF HoldInv, HeldMeansQuiescent, Holding
<1>6. dev[ioBlock].enc = Encrypted(ioBlock) BY <1>1, <1>5 DEF MediumInv, DevInv, MediumMatchesArea
<1> QED BY <1>1, <1>3, <1>6

LEMMA ReadMoves ==
  ASSUME PipeInv, MediumInv, AddressInv, AheadTypes, IoRead
  PROVE  /\ pc["io"] = "perform" /\ status[ioIrp] = "ok" /\ ~op[ioIrp].write
         /\ \/ UNCHANGED status /\ got' = [got EXCEPT ![ioIrp] = Append(@, dev[ioBlock])]
            \/ status' = [status EXCEPT ![ioIrp] = "error"] /\ UNCHANGED got
<1>1. /\ pc["io"] = "perform" /\ status[ioIrp] = "ok" /\ ~op[ioIrp].write
      /\ \/ /\ UNCHANGED status
            /\ got' = [got EXCEPT ![ioIrp] = Append(@, IF ra.valid /\ ra.off = ioBlock THEN ra.data ELSE dev[ioBlock])]
         \/ status' = [status EXCEPT ![ioIrp] = "error"] /\ UNCHANGED got
  BY DEF IoRead, ItemOk
<1> QED BY <1>1, BlockRead

LEMMA PlainRead ==
  ASSUME PipeInv, HoldInv, MediumInv, StatusInv, AddressInv, AheadTypes, ReadTypes, ServedInv, PlainInv, [Next]_vars,
         IoRead, NEW i \in Irps, ~Answered(i), ~op[i].write, status'[i] = "ok"
  PROVE  ReadSoFar(i)'
<1>1. /\ pc["io"] = "perform" /\ status[ioIrp] = "ok"
      /\ \/ UNCHANGED status /\ got' = [got EXCEPT ![ioIrp] = Append(@, dev[ioBlock])]
         \/ status' = [status EXCEPT ![ioIrp] = "error"] /\ UNCHANGED got
  BY ReadMoves
<1>2. Pending' = Pending \cup {ioReq} BY PendingMoves
<1>3. ioIrp \in Irps /\ served' = [served EXCEPT ![ioIrp] = @ + 1] BY ServedMoves DEF Serving
<1>4. got \in [Irps -> Seq(Content)] /\ served \in [Irps -> Nat] BY DEF ReadTypes
<1>5. status \in [Irps -> {"ok", "error", "denied"}] BY DEF StatusInv
<1>6. status[i] = "ok" BY <1>1, <1>5
<1>7. ReadSoFar(i) BY <1>6 DEF PlainInv
<1>8. ioReq.irp = ioIrp BY DEF ioIrp
<1>9. CASE i # ioIrp
  <2>1. got'[i] = got[i] /\ served'[i] = served[i] BY <1>1, <1>3, <1>4, <1>9
  <2> QED BY <1>2, <1>7, <1>8, <1>9, <2>1 DEF ReadSoFar
<1>10. CASE i = ioIrp
  <2>1. got'[i] = Append(got[i], dev[ioBlock]) /\ served'[i] = served[i] + 1
    <3>1. status' # [status EXCEPT ![ioIrp] = "error"] BY <1>5, <1>10
    <3> QED BY <1>1, <1>3, <1>4, <1>10, <3>1
  <2>2. dev[ioBlock] \in Content /\ dev[ioBlock].enc = ioReq.enc BY <1>1, TransferCiphered
  <2>3. ioReq.frag = served[i] + 1 BY <1>1, <1>10, NextServed
  <2>4. got[i] \in Seq(Content) /\ Len(got[i]) = served[i] /\ served[i] \in Nat BY <1>4, <1>7 DEF ReadSoFar
  <2>5. /\ Len(got'[i]) = served[i] + 1 /\ got'[i][served[i] + 1] = dev[ioBlock]
        /\ \A k \in 1 .. served[i] : got'[i][k] = got[i][k]
    BY <2>1, <2>2, <2>4
  <2>6. \A r \in Pending : r.irp = i => r.frag \in 1 .. served[i] /\ got'[i][r.frag].enc = r.enc
    <3>1. \A r \in Pending : r.frag \in Nat \ {0} BY PendingFacts DEF Requests
    <3>2. \A r \in Pending : r.irp = i => r.frag \in 1 .. served[i] BY <1>7, <2>4, <3>1 DEF ReadSoFar
    <3> QED BY <1>7, <2>5, <3>2 DEF ReadSoFar
  <2>7. ASSUME NEW r \in Pending', r.irp = i
        PROVE  r.frag <= served'[i] /\ got'[i][r.frag].enc = r.enc
    <3>1. CASE r = ioReq BY <2>1, <2>2, <2>3, <2>4, <2>5, <3>1
    <3>2. CASE r \in Pending BY <2>1, <2>4, <2>6, <2>7, <3>2
    <3> QED BY <1>2, <3>1, <3>2
  <2>8. ASSUME NEW k \in 1 .. served'[i], got'[i][k].enc
        PROVE  \E r \in Pending' : r.irp = i /\ r.frag = k
    <3>1. CASE k = served[i] + 1 BY <1>2, <1>8, <1>10, <2>3, <3>1
    <3>2. CASE k # served[i] + 1
      <4>1. k \in 1 .. served[i] BY <2>1, <2>4, <3>2
      <4>2. got[i][k].enc BY <2>5, <2>8, <4>1
      <4> QED BY <1>2, <1>7, <4>1, <4>2 DEF ReadSoFar
    <3> QED BY <3>1, <3>2
  <2> QED BY <2>1, <2>5, <2>7, <2>8 DEF ReadSoFar
<1> QED BY <1>9, <1>10

LEMMA PlainDecrypt ==
  ASSUME PipeInv, ReadTypes, PlainInv, [Next]_vars, CompDecrypt, NEW i \in Irps, ~Answered(i)
  PROVE  /\ op[i].write => got'[i] = <<>>
         /\ ~op[i].write /\ status'[i] = "ok" => ReadSoFar(i)'
<1> DEFINE r == req["comp"]
<1>1. /\ UNCHANGED <<served, status>> /\ pc["comp"] = "decrypt"
      /\ got' = IF r.enc /\ status[r.irp] = "ok" THEN [got EXCEPT ![r.irp][r.frag] = Decrypt(@)] ELSE got
  BY DEF CompDecrypt
<1>2. r \in Pending BY <1>1 DEF Pending
<1>3. r.irp \in Irps /\ r.frag \in Nat \ {0} /\ r.enc \in BOOLEAN /\ ~op[r.irp].write
  BY <1>2, PendingFacts DEF Requests
<1>4. Pending = Pending' \cup {r} /\ \A s \in Pending' : s.irp = r.irp => s.frag # r.frag BY PendingMoves
<1>5. got \in [Irps -> Seq(Content)] /\ served \in [Irps -> Nat] BY DEF ReadTypes
<1> HIDE DEF r
<1>6. CASE i # r.irp
  <2>1. got'[i] = got[i] BY <1>1, <1>3, <1>5, <1>6
  <2> QED BY <1>1, <1>4, <1>6, <2>1 DEF PlainInv, ReadSoFar
<1>7. CASE i = r.irp
  <2> SUFFICES ASSUME status[i] = "ok" PROVE ReadSoFar(i)' BY <1>1, <1>3, <1>7
  <2>1. ReadSoFar(i) BY <1>3, <1>7 DEF PlainInv
  <2>2. got[i] \in Seq(Content) /\ Len(got[i]) = served[i] /\ served[i] \in Nat BY <1>5, <2>1 DEF ReadSoFar
  <2>3. r.frag \in 1 .. served[i] /\ got[i][r.frag].enc = r.enc BY <1>2, <1>3, <1>7, <2>1, <2>2 DEF ReadSoFar
  <2>4. \A k \in 1 .. served[i] : got[i][k] \in Content BY <2>2
  <2>5. /\ Len(got'[i]) = served[i] /\ got'[i][r.frag].enc = FALSE
        /\ \A k \in 1 .. served[i] : k # r.frag => got'[i][k] = got[i][k]
    <3>1. CASE r.enc
      <4>1. got'[i] = [got[i] EXCEPT ![r.frag] = Decrypt(@)] BY <1>1, <1>3, <1>5, <1>7, <3>1
      <4>2. Decrypt(got[i][r.frag]) \in Content /\ Decrypt(got[i][r.frag]).enc = FALSE
        BY <2>3, <2>4, <3>1, Ciphered
      <4>3. got'[i] \in Seq(Content) /\ Len(got'[i]) = Len(got[i]) BY <2>2, <2>3, <4>1, <4>2, ExceptSeq
      <4> QED BY <2>2, <2>3, <4>1, <4>2, <4>3
    <3>2. CASE ~r.enc
      <4>1. got' = got BY <1>1, <3>2
      <4> QED BY <2>2, <2>3, <3>2, <4>1
    <3> QED BY <3>1, <3>2
  <2>6. \A s \in Pending' : s.irp = i => s.frag \in 1 .. served[i] /\ s.frag # r.frag
    <3>1. \A s \in Pending' : s \in Pending BY <1>4
    <3>2. \A s \in Pending : s.frag \in Nat \ {0} BY PendingFacts DEF Requests
    <3> QED BY <1>4, <1>7, <2>1, <2>2, <3>1, <3>2 DEF ReadSoFar
  <2>7. \A s \in Pending' : s.irp = i => s.frag <= served[i] /\ got'[i][s.frag].enc = s.enc
    <3>1. \A s \in Pending' : s \in Pending BY <1>4
    <3> QED BY <2>1, <2>5, <2>6, <3>1 DEF ReadSoFar
  <2>8. ASSUME NEW k \in 1 .. served[i], got'[i][k].enc PROVE \E s \in Pending' : s.irp = i /\ s.frag = k
    <3>1. k # r.frag BY <2>5, <2>8
    <3>2. got[i][k].enc BY <2>5, <2>8, <3>1
    <3>3. PICK s \in Pending : s.irp = i /\ s.frag = k BY <2>1, <3>2 DEF ReadSoFar
    <3> QED BY <1>4, <3>1, <3>3
  <2> QED BY <1>1, <2>5, <2>7, <2>8 DEF ReadSoFar
<1> QED BY <1>6, <1>7

LEMMA PlainKept ==
  ASSUME PipeInv, HoldInv, MediumInv, StatusInv, AddressInv, AheadTypes, ReadTypes, ServedInv, PlainInv, [Next]_vars
  PROVE  PlainInv'
<1>1. UNCHANGED op BY OpKept
<1>2. SUFFICES ASSUME NEW i \in Irps, ~Answered(i)'
               PROVE  /\ op[i].write => got'[i] = <<>>
                      /\ ~op[i].write /\ status'[i] = "ok" => ReadSoFar(i)'
  BY <1>1 DEF PlainInv
<1>3. ~Answered(i) BY <1>2, PhasesMove
<1>4. got \in [Irps -> Seq(Content)] /\ served \in [Irps -> Nat] /\ status \in [Irps -> {"ok", "error", "denied"}]
  BY DEF ReadTypes, StatusInv
<1>5. CASE IoRead
  <2>1. op[i].write => got'[i] = <<>>
    <3>1. /\ ~op[ioIrp].write /\ (UNCHANGED got \/ got' = [got EXCEPT ![ioIrp] = Append(@, dev[ioBlock])])
      BY <1>5, ReadMoves
    <3> QED BY <1>3, <1>4, <3>1 DEF PlainInv
  <2> QED BY <1>3, <1>5, <2>1, PlainRead
<1>6. CASE CompDecrypt BY <1>3, <1>6, PlainDecrypt
<1>7. CASE MainFail \/ MainDeny \/ MainReadMisaligned
  <2>1. i # mIrp
    BY <1>2, <1>7 DEF MainFail, MainDeny, MainReadMisaligned, MainComplete, Advance, Answered, PipeInv, PipeTypes
  <2>2. got'[i] = got[i] /\ status'[i] = status[i] /\ served'[i] = served[i]
    <3>1. /\ UNCHANGED got \/ \E c : got' = [got EXCEPT ![mIrp] = c]
          /\ UNCHANGED status \/ \E c : status' = [status EXCEPT ![mIrp] = c]
          /\ UNCHANGED served \/ \E c : served' = [served EXCEPT ![mIrp] = c]
      BY <1>7 DEF MainFail, MainDeny, MainReadMisaligned
    <3> QED BY <1>4, <2>1, <3>1
  <2>3. pc["main"] = "check" /\ \E l : Goto("main", l)
    BY <1>7 DEF MainFail, MainDeny, MainReadMisaligned, MainComplete
  <2>4. ~IoRead /\ ~IoSkip /\ ~CompDecrypt
    BY <2>3 DEF PipeInv, PipeTypes, IoRead, IoSkip, IoServed, WriteDone, CompDecrypt, Goto, Threads
  <2>5. Pending' = Pending BY <2>4, PendingMoves
  <2> QED BY <1>3, <2>2, <2>5 DEF PlainInv, ReadSoFar
<1>8. CASE IoWrite
  <2>1. UNCHANGED got /\ op[ioIrp].write /\ ioIrp \in Irps
        /\ (UNCHANGED status \/ status' = [status EXCEPT ![ioIrp] = "error"])
    BY <1>8, ServedMoves DEF IoWrite, Serving
  <2>2. served' = [served EXCEPT ![ioIrp] = @ + 1] BY <1>8, ServedMoves DEF Serving
  <2>3. ~IoRead /\ ~IoSkip /\ ~CompDecrypt
    BY <1>8, <2>1 DEF PipeInv, PipeTypes, IoWrite, IoRead, IoSkip, IoServed, WriteDone, CompDecrypt, Goto, Threads
  <2>4. Pending' = Pending BY <2>3, PendingMoves
  <2>5. i # ioIrp => served'[i] = served[i] /\ status'[i] = status[i] BY <1>4, <2>1, <2>2
  <2> QED BY <1>3, <2>1, <2>4, <2>5 DEF PlainInv, ReadSoFar
<1>9. CASE IoSkip
  <2>1. status[ioIrp] # "ok" /\ UNCHANGED <<got, status>> BY <1>9 DEF IoSkip, ItemOk
  <2>2. served' = [served EXCEPT ![ioIrp] = @ + 1] /\ ioIrp \in Irps BY <1>9, ServedMoves DEF Serving
  <2>3. Pending' = Pending \/ Pending' = Pending \cup {ioReq} BY <1>9, PendingMoves
  <2>4. CASE i = ioIrp BY <1>3, <2>1, <2>4 DEF PlainInv
  <2>5. CASE i # ioIrp
    <3>1. served'[i] = served[i] BY <1>4, <2>2, <2>5
    <3>2. \A r : r.irp = i => (r \in Pending' <=> r \in Pending) BY <2>3, <2>5 DEF ioIrp
    <3> QED BY <1>3, <2>1, <3>1, <3>2 DEF PlainInv, ReadSoFar
  <2> QED BY <2>4, <2>5
<1>10. CASE ~IoRead /\ ~CompDecrypt /\ ~(MainFail \/ MainDeny \/ MainReadMisaligned) /\ ~IoWrite /\ ~IoSkip
  <2>1. UNCHANGED <<got, status, served>> BY <1>10, GotMoves, ServedMoves DEF Serving
  <2>2. Pending' = Pending BY <1>10, PendingMoves
  <2> QED BY <1>3, <2>1, <2>2 DEF PlainInv, ReadSoFar
<1> QED BY <1>5, <1>6, <1>7, <1>8, <1>9, <1>10

LEMMA PlainInit == ASSUME Init PROVE PlainInv
<1>1. /\ compQ = <<>> /\ pc["io"] = "wait" /\ pc["comp"] = "wait" /\ served = [i \in Irps |-> 0]
      /\ got = [i \in Irps |-> <<>>]
  BY DEF Init, Threads
<1>2. Pending = {} BY <1>1, EmptyQueue DEF Pending, Passing
<1> QED BY <1>1, <1>2 DEF PlainInv, ReadSoFar

\* Everything of a read whose completion is under way was decrypted.
LEMMA CompletingPlain ==
  ASSUME PipeInv, ReadTypes, PlainInv, NEW i \in Irps, phase[i] = "completing", status[i] = "ok"
  PROVE  \A k \in DOMAIN got[i] : ~got[i][k].enc
<1>1. ~Answered(i) BY DEF Answered
<1>2. CASE op[i].write BY <1>1, <1>2 DEF PlainInv
<1>3. CASE ~op[i].write
  <2>1. ReadSoFar(i) BY <1>1, <1>3 DEF PlainInv
  <2>2. got[i] \in Seq(Content) BY DEF ReadTypes
  <2>3. DOMAIN got[i] = 1 .. served[i] BY <2>1, <2>2 DEF ReadSoFar
  <2>4. \A r \in Pending : r.irp # i BY PendingFacts
  <2> QED BY <2>1, <2>3, <2>4 DEF ReadSoFar
<1> QED BY <1>2, <1>3

(***************************************************************************)
(* The plain disk.  What the refinement mapping of EncryptedIoQueue makes of *)
(* the state, and what has to hold of a step to be a step of the plain disk. *)
(***************************************************************************)
Standing(i) == CASE phase[i] \in {"new", "counted", "granted"} -> "new"
                 [] phase[i] \in {"rejecting", "rejected"} -> "rejected"
                 [] phase[i] \in {"queued", "completing"} -> "open"
                 [] OTHER -> "done"
Plain(i) == [k \in DOMAIN got[i] |-> got[i][k].val]
Reply(i) == IF Answered(i) /\ status[i] = "ok"
            THEN [k \in DOMAIN got[i] |-> IF got[i][k].enc THEN Unreadable ELSE got[i][k].val]
            ELSE <<>>
DiskOf == [b \in Blocks |-> dev[b].val]
StateOf == [i \in Irps |-> Standing(i)]
DataOf == [i \in Irps |-> Plain(i)]
AnswerOf == [i \in Irps |-> Reply(i)]

LEMMA DiskVarsKept ==
  ASSUME UNCHANGED <<DiskOf, op, StateOf, status, served, DataOf, AnswerOf, arrival>> PROVE UNCHANGED Disk!vars
BY DEF Disk!vars, DiskOf, StateOf, DataOf, AnswerOf, Standing, Plain, Reply

LEMMA DiskInit ==
  ASSUME DiskOf = [b \in Blocks |-> Origin], op \in [Irps -> Ops], StateOf = [i \in Irps |-> "new"],
         status = [i \in Irps |-> "ok"], served = [i \in Irps |-> 0], DataOf = [i \in Irps |-> <<>>],
         AnswerOf = [i \in Irps |-> <<>>], arrival = <<>>
  PROVE  Disk!Init
BY DEF Disk!Init, DiskOf, StateOf, DataOf, AnswerOf, Standing, Plain, Reply

LEMMA DiskSubmit ==
  ASSUME NEW i \in Irps, StateOf[i] = "new", StateOf' = [StateOf EXCEPT ![i] = "open"],
         arrival' = Append(arrival, i), UNCHANGED <<DiskOf, op, status, served, DataOf, AnswerOf>>
  PROVE  Disk!Next
<1>1. Disk!Submit(i) BY DEF Disk!Submit, DiskOf, StateOf, DataOf, AnswerOf, Standing, Plain, Reply
<1> QED BY <1>1 DEF Disk!Next

LEMMA DiskReject ==
  ASSUME NEW i \in Irps, StateOf[i] = "new", StateOf' = [StateOf EXCEPT ![i] = "rejected"],
         UNCHANGED <<DiskOf, op, status, served, DataOf, AnswerOf, arrival>>
  PROVE  Disk!Next
<1>1. Disk!Reject(i) BY DEF Disk!Reject, DiskOf, StateOf, DataOf, AnswerOf, Standing, Plain, Reply
<1> QED BY <1>1 DEF Disk!Next

LEMMA DiskServe ==
  ASSUME NEW i \in Irps, StateOf[i] = "open", served[i] # op[i].len, Disk!InTurn(i),
         served' = [served EXCEPT ![i] = @ + 1], UNCHANGED <<op, StateOf, AnswerOf, arrival>>
  PROVE  Disk!Serve(i)
BY DEF Disk!Serve, Disk!Finished, StateOf, AnswerOf, Standing, Reply

LEMMA DiskWrite ==
  ASSUME NEW i \in Irps, Disk!Serve(i), status[i] = "ok", op[i].write,
         DiskOf' = [DiskOf EXCEPT ![op[i].off + served[i]] = Fragment(i, served[i] + 1)],
         UNCHANGED <<status, DataOf>>
  PROVE  Disk!Next
<1>1. Disk!Write(i) BY DEF Disk!Write, Disk!BlockOf, DiskOf, DataOf, Plain
<1> QED BY <1>1 DEF Disk!Next

LEMMA DiskRead ==
  ASSUME NEW i \in Irps, Disk!Serve(i), status[i] = "ok", ~op[i].write,
         DataOf' = [DataOf EXCEPT ![i] = Append(@, DiskOf[op[i].off + served[i]])],
         UNCHANGED <<DiskOf, status>>
  PROVE  Disk!Next
<1>1. Disk!Read(i) BY DEF Disk!Read, Disk!BlockOf, DiskOf, DataOf, Plain
<1> QED BY <1>1 DEF Disk!Next

LEMMA DiskFail ==
  ASSUME NEW i \in Irps, Disk!Serve(i), status[i] = "ok", status' = [status EXCEPT ![i] = "error"],
         \/ UNCHANGED DiskOf
         \/ op[i].write /\ DiskOf' = [DiskOf EXCEPT ![op[i].off + served[i]] = Fragment(i, served[i] + 1)],
         UNCHANGED DataOf
  PROVE  Disk!Next
<1>1. Disk!Fail(i) BY DEF Disk!Fail, Disk!BlockOf, DiskOf, DataOf, Plain
<1> QED BY <1>1 DEF Disk!Next

LEMMA DiskSkip ==
  ASSUME NEW i \in Irps, Disk!Serve(i), status[i] # "ok", UNCHANGED <<DiskOf, status, DataOf>>
  PROVE  Disk!Next
<1>1. Disk!Skip(i) BY DEF Disk!Skip, DiskOf, DataOf, Plain
<1> QED BY <1>1 DEF Disk!Next

LEMMA DiskComplete ==
  ASSUME NEW i \in Irps, StateOf[i] = "open", served[i] = op[i].len, StateOf' = [StateOf EXCEPT ![i] = "done"],
         AnswerOf' = IF status[i] = "ok" THEN [AnswerOf EXCEPT ![i] = DataOf[i]] ELSE AnswerOf,
         UNCHANGED <<DiskOf, op, status, served, DataOf, arrival>>
  PROVE  Disk!Next
<1>1. Disk!Complete(i)
  BY DEF Disk!Complete, Disk!Finished, DiskOf, StateOf, DataOf, AnswerOf, Standing, Plain, Reply
<1> QED BY <1>1 DEF Disk!Next

LEMMA DiskRefuse ==
  ASSUME NEW i \in Irps, StateOf[i] = "open", served[i] = 0, StateOf' = [StateOf EXCEPT ![i] = "done"],
         NEW s \in {"error", "denied"}, status' = [status EXCEPT ![i] = s],
         UNCHANGED <<DiskOf, op, served, DataOf, AnswerOf, arrival>>
  PROVE  Disk!Next
<1>1. Disk!Refuse(i) BY DEF Disk!Refuse, DiskOf, StateOf, DataOf, AnswerOf, Standing, Plain, Reply
<1> QED BY <1>1 DEF Disk!Next

LEMMA DiskReadAtOnce ==
  ASSUME NEW i \in Irps, StateOf[i] = "open", ~op[i].aligned, ~op[i].write,
         StateOf' = [StateOf EXCEPT ![i] = "done"], served' = [served EXCEPT ![i] = op[i].len],
         NEW all, all = [k \in 1 .. op[i].len |-> DiskOf[op[i].off + k - 1]],
         DataOf' = [DataOf EXCEPT ![i] = all], AnswerOf' = [AnswerOf EXCEPT ![i] = all],
         UNCHANGED <<DiskOf, op, status, arrival>>
  PROVE  Disk!Next
<1>1. Disk!ReadAtOnce(i)
  BY DEF Disk!ReadAtOnce, DiskOf, StateOf, DataOf, AnswerOf, Standing, Plain, Reply
<1> QED BY <1>1 DEF Disk!Next

\* The standing of an IRP changes in the steps that submit, refuse or complete it.
LEMMA StandingKept ==
  ASSUME PipeInv, [Next]_vars, NEW i \in Irps,
         ~AddIrpInsert(i), ~AddIrpReject(i), ~WorkComplete(i),
         ~(i = mIrp /\ (MainFail \/ MainDeny \/ MainReadMisaligned))
  PROVE  Standing(i)' = Standing(i)
<1>1. phase = [j \in Irps |-> phase[j]] BY DEF PipeInv, PipeTypes
<1>2. phase'[i] = phase[i] => Standing(i)' = Standing(i) BY DEF Standing
<1>3. CASE UNCHANGED vars BY <1>2, <1>3 DEF vars
<1>4. CASE HoldBegin \/ HoldStep \/ StopBegin \/ StopStep BY <1>2, <1>4, Outsiders
<1>5. ASSUME NEW j \in Irps, AddIrp(j) PROVE Standing(i)' = Standing(i)
  <2>1. CASE j = i
    <3>1. CASE AddIrpCount(i)
      <4>1. phase[i] = "new" /\ phase'[i] = "counted" BY <1>1, <3>1 DEF AddIrpCount, Advance
      <4> QED BY <4>1 DEF Standing
    <3>2. CASE AddIrpAccept(i)
      <4>1. phase[i] = "counted" /\ phase'[i] = "granted" BY <1>1, <3>2 DEF AddIrpAccept, Advance
      <4> QED BY <4>1 DEF Standing
    <3>3. CASE AddIrpRejectSignal(i)
      <4>1. phase[i] = "rejecting" /\ phase'[i] = "rejected" BY <1>1, <3>3 DEF AddIrpRejectSignal, Advance
      <4> QED BY <4>1 DEF Standing
    <3> QED BY <1>5, <2>1, <3>1, <3>2, <3>3 DEF AddIrp
  <2>2. CASE j # i
    <3>1. \E p : phase' = [phase EXCEPT ![j] = p]
      BY <1>5 DEF AddIrp, AddIrpCount, AddIrpAccept, AddIrpReject, AddIrpRejectSignal, AddIrpInsert, Advance
    <3> QED BY <1>1, <1>2, <2>2, <3>1
  <2> QED BY <2>1, <2>2
<1>6. ASSUME NEW j \in Irps, CompleteIrpWorkItem(j) PROVE Standing(i)' = Standing(i)
  <2>1. CASE j = i
    <3>1. WorkSignal(i) \/ WorkRetire(i) \/ WorkReturn(i) \/ WorkPost(i) \/ WorkRelease(i)
      BY <1>6, <2>1 DEF CompleteIrpWorkItem
    <3>2. /\ phase[i] \in {"signal", "retire", "return", "post", "release"}
          /\ phase'[i] \in {"retire", "return", "post", "release", "done"}
      BY <1>1, <3>1 DEF WorkSignal, WorkRetire, WorkReturn, WorkPost, WorkRelease, Advance
    <3>3. Standing(i) = "done" /\ Standing(i)' = "done" BY <3>2 DEF Standing
    <3> QED BY <3>3
  <2>2. CASE j # i
    <3>1. \E p : phase' = [phase EXCEPT ![j] = p]
      BY <1>6 DEF CompleteIrpWorkItem, WorkComplete, WorkSignal, WorkRetire, WorkReturn, WorkPost, WorkRelease, Advance
    <3> QED BY <1>1, <1>2, <2>2, <3>1
  <2> QED BY <2>1, <2>2
<1>7. CASE MainThread
  <2>1. CASE MainFail \/ MainDeny \/ MainReadMisaligned
    <3>1. phase' = [phase EXCEPT ![mIrp] = "done"] /\ mIrp # i
      BY <2>1 DEF MainFail, MainDeny, MainReadMisaligned, MainComplete, Advance
    <3> QED BY <1>1, <1>2, <3>1
  <2>2. CASE ~(MainFail \/ MainDeny \/ MainReadMisaligned)
    <3>1. UNCHANGED phase
      BY <1>7, <2>2, Zenon DEF MainThread, MainWake, MainDequeue, MainGate, MainResumed, MainGetItem, MainPoolFreed,
         MainSignal, MainDrop, MainAccept, MainFragment, NextFragment, MainGetRequest, MainQueueIo
    <3> QED BY <1>2, <3>1
  <2> QED BY <2>1, <2>2
<1>8. CASE IoThread \/ CompletionThread
  <2>1. UNCHANGED phase \/ \E t \in {"io", "comp"} : pc[t] = "dispatch" /\ phase' = [phase EXCEPT ![req[t].irp] = "completing"]
    BY <1>8, Zenon DEF IoThread, IoWake, IoDequeue, IoSkip, IoWrite, IoRead, IoServed, IoDecideReadAhead, IoEnqueue,
       IoBeginReadAhead, IoReadAhead, IoEndReadAhead, IoSignal, CompletionThread, CompWake, CompDequeue, CompDecrypt,
       HandleComplete, AwaitWorkItem, DispatchWorkItem, ReleaseRequest, Advance
  <2>2. \A t \in {"io", "comp"} : pc[t] = "dispatch" => phase[req[t].irp] = "queued"
    BY DEF PipeInv, Stations, Handling
  <2>3. phase'[i] = phase[i] \/ (phase[i] = "queued" /\ phase'[i] = "completing") BY <1>1, <2>1, <2>2
  <2> QED BY <1>2, <2>3 DEF Standing
<1> QED BY <1>3, <1>4, <1>5, <1>6, <1>7, <1>8 DEF Next

\* An IRP that is not answered before and after a step has no reply in either.
LEMMA ReplyKept ==
  ASSUME NEW i, Answered(i)' <=> Answered(i), Answered(i) => status'[i] = status[i] /\ got'[i] = got[i]
  PROVE  Reply(i)' = Reply(i)
<1>1. CASE Answered(i) BY <1>1 DEF Reply
<1>2. CASE ~Answered(i) BY <1>2 DEF Reply
<1> QED BY <1>1, <1>2

LEMMA PlainKeptBy == ASSUME NEW i, got'[i] = got[i] PROVE Plain(i)' = Plain(i)
BY DEF Plain

\* Answered and open IRPs, as the plain disk has them.
LEMMA StandingMeans ==
  ASSUME NEW i
  PROVE  /\ Answered(i) => Standing(i) = "done"
         /\ phase[i] \in {"queued", "completing"} => Standing(i) = "open" /\ ~Answered(i)
         /\ phase[i] \in {"new", "counted", "granted"} => Standing(i) = "new" /\ ~Answered(i)
BY DEF Standing, Answered

\* The medium, seen as the plain disk.
LEMMA DiskKept == ASSUME PipeInv, MediumInv, [Next]_vars, ~IoWrite PROVE UNCHANGED DiskOf
<1>1. \A b \in Blocks : dev'[b].val = dev[b].val BY DeviceKeeps
<1> QED BY <1>1 DEF DiskOf

\* Decryption does not change whose data they are.
LEMMA DecryptKeeps ==
  ASSUME PipeInv, ReadTypes, PlainInv, [Next]_vars, CompDecrypt, NEW i \in Irps
  PROVE  /\ Plain(i)' = Plain(i) /\ (Answered(i) => got'[i] = got[i])
<1> DEFINE r == req["comp"]
<1>1. /\ UNCHANGED status /\ pc["comp"] = "decrypt"
      /\ got' = IF r.enc /\ status[r.irp] = "ok" THEN [got EXCEPT ![r.irp][r.frag] = Decrypt(@)] ELSE got
  BY DEF CompDecrypt
<1>2. r \in Pending BY <1>1 DEF Pending
<1>3. r.irp \in Irps /\ r.frag \in Nat \ {0} /\ phase[r.irp] = "queued" /\ ~op[r.irp].write
  BY <1>2, PendingFacts DEF Requests
<1>4. ~Answered(r.irp) BY <1>3 DEF Answered
<1>5. got \in [Irps -> Seq(Content)] /\ served \in [Irps -> Nat] BY DEF ReadTypes
<1> HIDE DEF r
<1>6. CASE i # r.irp
  <2>1. got'[i] = got[i] BY <1>1, <1>3, <1>5, <1>6
  <2> QED BY <2>1, PlainKeptBy
<1>7. CASE i = r.irp
  <2> SUFFICES Plain(i)' = Plain(i) BY <1>4, <1>7
  <2>1. CASE ~(r.enc /\ status[r.irp] = "ok")
    <3>1. got' = got BY <1>1, <2>1
    <3> QED BY <3>1, PlainKeptBy
  <2>2. CASE r.enc /\ status[r.irp] = "ok"
    <3>1. got'[i] = [got[i] EXCEPT ![r.frag] = Decrypt(@)] BY <1>1, <1>3, <1>5, <1>7, <2>2
    <3>2. ReadSoFar(i) BY <1>3, <1>4, <1>7, <2>2 DEF PlainInv
    <3>3. got[i] \in Seq(Content) /\ DOMAIN got[i] = 1 .. served[i] /\ served[i] \in Nat BY <1>5, <3>2 DEF ReadSoFar
    <3>4. r.frag \in DOMAIN got[i] BY <1>2, <1>3, <1>7, <3>2, <3>3 DEF ReadSoFar
    <3>5. Decrypt(got[i][r.frag]).val = got[i][r.frag].val
      <4>1. got[i][r.frag] \in Content BY <3>3, <3>4
      <4> QED BY <4>1 DEF Decrypt, Content
    <3>6. DOMAIN got'[i] = DOMAIN got[i] /\ \A k \in DOMAIN got[i] : got'[i][k].val = got[i][k].val
      <4>1. got[i] = [k \in DOMAIN got[i] |-> got[i][k]] BY <3>3
      <4> QED BY <3>1, <3>4, <3>5, <4>1
    <3> QED BY <3>6 DEF Plain
  <2> QED BY <2>1, <2>2
<1> QED BY <1>6, <1>7

LEMMA AnsweredKept ==
  ASSUME PipeInv, [Next]_vars, NEW i \in Irps, ~WorkComplete(i), ~(MainFail \/ MainDeny \/ MainReadMisaligned)
  PROVE  Answered(i)' <=> Answered(i)
BY PhasesMove

Quietly == /\ \A i \in Irps : ~AddIrpInsert(i) /\ ~AddIrpReject(i) /\ ~WorkComplete(i)
           /\ ~Serving /\ ~(MainFail \/ MainDeny \/ MainReadMisaligned)

LEMMA DiskStutters ==
  ASSUME PipeInv, MediumInv, ArrivalInv, ReadTypes, PlainInv, [Next]_vars, Quietly
  PROVE  UNCHANGED Disk!vars
<1>1. UNCHANGED <<op, status, served, arrival>> BY OpKept, GotMoves, ServedMoves, ArrivalGrows DEF Quietly, Serving
<1>2. UNCHANGED DiskOf BY DiskKept DEF Quietly, Serving
<1>3. \A i \in Irps : Standing(i)' = Standing(i) BY StandingKept DEF Quietly
<1>4. ASSUME NEW i \in Irps PROVE Plain(i)' = Plain(i) /\ (Answered(i) => got'[i] = got[i])
  <2>1. CASE CompDecrypt BY <2>1, DecryptKeeps
  <2>2. CASE ~CompDecrypt
    <3>1. UNCHANGED got BY <2>2, GotMoves DEF Quietly, Serving
    <3> QED BY <3>1, PlainKeptBy
  <2> QED BY <2>1, <2>2
<1>5. ASSUME NEW i \in Irps PROVE Reply(i)' = Reply(i)
  <2>1. Answered(i)' <=> Answered(i) BY AnsweredKept DEF Quietly
  <2> QED BY <1>1, <1>4, <2>1, ReplyKept
<1>6. UNCHANGED StateOf BY <1>3 DEF StateOf
<1>7. UNCHANGED DataOf
  <2>1. \A i \in Irps : Plain(i)' = Plain(i) BY <1>4
  <2> QED BY <2>1 DEF DataOf
<1>8. UNCHANGED AnswerOf
  <2>1. \A i \in Irps : Reply(i)' = Reply(i) BY <1>5
  <2> QED BY <2>1 DEF AnswerOf
<1>9. UNCHANGED <<DiskOf, op, StateOf, status, served, DataOf, AnswerOf, arrival>> BY <1>1, <1>2, <1>6, <1>7, <1>8
<1> QED BY <1>9, DiskVarsKept

\* EncryptedIoQueueAddIrp takes an IRP up, or turns it away.
LEMMA InsertSubmits == ASSUME PipeInv, [Next]_vars, NEW i \in Irps, AddIrpInsert(i) PROVE Disk!Next
<1>1. /\ phase[i] = "granted" /\ phase' = [phase EXCEPT ![i] = "queued"] /\ arrival' = Append(arrival, i)
      /\ UNCHANGED <<op, status, served, got, dev>>
  BY DEF AddIrpInsert, Advance, media
<1>2. phase = [j \in Irps |-> phase[j]] BY DEF PipeInv, PipeTypes
<1>3. phase'[i] = "queued" /\ \A j \in Irps : j # i => phase'[j] = phase[j] BY <1>1, <1>2
<1>4. Standing(i) = "new" /\ Standing(i)' = "open" BY <1>1, <1>3 DEF Standing
<1>5. \A j \in Irps : j # i => Standing(j)' = Standing(j) BY <1>3 DEF Standing
<1>6. \A j \in Irps : Answered(j)' <=> Answered(j) BY <1>1, <1>3 DEF Answered
<1>7. \A j \in Irps : Reply(j)' = Reply(j) /\ Plain(j)' = Plain(j) BY <1>1, <1>6, ReplyKept, PlainKeptBy
<1>8. StateOf[i] = "new" /\ StateOf' = [StateOf EXCEPT ![i] = "open"] BY <1>4, <1>5 DEF StateOf
<1>9. UNCHANGED <<DiskOf, DataOf, AnswerOf>> BY <1>1, <1>7 DEF DiskOf, DataOf, AnswerOf
<1> QED BY <1>1, <1>8, <1>9, DiskSubmit

LEMMA RejectRejects == ASSUME PipeInv, [Next]_vars, NEW i \in Irps, AddIrpReject(i) PROVE Disk!Next
<1>1. /\ phase[i] = "counted" /\ \E p \in {"rejecting", "rejected"} : phase' = [phase EXCEPT ![i] = p]
      /\ UNCHANGED <<op, status, served, got, dev, arrival>>
  BY DEF AddIrpReject, Advance, media, irps
<1>2. phase = [j \in Irps |-> phase[j]] BY DEF PipeInv, PipeTypes
<1>3. phase'[i] \in {"rejecting", "rejected"} /\ \A j \in Irps : j # i => phase'[j] = phase[j] BY <1>1, <1>2
<1>4. Standing(i) = "new" /\ Standing(i)' = "rejected" BY <1>1, <1>3 DEF Standing
<1>5. \A j \in Irps : j # i => Standing(j)' = Standing(j) BY <1>3 DEF Standing
<1>6. \A j \in Irps : Answered(j)' <=> Answered(j) BY <1>1, <1>3 DEF Answered
<1>7. \A j \in Irps : Reply(j)' = Reply(j) /\ Plain(j)' = Plain(j) BY <1>1, <1>6, ReplyKept, PlainKeptBy
<1>8. StateOf[i] = "new" /\ StateOf' = [StateOf EXCEPT ![i] = "rejected"] BY <1>4, <1>5 DEF StateOf
<1>9. UNCHANGED <<DiskOf, DataOf, AnswerOf>> BY <1>1, <1>7 DEF DiskOf, DataOf, AnswerOf
<1> QED BY <1>1, <1>8, <1>9, DiskReject

\* The work item completes an IRP of which everything was served, with what
\* was read, all of it decrypted.
LEMMA WorkCompletes ==
  ASSUME PipeInv, ReadTypes, ServedInv, PlainInv, [Next]_vars, NEW i \in Irps, WorkComplete(i) PROVE Disk!Next
<1>1. /\ phase[i] = "completing" /\ \E p \in {"signal", "retire"} : phase' = [phase EXCEPT ![i] = p]
      /\ UNCHANGED <<op, status, served, got, dev, arrival>>
  BY DEF WorkComplete, Advance, AfterDecrement, media, irps
<1>2. phase = [j \in Irps |-> phase[j]] BY DEF PipeInv, PipeTypes
<1>3. phase'[i] \in {"signal", "retire"} /\ \A j \in Irps : j # i => phase'[j] = phase[j] BY <1>1, <1>2
<1>4. Standing(i) = "open" /\ Standing(i)' = "done" BY <1>1, <1>3 DEF Standing
<1>5. \A j \in Irps : j # i => Standing(j)' = Standing(j) /\ (Answered(j)' <=> Answered(j))
  BY <1>3 DEF Standing, Answered
<1>6. \A j \in Irps : Plain(j)' = Plain(j) BY <1>1, PlainKeptBy
<1>7. \A j \in Irps : j # i => Reply(j)' = Reply(j) BY <1>1, <1>5, ReplyKept
<1>8. StateOf[i] = "open" /\ StateOf' = [StateOf EXCEPT ![i] = "done"] BY <1>4, <1>5 DEF StateOf
<1>9. UNCHANGED <<DiskOf, DataOf>> BY <1>1, <1>6 DEF DiskOf, DataOf
<1>10. served[i] = op[i].len BY <1>1, CompletingServed
<1>11. ~Answered(i) /\ Answered(i)' BY <1>1, <1>3 DEF Answered
<1>12. AnswerOf' = IF status[i] = "ok" THEN [AnswerOf EXCEPT ![i] = DataOf[i]] ELSE AnswerOf
  <2>1. CASE status[i] = "ok"
    <3>1. \A k \in DOMAIN got[i] : ~got[i][k].enc BY <1>1, <2>1, CompletingPlain
    <3>2. Reply(i)' = Plain(i) BY <1>1, <1>11, <2>1, <3>1 DEF Reply, Plain
    <3> QED BY <1>7, <2>1, <3>2 DEF AnswerOf, DataOf
  <2>2. CASE status[i] # "ok"
    <3>1. Reply(i)' = Reply(i) BY <1>1, <1>11, <2>2 DEF Reply
    <3> QED BY <1>7, <2>2, <3>1 DEF AnswerOf
  <2> QED BY <2>1, <2>2
<1> QED BY <1>1, <1>8, <1>9, <1>10, <1>12, DiskComplete

\* The main thread refuses an IRP of which nothing was served.
LEMMA MainRefuses ==
  ASSUME PipeInv, StatusInv, ReadTypes, ServedInv, [Next]_vars, MainFail \/ MainDeny,
         NEW i \in Irps, i = mIrp
  PROVE  Disk!Next
<1>1. /\ pc["main"] = "check" /\ phase' = [phase EXCEPT ![i] = "done"]
      /\ \E s \in {"error", "denied"} : status' = [status EXCEPT ![i] = s]
      /\ UNCHANGED <<op, served, got, dev, arrival>>
  BY DEF MainFail, MainDeny, MainComplete, Advance, media
<1>2. phase = [j \in Irps |-> phase[j]] BY DEF PipeInv, PipeTypes
<1>3. phase[i] = "queued" BY <1>1 DEF PipeInv, MainPlace, Early
<1>4. phase'[i] = "done" /\ \A j \in Irps : j # i => phase'[j] = phase[j] BY <1>1, <1>2, <1>3
<1>5. ~Answered(i) /\ Untouched(i) BY <1>1, <1>3 DEF Answered, Untouched, AtMain, Early
<1>6. served[i] = 0 BY <1>3, <1>5, UntouchedUnserved
<1>7. PICK s \in {"error", "denied"} : status' = [status EXCEPT ![i] = s] BY <1>1
<1>8. status'[i] = s /\ \A j \in Irps : j # i => status'[j] = status[j] BY <1>3, <1>7 DEF StatusInv
<1>9. Standing(i) = "open" /\ Standing(i)' = "done" BY <1>3, <1>4 DEF Standing
<1>10. \A j \in Irps : j # i => Standing(j)' = Standing(j) /\ (Answered(j)' <=> Answered(j))
  BY <1>4 DEF Standing, Answered
<1>11. \A j \in Irps : Plain(j)' = Plain(j) BY <1>1, PlainKeptBy
<1>12. \A j \in Irps : j # i => Reply(j)' = Reply(j) BY <1>1, <1>8, <1>10, ReplyKept
<1>13. Reply(i)' = Reply(i) BY <1>5, <1>8 DEF Reply
<1>14. StateOf[i] = "open" /\ StateOf' = [StateOf EXCEPT ![i] = "done"] BY <1>3, <1>9, <1>10 DEF StateOf
<1>15. \A j \in Irps : Reply(j)' = Reply(j) BY <1>12, <1>13
<1>16. UNCHANGED <<DiskOf, DataOf, AnswerOf>> BY <1>1, <1>11, <1>15 DEF DiskOf, DataOf, AnswerOf
<1> QED BY <1>1, <1>3, <1>6, <1>7, <1>14, <1>16, DiskRefuse

\* A misaligned read returns what is on the device.  Nobody rewrites a block
\* then, for an IRP past the gate is under way.
LEMMA MainReadsDevice ==
  ASSUME PipeInv, HoldInv, MediumInv, NEW i \in Irps, pc["main"] = "check", Misaligned(op[i]),
         NEW k \in 1 .. op[i].len
  PROVE  /\ BlockOf(i, k) \in Blocks /\ BlockOf(i, k) = op[i].off + k - 1
         /\ LET b == BlockOf(i, k)
                c == IF Encrypted(b) THEN Decrypt(dev[b]) ELSE dev[b]
            IN c.enc = FALSE /\ c.val = dev[b].val
<1>1. op[i] \in Ops /\ IsFilterDevice BY DEF PipeInv, PipeTypes, Misaligned
<1>2. Fits(i) BY <1>1, OpsAssumption DEF Fits
<1> DEFINE b == BlockOf(i, k)
<1>3. b \in Blocks BY <1>2, FitsBlock
<1>4. MainPastGate BY DEF MainPastGate
<1>5. pc["hold"] # "advance" BY <1>4 DEF HoldInv, HeldMeansQuiescent, Holding
<1>6. dev[b] \in Content /\ dev[b].enc = Encrypted(b) BY <1>3, <1>5 DEF MediumInv, DevInv, MediumMatchesArea
<1>7. Decrypt(dev[b]).enc = ~dev[b].enc /\ Decrypt(dev[b]).val = dev[b].val /\ dev[b].enc \in BOOLEAN
  BY <1>6 DEF Decrypt, Content
<1>8. b = op[i].off + k - 1 BY DEF BlockOf
<1> HIDE DEF b
<1>9. (IF Encrypted(b) THEN Decrypt(dev[b]) ELSE dev[b]).enc = FALSE BY <1>6, <1>7
<1>10. (IF Encrypted(b) THEN Decrypt(dev[b]) ELSE dev[b]).val = dev[b].val BY <1>7
<1> QED BY <1>3, <1>8, <1>9, <1>10 DEF b

LEMMA MainReadsAtOnce ==
  ASSUME PipeInv, HoldInv, MediumInv, ArrivalInv, StatusInv, ReadTypes, [Next]_vars, MainReadMisaligned,
         NEW i \in Irps, i = mIrp
  PROVE  Disk!Next
<1> DEFINE b(k) == BlockOf(i, k)
           c(k) == IF Encrypted(b(k)) THEN Decrypt(dev[b(k)]) ELSE dev[b(k)]
           all == [k \in 1 .. op[i].len |-> DiskOf[op[i].off + k - 1]]
<1>1. /\ pc["main"] = "check" /\ Misaligned(op[i]) /\ phase' = [phase EXCEPT ![i] = "done"]
      /\ served' = [served EXCEPT ![i] = op[i].len]
      /\ got' = [got EXCEPT ![i] = [k \in 1 .. op[i].len |-> c(k)]]
      /\ UNCHANGED <<op, status, dev, arrival>>
  BY DEF MainReadMisaligned, MainComplete, Advance, media
<1>2. phase = [j \in Irps |-> phase[j]] BY DEF PipeInv, PipeTypes
<1>3. phase[i] = "queued" BY <1>1 DEF PipeInv, MainPlace, Early
<1>4. \A k \in 1 .. op[i].len : b(k) \in Blocks /\ b(k) = op[i].off + k - 1 /\ c(k).enc = FALSE /\ c(k).val = dev[b(k)].val
  BY <1>1, <1>3, MainReadsDevice
<1>5. status[i] = "ok"
  <2>1. /\ arrival[Dequeued] = i /\ Decided = Dequeued - 1 BY <1>1 DEF ArrivalInv, Decided, Waiting, Early
  <2>2. /\ Len(arrival) \in Nat /\ DOMAIN arrival = 1 .. Len(arrival) /\ Decided \in Nat /\ Len(mainQ) \in Nat
    BY DEF ArrivalInv, PipeInv, PipeTypes
  <2>3. Dequeued \in DOMAIN arrival /\ Dequeued > Decided BY <2>1, <2>2 DEF Dequeued
  <2> QED BY <2>1, <2>3 DEF StatusInv
<1>6. got \in [Irps -> Seq(Content)] BY DEF ReadTypes
<1>7. \A j \in Irps : j # i => phase'[j] = phase[j] /\ got'[j] = got[j] BY <1>1, <1>2, <1>3, <1>6
<1>8. phase'[i] = "done" /\ got'[i] = [k \in 1 .. op[i].len |-> c(k)] BY <1>1, <1>2, <1>3, <1>6
<1>9. Answered(i)' BY <1>8 DEF Answered
<1>10. DOMAIN got'[i] = 1 .. op[i].len
       /\ \A k \in 1 .. op[i].len : got'[i][k].enc = FALSE /\ got'[i][k].val = DiskOf[op[i].off + k - 1]
  <2> HIDE DEF b, c
  <2>1. \A k \in 1 .. op[i].len : got'[i][k] = c(k) BY <1>8
  <2>2. \A k \in 1 .. op[i].len : DiskOf[op[i].off + k - 1] = dev[b(k)].val BY <1>4 DEF DiskOf
  <2> QED BY <1>4, <1>8, <2>1, <2>2
<1> HIDE DEF b, c
<1>11. Plain(i)' = all BY <1>10 DEF Plain
<1>12. Reply(i)' = all BY <1>1, <1>5, <1>9, <1>10 DEF Reply
<1>13. Standing(i) = "open" /\ Standing(i)' = "done" BY <1>3, <1>8 DEF Standing
<1>14. \A j \in Irps : j # i => Standing(j)' = Standing(j) /\ (Answered(j)' <=> Answered(j))
  BY <1>7 DEF Standing, Answered
<1>15. \A j \in Irps : j # i => Plain(j)' = Plain(j) /\ Reply(j)' = Reply(j)
  BY <1>1, <1>7, <1>14, ReplyKept, PlainKeptBy
<1> HIDE DEF all
<1>16. StateOf[i] = "open" /\ StateOf' = [StateOf EXCEPT ![i] = "done"] BY <1>3, <1>13, <1>14 DEF StateOf
<1>17. DataOf' = [DataOf EXCEPT ![i] = all] BY <1>11, <1>15 DEF DataOf
<1>18. AnswerOf' = [AnswerOf EXCEPT ![i] = all] BY <1>12, <1>15 DEF AnswerOf
<1>19. UNCHANGED DiskOf BY <1>1 DEF DiskOf
<1>20. ~op[i].aligned /\ ~op[i].write BY <1>1 DEF Misaligned
<1>21. all = [k \in 1 .. op[i].len |-> DiskOf[op[i].off + k - 1]] BY DEF all
<1> QED BY <1>1, <1>3, <1>16, <1>17, <1>18, <1>19, <1>20, <1>21, DiskReadAtOnce

\* The I/O thread serves the next block of the IRP whose turn it is.
LEMMA TurnMeans ==
  ASSUME PipeInv, ReadTypes, ArrivalInv, ServedInv, TurnInv, pc["io"] = "perform" PROVE Disk!InTurn(ioIrp)
<1>1. PICK n \in DOMAIN arrival :
        /\ arrival[n] = ioIrp
        /\ \A m \in 1 .. n - 1 : Answered(arrival[m]) \/ served[arrival[m]] = op[arrival[m]].len
  BY InTurn
<1>2. arrival \in Seq(Irps) BY DEF ArrivalInv
<1>3. \A m \in 1 .. n - 1 : arrival[m] \in Irps BY <1>2
<1>4. \A m \in 1 .. n - 1 : StateOf[arrival[m]] = "done" \/ served[arrival[m]] = op[arrival[m]].len
  BY <1>1, <1>3, StandingMeans DEF StateOf
<1> QED BY <1>1, <1>4 DEF Disk!InTurn, Disk!Finished, StateOf, Standing

LEMMA ServingServes ==
  ASSUME PipeInv, ReadTypes, ArrivalInv, StatusInv, ServedInv, TurnInv, [Next]_vars, Serving,
         NEW i \in Irps, i = ioIrp
  PROVE  /\ Disk!Serve(i) /\ UNCHANGED <<op, phase>>
         /\ ioBlock = op[i].off + served[i] /\ ioReq.frag = served[i] + 1 /\ ioReq.irp = i
<1>1. pc["io"] = "perform" /\ phase[i] = "queued" /\ served' = [served EXCEPT ![i] = @ + 1] BY ServedMoves
<1>2. /\ served[i] \in Nat /\ ioReq.frag = served[i] + 1 /\ ioReq.frag <= op[i].len BY <1>1, NextServed
<1>3. UNCHANGED <<op, phase, arrival>> /\ (\A j \in Irps : j # i => got'[j] = got[j] /\ status'[j] = status[j])
  <2>1. /\ UNCHANGED got \/ \E c : got' = [got EXCEPT ![i] = c]
        /\ UNCHANGED status \/ \E c : status' = [status EXCEPT ![i] = c]
    BY DEF Serving, IoSkip, IoWrite, IoRead
  <2>2. UNCHANGED <<op, phase, arrival>> BY DEF Serving, IoSkip, IoWrite, IoRead, IoServed
  <2> QED BY <2>1, <2>2 DEF ReadTypes, StatusInv
<1>4. \A j \in Irps : Answered(j)' <=> Answered(j) BY <1>3 DEF Answered
<1>5. ~Answered(i) BY <1>1 DEF Answered
<1>6. \A j \in Irps : Reply(j)' = Reply(j) BY <1>3, <1>4, <1>5, ReplyKept
<1>7. UNCHANGED AnswerOf BY <1>6 DEF AnswerOf
<1>8. \A j \in Irps : Standing(j)' = Standing(j) BY <1>3 DEF Standing
<1>9. UNCHANGED StateOf BY <1>8 DEF StateOf
<1>10. StateOf[i] = "open" BY <1>1, StandingMeans DEF StateOf
<1>11. served[i] # op[i].len
  <2>1. op[i].len \in Nat BY HandedNat
  <2> QED BY <1>2, <2>1
<1>12. Disk!InTurn(i) BY <1>1, TurnMeans
<1>13. Disk!Serve(i) BY <1>1, <1>3, <1>7, <1>9, <1>10, <1>11, <1>12, DiskServe
<1>14. ioBlock = op[i].off + served[i]
  <2>1. op[i].off \in Int BY OpTypes DEF PipeInv, PipeTypes
  <2>2. ioBlock = op[i].off + ioReq.frag - 1 BY DEF ioBlock, BlockOf
  <2> QED BY <1>2, <2>1, <2>2
<1> QED BY <1>2, <1>3, <1>13, <1>14 DEF ioIrp

LEMMA SkipSkips ==
  ASSUME PipeInv, MediumInv, ReadTypes, ArrivalInv, StatusInv, ServedInv, TurnInv, [Next]_vars, IoSkip,
         NEW i \in Irps, i = ioIrp
  PROVE  Disk!Next
<1>1. Disk!Serve(i) BY ServingServes DEF Serving
<1>2. status[i] # "ok" /\ UNCHANGED <<dev, status, got>> BY DEF IoSkip, ItemOk
<1>3. UNCHANGED DiskOf BY <1>2 DEF DiskOf
<1>4. \A j \in Irps : Plain(j)' = Plain(j) BY <1>2, PlainKeptBy
<1>5. UNCHANGED DataOf BY <1>4 DEF DataOf
<1> QED BY <1>1, <1>2, <1>3, <1>5, DiskSkip

\* A write puts its fragment in the block, or fails and may have.
LEMMA WriteWrites ==
  ASSUME PipeInv, HoldInv, MediumInv, AddressInv, AheadTypes, ReadTypes, ArrivalInv, StatusInv, ServedInv, TurnInv,
         [Next]_vars, IoWrite, NEW i \in Irps, i = ioIrp
  PROVE  Disk!Next
<1>1. /\ Disk!Serve(i) /\ ioBlock = op[i].off + served[i] /\ ioReq.frag = served[i] + 1 /\ ioReq.irp = i
  BY ServingServes DEF Serving
<1>2. /\ pc["io"] = "perform" /\ status[i] = "ok" /\ op[i].write /\ UNCHANGED got
      /\ \/ UNCHANGED status /\ dev' = [dev EXCEPT ![ioBlock] = fragBuf[ioReq.buf]]
         \/ /\ status' = [status EXCEPT ![i] = "error"]
            /\ UNCHANGED dev \/ dev' = [dev EXCEPT ![ioBlock] = fragBuf[ioReq.buf]]
  BY DEF IoWrite, ItemOk
<1>3. ioBlock \in Blocks BY <1>2, BlockRead
<1>4. fragBuf[ioReq.buf].val = Fragment(i, served[i] + 1)
  <2>1. Ready(ioReq, op, areaEnd, fragBuf) BY <1>2 DEF MediumInv, ReadyInv, Transfers
  <2> QED BY <1>1, <1>2, <2>1 DEF Ready
<1>5. dev \in [Blocks -> Content] BY DEF MediumInv, DevInv
<1>6. ASSUME dev' = [dev EXCEPT ![ioBlock] = fragBuf[ioReq.buf]]
      PROVE  DiskOf' = [DiskOf EXCEPT ![op[i].off + served[i]] = Fragment(i, served[i] + 1)]
  <2>1. \A b \in Blocks : dev'[b].val = IF b = ioBlock THEN Fragment(i, served[i] + 1) ELSE dev[b].val
    BY <1>3, <1>4, <1>5, <1>6
  <2> QED BY <1>1, <1>3, <2>1 DEF DiskOf
<1>7. \A j \in Irps : Plain(j)' = Plain(j) BY <1>2, PlainKeptBy
<1>8. UNCHANGED DataOf BY <1>7 DEF DataOf
<1>9. UNCHANGED dev => UNCHANGED DiskOf BY DEF DiskOf
<1>10. CASE UNCHANGED status /\ dev' = [dev EXCEPT ![ioBlock] = fragBuf[ioReq.buf]]
  BY <1>1, <1>2, <1>6, <1>8, <1>10, DiskWrite
<1>11. CASE /\ status' = [status EXCEPT ![i] = "error"]
            /\ UNCHANGED dev \/ dev' = [dev EXCEPT ![ioBlock] = fragBuf[ioReq.buf]]
  <2>1. UNCHANGED DiskOf \/ DiskOf' = [DiskOf EXCEPT ![op[i].off + served[i]] = Fragment(i, served[i] + 1)]
    BY <1>6, <1>9, <1>11
  <2> QED BY <1>1, <1>2, <1>8, <1>11, <2>1, DiskFail
<1> QED BY <1>2, <1>10, <1>11

\* A read appends what the block holds, or fails.
LEMMA PlainAppend ==
  ASSUME NEW q \in Seq(Content), NEW c \in Content,
         NEW a, a = Append(q, c)
  PROVE  [k \in DOMAIN a |-> a[k].val] = Append([k \in DOMAIN q |-> q[k].val], c.val)
<1> DEFINE p == [k \in DOMAIN q |-> q[k].val]
           s == [k \in DOMAIN a |-> a[k].val]
<1>1. /\ a \in Seq(Content) /\ Len(a) = Len(q) + 1 /\ a[Len(q) + 1] = c /\ \A k \in 1 .. Len(q) : a[k] = q[k]
      /\ Len(q) \in Nat /\ DOMAIN q = 1 .. Len(q) /\ DOMAIN a = 1 .. Len(q) + 1
  OBVIOUS
<1>2. \A x \in Content : x.val \in Writers BY DEF Content
<1>3. p \in Seq(Writers) /\ Len(p) = Len(q) /\ \A k \in 1 .. Len(q) : p[k] = q[k].val
  <2>1. \A k \in 1 .. Len(q) : q[k].val \in Writers BY <1>2
  <2>2. p \in [1 .. Len(q) -> Writers] BY <1>1, <2>1
  <2> QED BY <1>1, <2>2, SeqDef
<1>4. s \in Seq(Writers) /\ Len(s) = Len(q) + 1 /\ \A k \in 1 .. Len(q) + 1 : s[k] = a[k].val
  <2>1. \A k \in 1 .. Len(q) + 1 : a[k].val \in Writers BY <1>1, <1>2
  <2>2. s \in [1 .. Len(q) + 1 -> Writers] BY <1>1, <2>1
  <2> QED BY <1>1, <2>2, SeqDef
<1> HIDE DEF p, s
<1>5. c.val \in Writers BY <1>2
<1>6. /\ Append(p, c.val) \in Seq(Writers) /\ Len(Append(p, c.val)) = Len(q) + 1
      /\ Append(p, c.val)[Len(q) + 1] = c.val /\ \A k \in 1 .. Len(q) : Append(p, c.val)[k] = q[k].val
  BY <1>1, <1>3, <1>5
<1>7. \A k \in 1 .. Len(q) + 1 : s[k] = Append(p, c.val)[k]
  <2> SUFFICES ASSUME NEW k \in 1 .. Len(q) + 1 PROVE s[k] = Append(p, c.val)[k] OBVIOUS
  <2>1. CASE k = Len(q) + 1 BY <1>1, <1>4, <1>6, <2>1
  <2>2. CASE k # Len(q) + 1
    <3>1. k \in 1 .. Len(q) BY <1>1, <2>2
    <3> QED BY <1>1, <1>4, <1>6, <3>1
  <2> QED BY <2>1, <2>2
<1>8. s = Append(p, c.val) BY <1>4, <1>6, <1>7, SeqEqual
<1> QED BY <1>8 DEF p, s

LEMMA ReadReads ==
  ASSUME PipeInv, HoldInv, MediumInv, AddressInv, AheadTypes, ReadTypes, ArrivalInv, StatusInv, ServedInv, TurnInv,
         [Next]_vars, IoRead, NEW i \in Irps, i = ioIrp
  PROVE  Disk!Next
<1>1. Disk!Serve(i) /\ ioBlock = op[i].off + served[i] BY ServingServes DEF Serving
<1>2. /\ pc["io"] = "perform" /\ status[i] = "ok" /\ ~op[i].write
      /\ \/ UNCHANGED status /\ got' = [got EXCEPT ![i] = Append(@, dev[ioBlock])]
         \/ status' = [status EXCEPT ![i] = "error"] /\ UNCHANGED got
  BY ReadMoves
<1>3. UNCHANGED DiskOf
  <2>1. UNCHANGED dev BY DEF IoRead
  <2> QED BY <2>1 DEF DiskOf
<1>4. CASE UNCHANGED status /\ got' = [got EXCEPT ![i] = Append(@, dev[ioBlock])]
  <2>1. ioBlock \in Blocks /\ dev[ioBlock] \in Content BY <1>2, BlockRead
  <2>2. got \in [Irps -> Seq(Content)] BY DEF ReadTypes
  <2>3. got'[i] = Append(got[i], dev[ioBlock]) /\ \A j \in Irps : j # i => got'[j] = got[j] BY <1>4, <2>2
  <2>4. Plain(i)' = Append(Plain(i), dev[ioBlock].val)
    <3>1. got[i] \in Seq(Content) BY <2>2
    <3> QED BY <2>1, <2>3, <3>1, PlainAppend DEF Plain
  <2>5. DiskOf[op[i].off + served[i]] = dev[ioBlock].val BY <1>1, <2>1 DEF DiskOf
  <2>6. \A j \in Irps : j # i => Plain(j)' = Plain(j) BY <2>3, PlainKeptBy
  <2>7. DataOf' = [DataOf EXCEPT ![i] = Append(@, DiskOf[op[i].off + served[i]])] BY <2>4, <2>5, <2>6 DEF DataOf
  <2> QED BY <1>1, <1>2, <1>3, <1>4, <2>7, DiskRead
<1>5. CASE status' = [status EXCEPT ![i] = "error"] /\ UNCHANGED got
  <2>1. \A j \in Irps : Plain(j)' = Plain(j) BY <1>5, PlainKeptBy
  <2>2. UNCHANGED DataOf BY <2>1 DEF DataOf
  <2> QED BY <1>1, <1>2, <1>3, <1>5, <2>2, DiskFail
<1> QED BY <1>2, <1>4, <1>5

\* Init maps to the initial states of the plain disk, and every step to one of
\* its steps or to none.
DiskInv == /\ PipeInv /\ HoldInv /\ MediumInv /\ ArrivalInv /\ StatusInv /\ TypesInv
           /\ ServedInv /\ TurnInv /\ PlainInv

LEMMA StartsAsDisk == ASSUME Init PROVE Disk!Init
<1>1. /\ dev = [b \in Blocks |-> [val |-> Origin, enc |-> Encrypted(b)]] /\ op \in [Irps -> Ops]
      /\ phase = [i \in Irps |-> "new"] /\ status = [i \in Irps |-> "ok"] /\ served = [i \in Irps |-> 0]
      /\ got = [i \in Irps |-> <<>>] /\ arrival = <<>>
  BY DEF Init
<1>2. DiskOf = [b \in Blocks |-> Origin] BY <1>1 DEF DiskOf
<1>3. \A i \in Irps : phase[i] = "new" /\ got[i] = <<>> BY <1>1
<1>4. \A i \in Irps : Standing(i) = "new" /\ ~Answered(i) BY <1>3, StandingMeans
<1>5. StateOf = [i \in Irps |-> "new"] BY <1>4 DEF StateOf
<1>6. DataOf = [i \in Irps |-> <<>>]
  <2>1. \A i \in Irps : Plain(i) = <<>> BY <1>3 DEF Plain
  <2> QED BY <2>1 DEF DataOf
<1>7. AnswerOf = [i \in Irps |-> <<>>]
  <2>1. \A i \in Irps : Reply(i) = <<>> BY <1>4 DEF Reply
  <2> QED BY <2>1 DEF AnswerOf
<1> QED BY <1>1, <1>2, <1>5, <1>6, <1>7, DiskInit

LEMMA StepsAsDisk == ASSUME DiskInv, [Next]_vars PROVE [Disk!Next]_(Disk!vars)
<1> USE DEF DiskInv
<1>1. AddressInv /\ AheadTypes /\ ReadTypes BY DEF TypesInv
<1>2. ASSUME NEW i \in Irps, AddIrpInsert(i) PROVE Disk!Next BY <1>2, InsertSubmits
<1>3. ASSUME NEW i \in Irps, AddIrpReject(i) PROVE Disk!Next BY <1>3, RejectRejects
<1>4. ASSUME NEW i \in Irps, WorkComplete(i) PROVE Disk!Next BY <1>1, <1>4, WorkCompletes
<1>5. CASE MainFail \/ MainDeny \/ MainReadMisaligned
  <2>1. mIrp \in Irps
    BY <1>5 DEF MainFail, MainDeny, MainReadMisaligned, PipeInv, PipeTypes, Early
  <2>2. PICK i \in Irps : i = mIrp BY <2>1
  <2> QED BY <1>1, <1>5, <2>2, MainRefuses, MainReadsAtOnce
<1>6. CASE Serving
  <2>1. ioIrp \in Irps BY <1>1, <1>6, ServedMoves
  <2>2. PICK i \in Irps : i = ioIrp BY <2>1
  <2> QED BY <1>1, <1>6, <2>2, SkipSkips, WriteWrites, ReadReads DEF Serving
<1>7. CASE Quietly BY <1>1, <1>7, DiskStutters
<1> QED BY <1>2, <1>3, <1>4, <1>5, <1>6, <1>7 DEF Quietly

\* The queue with the setup thread is a plain disk: IRPs are served in the
\* order of their arrival, block by block, each is answered once and after its
\* last block, with what was written before it, in the clear
\* (EncryptedIoQueue.c, MainThreadProc, IoThreadProc and CompletionThreadProc).
THEOREM QueueIsDisk == Spec => IsTransparentDisk
<1> DEFINE Inv == PipeInv /\ OutstandingExact /\ HoldInv /\ BufInv /\ MediumInv /\ WorkInv /\ PoolInv /\ StopInv
                 /\ ArrivalInv /\ StatusInv /\ TypesInv /\ ServedInv /\ TurnInv /\ PlainInv
<1>1. Init => Inv
  BY PipeInit, CountInit, HoldInit, BufInit, MediumInit, WorkInit, PoolInit, StopInit, OrderInit, TypesInit,
     ServedInit, TurnInit, PlainInit
<1>2. Inv /\ [Next]_vars => Inv'
  <2> SUFFICES ASSUME Inv, [Next]_vars PROVE Inv' OBVIOUS
  <2>1. AddressInv /\ AheadTypes /\ ReadTypes BY DEF TypesInv
  <2>2. /\ PipeInv' /\ OutstandingExact' /\ HoldInv' /\ BufInv' /\ MediumInv' /\ WorkInv' /\ PoolInv' /\ StopInv'
        /\ ArrivalInv' /\ StatusInv' /\ TypesInv'
    BY PipeStep, CountStep, HoldKept, BufKept, MediumKept, WorkKept, PoolKept, StopKept, OrderKept, TypesKept DEF HoldInv
  <2>3. ServedInv' /\ TurnInv' /\ PlainInv' BY <2>1, ServedKept, TurnKept, PlainKept
  <2> QED BY <2>2, <2>3
<1>3. Inv => DiskInv BY DEF DiskInv
<1>4. Init => Disk!Init BY StartsAsDisk
<1>5. DiskInv /\ [Next]_vars => [Disk!Next]_(Disk!vars) BY StepsAsDisk
<1> HIDE DEF Inv
<1> QED BY <1>1, <1>2, <1>3, <1>4, <1>5, PTL DEF Spec, IsTransparentDisk, Disk!Spec
=============================================================================
