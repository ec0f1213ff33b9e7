---------------------- MODULE EncryptedIoQueue_pipeline ----------------------
(***************************************************************************)
(* Where the requests of an IRP are between the threads of the queue, and   *)
(* what follows: the count of outstanding I/O is exact, and a hold finds    *)
(* the queue quiet.  Last, the completion work items suffice.  For every    *)
(* set of IRPs and every value of the other constants.                      *)
(***************************************************************************)
EXTENDS EncryptedIoQueue, FiniteSetTheorems, TLAPS

(***************************************************************************)
(* Queues.  Two requests of one IRP are in order if the fragments rise.     *)
(***************************************************************************)
Elements(q) == {q[n] : n \in DOMAIN q}
Distinct(q) == \A m, n \in DOMAIN q : m # n => q[m] # q[n]
Before(r, s) == r.irp = s.irp => r.frag < s.frag
Ordered(q) == \A m, n \in DOMAIN q : m < n => Before(q[m], q[n])

LEMMA EmptyQueue == Elements(<<>>) = {} /\ Distinct(<<>>) /\ Ordered(<<>>)
BY DEF Elements, Distinct, Ordered

LEMMA NoElements ==
  ASSUME NEW S, NEW q \in Seq(S) PROVE Elements(q) = {} <=> q = <<>>
<1>1. ASSUME Elements(q) = {} PROVE q = <<>>
  <2> SUFFICES ASSUME q # <<>> PROVE FALSE OBVIOUS
  <2>1. 1 \in DOMAIN q OBVIOUS
  <2>2. q[1] \in Elements(q) BY <2>1 DEF Elements
  <2> QED BY <1>1, <2>2
<1> QED BY <1>1, EmptyQueue

LEMMA ElementsAppend ==
  ASSUME NEW S, NEW q \in Seq(S), NEW e \in S
  PROVE  Append(q, e) \in Seq(S) /\ Elements(Append(q, e)) = Elements(q) \cup {e}
<1>1. Len(Append(q, e)) = Len(q) + 1 /\ Len(q) \in Nat OBVIOUS
<1>2. \A n \in 1 .. Len(q) : Append(q, e)[n] = q[n] OBVIOUS
<1>3. Append(q, e)[Len(q) + 1] = e OBVIOUS
<1>4. DOMAIN Append(q, e) = 1 .. Len(q) + 1 /\ DOMAIN q = 1 .. Len(q) OBVIOUS
<1>5. ASSUME NEW x \in Elements(Append(q, e)) PROVE x \in Elements(q) \cup {e}
  <2>1. PICK n \in 1 .. Len(q) + 1 : x = Append(q, e)[n] BY <1>4, <1>5 DEF Elements
  <2>2. CASE n = Len(q) + 1 BY <2>1, <2>2, <1>3
  <2>3. CASE n \in 1 .. Len(q) BY <2>1, <2>3, <1>2, <1>4 DEF Elements
  <2> QED BY <1>1, <2>2, <2>3
<1>6. ASSUME NEW x \in Elements(q) PROVE x \in Elements(Append(q, e))
  <2>1. PICK n \in 1 .. Len(q) : x = q[n] BY <1>4, <1>6 DEF Elements
  <2>2. n \in 1 .. Len(q) + 1 /\ x = Append(q, e)[n] BY <1>1, <1>2, <2>1
  <2> QED BY <2>2, <1>4 DEF Elements
<1>7. e \in Elements(Append(q, e))
  <2>1. Len(q) + 1 \in DOMAIN Append(q, e) BY <1>1, <1>4
  <2> QED BY <2>1, <1>3 DEF Elements
<1> QED BY <1>5, <1>6, <1>7

LEMMA OrderedAppend ==
  ASSUME NEW S, NEW q \in Seq(S), NEW e \in S, Ordered(q), \A r \in Elements(q) : Before(r, e)
  PROVE  Ordered(Append(q, e))
<1>1. Len(Append(q, e)) = Len(q) + 1 /\ Len(q) \in Nat OBVIOUS
<1>2. \A n \in 1 .. Len(q) : Append(q, e)[n] = q[n] OBVIOUS
<1>3. Append(q, e)[Len(q) + 1] = e OBVIOUS
<1>4. DOMAIN Append(q, e) = 1 .. Len(q) + 1 /\ DOMAIN q = 1 .. Len(q) OBVIOUS
<1>5. SUFFICES ASSUME NEW m \in 1 .. Len(q) + 1, NEW n \in 1 .. Len(q) + 1, m < n
               PROVE  Before(Append(q, e)[m], Append(q, e)[n])
  BY <1>4 DEF Ordered
<1>6. m \in 1 .. Len(q) BY <1>1, <1>5
<1>7. CASE n = Len(q) + 1
  <2>1. q[m] \in Elements(q) BY <1>4, <1>6 DEF Elements
  <2> QED BY <1>2, <1>3, <1>6, <1>7, <2>1
<1>8. CASE n \in 1 .. Len(q) BY <1>2, <1>4, <1>5, <1>6, <1>8 DEF Ordered
<1> QED BY <1>1, <1>7, <1>8

LEMMA DistinctAppend ==
  ASSUME NEW S, NEW q \in Seq(S), NEW e \in S, Distinct(q), e \notin Elements(q)
  PROVE  Distinct(Append(q, e))
<1>1. Len(Append(q, e)) = Len(q) + 1 /\ Len(q) \in Nat OBVIOUS
<1>2. \A n \in 1 .. Len(q) : Append(q, e)[n] = q[n] /\ Append(q, e)[n] # e
  BY DEF Elements
<1>3. Append(q, e)[Len(q) + 1] = e OBVIOUS
<1>4. DOMAIN Append(q, e) = 1 .. Len(q) + 1 /\ DOMAIN q = 1 .. Len(q) OBVIOUS
<1> QED BY <1>1, <1>2, <1>3, <1>4 DEF Distinct

LEMMA HeadAndTail ==
  ASSUME NEW S, NEW q \in Seq(S), q # <<>>
  PROVE  /\ Head(q) \in S /\ Tail(q) \in Seq(S)
         /\ Elements(q) = Elements(Tail(q)) \cup {Head(q)}
<1>1. Len(q) \in Nat /\ Len(q) >= 1 /\ Len(Tail(q)) = Len(q) - 1 /\ Head(q) = q[1] OBVIOUS
<1>2. \A n \in 1 .. Len(q) - 1 : Tail(q)[n] = q[n + 1] OBVIOUS
<1>3. Tail(q) \in Seq(S) /\ DOMAIN Tail(q) = 1 .. Len(q) - 1 /\ DOMAIN q = 1 .. Len(q) OBVIOUS
<1>4. ASSUME NEW x \in Elements(q) PROVE x \in Elements(Tail(q)) \cup {Head(q)}
  <2>1. PICK n \in 1 .. Len(q) : x = q[n] BY <1>3, <1>4 DEF Elements
  <2>2. CASE n = 1 BY <1>1, <2>1, <2>2
  <2>3. CASE n # 1
    <3>1. n - 1 \in 1 .. Len(q) - 1 /\ (n - 1) + 1 = n BY <1>1, <2>3
    <3>2. x = Tail(q)[n - 1] BY <1>2, <2>1, <3>1
    <3> QED BY <1>3, <3>1, <3>2 DEF Elements
  <2> QED BY <2>2, <2>3
<1>5. ASSUME NEW x \in Elements(Tail(q)) PROVE x \in Elements(q)
  <2>1. PICK n \in 1 .. Len(q) - 1 : x = Tail(q)[n] BY <1>3, <1>5 DEF Elements
  <2>2. n + 1 \in DOMAIN q /\ x = q[n + 1] BY <1>1, <1>2, <1>3, <2>1
  <2> QED BY <2>2 DEF Elements
<1>6. Head(q) \in Elements(q) BY <1>1, <1>3 DEF Elements
<1> QED BY <1>1, <1>3, <1>4, <1>5, <1>6

LEMMA OrderedTail ==
  ASSUME NEW S, NEW q \in Seq(S), q # <<>>, Ordered(q)
  PROVE  Ordered(Tail(q)) /\ \A r \in Elements(Tail(q)) : Before(Head(q), r)
<1>1. Len(q) \in Nat /\ Len(q) >= 1 /\ Head(q) = q[1] OBVIOUS
<1>2. \A n \in 1 .. Len(q) - 1 : Tail(q)[n] = q[n + 1] /\ n + 1 \in DOMAIN q /\ 1 \in DOMAIN q /\ n + 1 > 1
  OBVIOUS
<1>3. DOMAIN Tail(q) = 1 .. Len(q) - 1 OBVIOUS
<1>4. Ordered(Tail(q))
  <2> SUFFICES ASSUME NEW m \in 1 .. Len(q) - 1, NEW n \in 1 .. Len(q) - 1, m < n
               PROVE  Before(Tail(q)[m], Tail(q)[n])
    BY <1>3 DEF Ordered
  <2>1. m + 1 < n + 1 BY <1>1
  <2> QED BY <1>2, <2>1 DEF Ordered
<1>5. ASSUME NEW r \in Elements(Tail(q)) PROVE Before(Head(q), r)
  <2>1. PICK n \in 1 .. Len(q) - 1 : r = Tail(q)[n] BY <1>3, <1>5 DEF Elements
  <2> QED BY <1>1, <1>2, <2>1 DEF Ordered
<1> QED BY <1>4, <1>5

LEMMA DistinctTail ==
  ASSUME NEW S, NEW q \in Seq(S), q # <<>>, Distinct(q)
  PROVE  Distinct(Tail(q)) /\ Head(q) \notin Elements(Tail(q))
<1>1. Len(q) \in Nat /\ Len(q) >= 1 /\ Head(q) = q[1] OBVIOUS
<1>2. \A n \in 1 .. Len(q) - 1 : Tail(q)[n] = q[n + 1] /\ n + 1 \in DOMAIN q /\ 1 \in DOMAIN q /\ n + 1 # 1
  OBVIOUS
<1>3. DOMAIN Tail(q) = 1 .. Len(q) - 1 OBVIOUS
<1>4. Distinct(Tail(q))
  <2> SUFFICES ASSUME NEW m \in 1 .. Len(q) - 1, NEW n \in 1 .. Len(q) - 1, m # n
               PROVE  Tail(q)[m] # Tail(q)[n]
    BY <1>3 DEF Distinct
  <2>1. m + 1 # n + 1 BY <1>1
  <2> QED BY <1>2, <2>1 DEF Distinct
<1>5. ASSUME NEW r \in Elements(Tail(q)) PROVE Head(q) # r
  <2>1. PICK n \in 1 .. Len(q) - 1 : r = Tail(q)[n] BY <1>3, <1>5 DEF Elements
  <2> QED BY <1>1, <1>2, <2>1 DEF Distinct
<1> QED BY <1>4, <1>5

(***************************************************************************)
(* The pipeline.                                                            *)
(***************************************************************************)
Early == {"gate", "held", "item", "itemWait", "check"}
Looping == {"fragment", "request", "requestWait", "fill"}
Ending == {"signal", "drop"}
Handling == {"perform", "decide", "enqueue", "enqueueAhead", "decrypt", "complete", "dispatch"}
Taken == {"queued", "completing", "signal", "retire", "return", "post", "release", "done"}

\* The requests that are in a queue or in a thread's hands, to be released yet.
IoHolds == pc["io"] \in Handling \cup {"release"}
CompHolds == pc["comp"] \in Handling \cup {"release"}
IoHand == IF IoHolds THEN {req["io"]} ELSE {}
CompHand == IF CompHolds THEN {req["comp"]} ELSE {}
Flight == Elements(ioQ) \cup Elements(compQ) \cup IoHand \cup CompHand

PipeTypes ==
  /\ outstanding \in Int
  /\ pc = [t \in Threads |-> pc[t]] /\ phase = [i \in Irps |-> phase[i]]
  /\ req = [t \in {"io", "comp"} |-> req[t]]
  /\ mainQ \in Seq(Irps) /\ ioQ \in Seq(Requests) /\ compQ \in Seq(Requests)
  /\ op \in [Irps -> Ops] /\ Flight \subseteq Requests
  /\ pc["main"] \in Early \cup Looping \cup Ending => mIrp \in Irps
  /\ pc["main"] \in Looping => mFrag \in Nat \ {0}
  /\ mBuf \in Buffers /\ mEnc \in BOOLEAN

\* The fragments of an IRP rise from the completion thread's hands to the end
\* of the I/O queue.
InOrder ==
  /\ Ordered(ioQ) /\ Ordered(compQ)
  /\ \A r \in Elements(compQ), s \in Elements(ioQ) : Before(r, s)
  /\ \A r \in IoHand, s \in Elements(ioQ) : Before(r, s)
  /\ \A r \in Elements(compQ), s \in IoHand : Before(r, s)
  /\ \A r \in CompHand, s \in Elements(ioQ) \cup Elements(compQ) \cup IoHand : Before(r, s)

\* Only reads come to the completion thread, and only the last fragment of an
\* IRP to its completion.
Stations ==
  /\ \A r \in Flight : r.frag <= op[r.irp].len /\ phase[r.irp] \in Taken
  /\ \A r \in Elements(ioQ) \cup Elements(compQ) : phase[r.irp] = "queued"
  /\ \A t \in {"io", "comp"} : pc[t] \in Handling => phase[req[t].irp] = "queued"
  /\ \A r \in Elements(compQ) \cup CompHand : ~op[r.irp].write
  /\ pc["io"] \in {"decide", "enqueue", "enqueueAhead"} => ~op[ioIrp].write
  /\ pc["io"] \in {"complete", "dispatch", "release"} => op[ioIrp].write
  /\ \A t \in {"io", "comp"} : pc[t] \in {"complete", "dispatch"} => IsLast(req[t])

\* An IRP is in the main queue, or with the main thread, or only in flight.
MainPlace ==
  /\ Distinct(mainQ)
  /\ \A i \in Elements(mainQ) : phase[i] = "queued" /\ \A r \in Flight : r.irp # i
  /\ pc["main"] \in Early \cup Looping => phase[mIrp] = "queued" /\ mIrp \notin Elements(mainQ)
  /\ pc["main"] \in Early => \A r \in Flight : r.irp # mIrp
  /\ pc["main"] \in Looping =>
       mFrag <= op[mIrp].len /\ \A r \in Flight : r.irp = mIrp => r.frag < mFrag
  /\ pc["main"] \in Ending => phase[mIrp] = "done"

PipeInv == PipeTypes /\ InOrder /\ Stations /\ MainPlace

LEMMA OpTypes ==
  \A o \in Ops : o.write \in BOOLEAN /\ o.aligned \in BOOLEAN /\ o.len \in Nat \ {0} /\ o.off \in Int
BY OpsAssumption, CountsAssumption DEF Blocks

\* Steps of other threads than the three of the queue.
LEMMA FlightKept ==
  ASSUME UNCHANGED <<ioQ, compQ, req>>, pc'["io"] = pc["io"], pc'["comp"] = pc["comp"]
  PROVE  /\ Flight' = Flight /\ IoHand' = IoHand /\ CompHand' = CompHand
         /\ Elements(ioQ)' = Elements(ioQ) /\ Elements(compQ)' = Elements(compQ)
BY DEF Flight, IoHand, CompHand, IoHolds, CompHolds, Elements

LEMMA PipeAside ==
  ASSUME PipeInv, UNCHANGED <<outstanding, mainQ, ioQ, compQ, req, mIrp, mFrag, mBuf, mEnc, op, phase>>,
         pc' = [t \in Threads |-> pc'[t]],
         \A t \in {"main", "io", "comp"} : pc'[t] = pc[t]
  PROVE  PipeInv'
<1>1. /\ Flight' = Flight /\ IoHand' = IoHand /\ CompHand' = CompHand
      /\ Elements(ioQ)' = Elements(ioQ) /\ Elements(compQ)' = Elements(compQ)
  BY FlightKept
<1>2. PipeTypes' BY <1>1 DEF PipeInv, PipeTypes
<1>3. InOrder' BY <1>1 DEF PipeInv, InOrder, Ordered, Before
<1>4. Stations' BY <1>1 DEF PipeInv, Stations, ioIrp, ioReq, IsLast
<1>5. MainPlace' BY <1>1 DEF PipeInv, MainPlace, Elements, Distinct
<1> QED BY <1>2, <1>3, <1>4, <1>5 DEF PipeInv

(***************************************************************************)
(* MainThreadProc.                                                          *)
(***************************************************************************)
LEMMA MainAlone ==
  ASSUME PipeInv, UNCHANGED <<ioQ, compQ, req, op, phase>>,
         pc'["io"] = pc["io"], pc'["comp"] = pc["comp"], PipeTypes', MainPlace'
  PROVE  PipeInv'
<1>1. /\ Flight' = Flight /\ IoHand' = IoHand /\ CompHand' = CompHand
      /\ Elements(ioQ)' = Elements(ioQ) /\ Elements(compQ)' = Elements(compQ)
  BY FlightKept
<1>3. InOrder' BY <1>1 DEF PipeInv, InOrder, Ordered, Before
<1>4. Stations' BY <1>1 DEF PipeInv, Stations, ioIrp, ioReq, IsLast
<1> QED BY <1>3, <1>4 DEF PipeInv

\* The steps in which the main thread keeps its IRP and fragment.
LEMMA PipeMainMoves ==
  ASSUME PipeInv, MainWake \/ MainGate \/ MainResumed \/ MainGetItem \/ MainPoolFreed
                  \/ MainSignal \/ MainDrop \/ MainFragment \/ MainGetRequest
  PROVE  PipeInv'
<1>1. /\ UNCHANGED <<outstanding, mainQ, ioQ, compQ, req, op, phase, mIrp, mFrag>>
      /\ pc'["io"] = pc["io"] /\ pc'["comp"] = pc["comp"] /\ pc' = [t \in Threads |-> pc'[t]]
      /\ mBuf' \in Buffers /\ mEnc' \in BOOLEAN
      /\ pc'["main"] \in Early => pc["main"] \in Early
      /\ pc'["main"] \in Looping => pc["main"] \in Looping
      /\ pc'["main"] \in Ending => pc["main"] \in Ending
  <2> USE DEF PipeInv, PipeTypes, mainL, irps, queues, Goto, Early, Looping, Ending, Threads
  <2>1. CASE MainWake BY <2>1 DEF MainWake
  <2>2. CASE MainGate BY <2>2 DEF MainGate
  <2>3. CASE MainResumed BY <2>3 DEF MainResumed
  <2>4. CASE MainGetItem BY <2>4 DEF MainGetItem
  <2>5. CASE MainPoolFreed BY <2>5 DEF MainPoolFreed
  <2>6. CASE MainSignal BY <2>6 DEF MainSignal
  <2>7. CASE MainDrop BY <2>7 DEF MainDrop
  <2>8. CASE MainFragment BY <2>8 DEF MainFragment, NextFragment, Buffers
  <2>9. CASE MainGetRequest
    <3>1. Encrypted(BlockOf(mIrp, mFrag)) \in BOOLEAN BY DEF Encrypted
    <3>2. mEnc' \in BOOLEAN BY <2>9, <3>1 DEF MainGetRequest
    <3> QED BY <2>9, <3>2 DEF MainGetRequest
  <2> QED BY <2>1, <2>2, <2>3, <2>4, <2>5, <2>6, <2>7, <2>8, <2>9
<1>2. Flight' = Flight BY <1>1, FlightKept
<1>3. PipeTypes' BY <1>1, <1>2 DEF PipeInv, PipeTypes
<1>4. MainPlace' BY <1>1, <1>2 DEF PipeInv, MainPlace, Elements, Distinct
<1> QED BY <1>1, <1>3, <1>4, MainAlone

LEMMA PipeMainAccept == ASSUME PipeInv, MainAccept PROVE PipeInv'
<1>1. /\ UNCHANGED <<outstanding, mainQ, ioQ, compQ, req, op, phase, mIrp>>
      /\ pc'["io"] = pc["io"] /\ pc'["comp"] = pc["comp"] /\ pc' = [t \in Threads |-> pc'[t]]
      /\ mBuf' \in Buffers /\ mEnc' \in BOOLEAN
      /\ pc["main"] = "check" /\ pc'["main"] = "request" /\ mFrag' = 1
  BY DEF PipeInv, PipeTypes, MainAccept, NextFragment, irps, queues, Goto, Threads, Buffers
<1>2. Flight' = Flight BY <1>1, FlightKept
<1>3. mIrp \in Irps /\ op[mIrp].len \in Nat \ {0} BY <1>1, OpTypes DEF PipeInv, PipeTypes, Early
<1>4. PipeTypes' BY <1>1, <1>2, <1>3 DEF PipeInv, PipeTypes
<1>5. MainPlace' BY <1>1, <1>2, <1>3 DEF PipeInv, MainPlace, Elements, Distinct, Early, Looping, Ending
<1> QED BY <1>1, <1>4, <1>5, MainAlone

LEMMA PipeMainDequeue == ASSUME PipeInv, MainDequeue PROVE PipeInv'
<1>1. /\ UNCHANGED <<outstanding, ioQ, compQ, req, op, phase, mFrag, mBuf, mEnc>>
      /\ pc'["io"] = pc["io"] /\ pc'["comp"] = pc["comp"] /\ pc' = [t \in Threads |-> pc'[t]]
  BY DEF PipeInv, PipeTypes, MainDequeue, irps, Goto, Threads
<1>2. Flight' = Flight BY <1>1, FlightKept
<1>3. CASE mainQ = <<>>
  <2>1. UNCHANGED <<mainQ, mIrp>> /\ pc'["main"] \in {"exit", "wait"}
    BY <1>3 DEF PipeInv, PipeTypes, MainDequeue, Goto, Threads
  <2>2. PipeTypes' BY <1>1, <1>2, <2>1 DEF PipeInv, PipeTypes, Early, Looping, Ending
  <2>3. MainPlace' BY <1>1, <1>2, <2>1 DEF PipeInv, MainPlace, Elements, Distinct, Early, Looping, Ending
  <2> QED BY <1>1, <2>2, <2>3, MainAlone
<1>4. CASE mainQ # <<>>
  <2>1. mIrp' = Head(mainQ) /\ mainQ' = Tail(mainQ) /\ pc'["main"] = "gate"
    BY <1>4 DEF PipeInv, PipeTypes, MainDequeue, Goto, Threads
  <2>2. mainQ \in Seq(Irps) /\ Distinct(mainQ) BY DEF PipeInv, PipeTypes, MainPlace
  <2>3. /\ mIrp' \in Irps /\ mainQ' \in Seq(Irps) /\ Elements(mainQ) = Elements(mainQ') \cup {mIrp'}
        /\ Distinct(mainQ') /\ mIrp' \notin Elements(mainQ')
    BY <1>4, <2>1, <2>2, HeadAndTail, DistinctTail
  <2>4. PipeTypes' BY <1>1, <1>2, <2>1, <2>3 DEF PipeInv, PipeTypes, Early, Looping, Ending
  <2>5. MainPlace' BY <1>1, <1>2, <2>1, <2>3 DEF PipeInv, MainPlace, Early, Looping, Ending
  <2> QED BY <1>1, <2>4, <2>5, MainAlone
<1> QED BY <1>3, <1>4

\* The IRPs that the main thread completes itself have no request in flight.
LEMMA PipeMainComplete ==
  ASSUME PipeInv, MainFail \/ MainDeny \/ MainReadMisaligned PROVE PipeInv'
<1>1. /\ UNCHANGED <<mainQ, ioQ, compQ, req, op, mIrp, mFrag, mBuf, mEnc>>
      /\ pc'["io"] = pc["io"] /\ pc'["comp"] = pc["comp"] /\ pc' = [t \in Threads |-> pc'[t]]
      /\ outstanding' = outstanding - 1 /\ phase' = [phase EXCEPT ![mIrp] = "done"]
      /\ pc["main"] = "check" /\ pc'["main"] \in Ending
  BY DEF PipeInv, PipeTypes, MainFail, MainDeny, MainReadMisaligned, MainComplete, Decrement, AfterDecrement,
     Advance, Goto, mainL, queues, Threads, Ending
<1>2. /\ Flight' = Flight /\ IoHand' = IoHand /\ CompHand' = CompHand
      /\ Elements(ioQ)' = Elements(ioQ) /\ Elements(compQ)' = Elements(compQ)
  BY <1>1, FlightKept
<1>3. /\ mIrp \in Irps /\ phase' = [i \in Irps |-> IF i = mIrp THEN "done" ELSE phase[i]]
      /\ \A r \in Flight : r.irp # mIrp
      /\ mIrp \notin Elements(mainQ)
  BY <1>1 DEF PipeInv, PipeTypes, MainPlace, Early
<1>4. \A i \in Irps : i # mIrp => phase'[i] = phase[i] BY <1>3
<1>5. PipeTypes' BY <1>1, <1>2, <1>3 DEF PipeInv, PipeTypes, Early, Looping, Ending
<1>6. InOrder' BY <1>1, <1>2 DEF PipeInv, InOrder, Ordered, Before
<1>7. Stations'
  <2>1. \A r \in Flight : phase'[r.irp] = phase[r.irp] BY <1>3, <1>4 DEF PipeInv, PipeTypes, Requests
  <2>2. \A t \in {"io", "comp"} : pc[t] \in Handling => req[t] \in Flight
    BY DEF Flight, IoHand, CompHand, IoHolds, CompHolds
  <2> QED BY <1>1, <1>2, <2>1, <2>2 DEF PipeInv, Stations, ioIrp, ioReq, IsLast, Flight
<1>8. MainPlace'
  <2>1. Elements(mainQ)' = Elements(mainQ) /\ \A i \in Elements(mainQ) : i \in Irps
    BY <1>1 DEF Elements, PipeInv, PipeTypes
  <2> QED BY <1>1, <1>2, <1>3, <1>4, <2>1 DEF PipeInv, MainPlace, Distinct, Early, Looping, Ending
<1> QED BY <1>5, <1>6, <1>7, <1>8 DEF PipeInv

LEMMA PipeMainQueueIo == ASSUME PipeInv, MainQueueIo PROVE PipeInv'
<1> DEFINE r == [irp |-> mIrp, frag |-> mFrag, buf |-> mBuf, enc |-> mEnc]
<1>1. /\ UNCHANGED <<outstanding, mainQ, compQ, req, op, phase, mIrp, mBuf, mEnc>>
      /\ pc'["io"] = pc["io"] /\ pc'["comp"] = pc["comp"] /\ pc' = [t \in Threads |-> pc'[t]]
      /\ pc["main"] = "fill" /\ ioQ' = Append(ioQ, r)
      /\ mFrag' = (IF IsLast(r) THEN mFrag ELSE mFrag + 1)
      /\ pc'["main"] = (IF IsLast(r) THEN "dequeue" ELSE "fragment")
  <2>1. /\ UNCHANGED <<outstanding, mainQ, compQ, req, op, phase, mIrp, mBuf, mEnc>>
        /\ pc["main"] = "fill" /\ ioQ' = Append(ioQ, r)
        /\ mFrag' = (IF IsLast(r) THEN mFrag ELSE mFrag + 1)
        /\ Goto("main", IF IsLast(r) THEN "dequeue" ELSE "fragment")
    BY Zenon DEF MainQueueIo, irps
  <2> HIDE DEF r
  <2>2. pc = [t \in Threads |-> pc[t]] BY DEF PipeInv, PipeTypes
  <2> QED BY <2>1, <2>2 DEF Goto, Threads
<1>2. /\ mIrp \in Irps /\ phase[mIrp] = "queued" /\ mIrp \notin Elements(mainQ)
      /\ mFrag \in Nat \ {0} /\ mFrag <= op[mIrp].len /\ op[mIrp].len \in Nat
      /\ \A s \in Flight : s.irp = mIrp => s.frag < mFrag
  BY <1>1, OpTypes DEF PipeInv, PipeTypes, MainPlace, Looping
<1>3. r \in Requests /\ r.irp = mIrp /\ r.frag = mFrag
  BY <1>2 DEF PipeInv, PipeTypes, Requests
<1>4. \A s \in Flight : Before(s, r) BY <1>2, <1>3 DEF Before
<1> HIDE DEF r
<1>5. ioQ' \in Seq(Requests) /\ Elements(ioQ)' = Elements(ioQ) \cup {r} /\ Ordered(ioQ')
  <2>1. ioQ \in Seq(Requests) /\ Ordered(ioQ) BY DEF PipeInv, PipeTypes, InOrder
  <2>2. \A s \in Elements(ioQ) : Before(s, r) BY <1>4 DEF Flight
  <2>3. Elements(ioQ') = Elements(ioQ) \cup {r} /\ ioQ' \in Seq(Requests) BY <1>1, <1>3, <2>1, ElementsAppend
  <2>4. Ordered(ioQ') BY <1>1, <1>3, <2>1, <2>2, OrderedAppend
  <2> QED BY <2>3, <2>4
<1>6. /\ IoHand' = IoHand /\ CompHand' = CompHand /\ Elements(compQ)' = Elements(compQ)
      /\ Elements(mainQ)' = Elements(mainQ) /\ IoHolds' = IoHolds
  BY <1>1 DEF IoHand, CompHand, IoHolds, CompHolds, Elements
<1>7. Flight' = Flight \cup {r} BY <1>5, <1>6 DEF Flight
<1>8. PipeTypes' BY <1>1, <1>2, <1>3, <1>5, <1>7 DEF PipeInv, PipeTypes, Early, Looping, Ending
<1>9. InOrder'
  <2>1. Ordered(compQ)' BY <1>1 DEF PipeInv, InOrder, Ordered, Before
  <2>2. \A s \in Elements(compQ) \cup IoHand \cup CompHand : Before(s, r) BY <1>4 DEF Flight
  <2> HIDE DEF Before
  <2> QED BY <1>5, <1>6, <2>1, <2>2 DEF PipeInv, InOrder
<1>10. Stations' BY <1>1, <1>2, <1>3, <1>5, <1>6, <1>7 DEF PipeInv, Stations, ioIrp, ioReq, IsLast, Taken
<1>11. MainPlace'
  <2>1. CASE IsLast(r) BY <1>1, <1>2, <1>3, <1>6, <1>7, <2>1 DEF PipeInv, MainPlace, Distinct, Early, Looping, Ending
  <2>2. CASE ~IsLast(r)
    <3>1. mFrag + 1 <= op[mIrp].len BY <1>2, <1>3, <2>2 DEF IsLast
    <3>2. \A s \in Flight' : s.irp = mIrp => s.frag < mFrag + 1
      BY <1>2, <1>3, <1>7 DEF PipeInv, PipeTypes, Requests
    <3> QED BY <1>1, <1>2, <1>3, <1>6, <1>7, <2>2, <3>1, <3>2 DEF PipeInv, MainPlace, Distinct, Early, Looping, Ending
  <2> QED BY <2>1, <2>2
<1> QED BY <1>8, <1>9, <1>10, <1>11 DEF PipeInv

LEMMA PipeMain == ASSUME PipeInv, MainThread PROVE PipeInv'
BY PipeMainMoves, PipeMainAccept, PipeMainDequeue, PipeMainComplete, PipeMainQueueIo DEF MainThread

(***************************************************************************)
(* IoThreadProc and CompletionThreadProc.                                   *)
(***************************************************************************)

\* Steps of these threads that leave the phases and the main thread alone.
LEMMA ThreadAlone ==
  ASSUME PipeInv, UNCHANGED <<mainQ, op, phase, mIrp, mFrag, mBuf, mEnc>>, pc'["main"] = pc["main"],
         Flight' \subseteq Flight, PipeTypes', InOrder', Stations'
  PROVE  PipeInv'
<1>1. MainPlace' BY DEF PipeInv, MainPlace, Elements, Distinct
<1> QED BY <1>1 DEF PipeInv

\* The I/O thread keeps its request and the queues, or has none.
LEMMA PipeIoMoves ==
  ASSUME PipeInv, IoWake \/ IoBeginReadAhead \/ IoReadAhead \/ IoEndReadAhead \/ IoSignal
  PROVE  PipeInv'
<1>1. /\ UNCHANGED <<mainQ, ioQ, compQ, req, op, phase, mIrp, mFrag, mBuf, mEnc>>
      /\ pc'["main"] = pc["main"] /\ pc'["comp"] = pc["comp"] /\ pc' = [t \in Threads |-> pc'[t]]
      /\ outstanding' \in Int
      /\ pc["io"] \notin Handling \cup {"release"} /\ pc'["io"] \notin Handling \cup {"release"}
  <2> USE DEF PipeInv, PipeTypes, mainL, irps, queues, Goto, Handling, Threads
  <2>1. CASE IoWake BY <2>1 DEF IoWake
  <2>2. CASE IoBeginReadAhead BY <2>2 DEF IoBeginReadAhead
  <2>3. CASE IoReadAhead BY <2>3 DEF IoReadAhead
  <2>4. CASE IoEndReadAhead
    <3>1. outstanding' \in Int BY <2>4 DEF IoEndReadAhead, Decrement
    <3>2. AfterDecrement("dequeue") \in {"signal", "dequeue"} BY DEF AfterDecrement
    <3> QED BY <2>4, <3>1, <3>2 DEF IoEndReadAhead
  <2>5. CASE IoSignal BY <2>5 DEF IoSignal
  <2> QED BY <2>1, <2>2, <2>3, <2>4, <2>5
<1>2. /\ Flight' = Flight /\ IoHand' = IoHand /\ CompHand' = CompHand
      /\ Elements(ioQ)' = Elements(ioQ) /\ Elements(compQ)' = Elements(compQ)
  BY <1>1 DEF Flight, IoHand, CompHand, IoHolds, CompHolds, Elements
<1>3. PipeTypes' BY <1>1, <1>2 DEF PipeInv, PipeTypes
<1>4. InOrder' BY <1>1, <1>2 DEF PipeInv, InOrder, Ordered, Before
<1>5. Stations' BY <1>1, <1>2 DEF PipeInv, Stations, ioIrp, ioReq, IsLast, Handling
<1> QED BY <1>1, <1>2, <1>3, <1>4, <1>5, ThreadAlone

LEMMA PipeIoDequeue == ASSUME PipeInv, IoDequeue PROVE PipeInv'
<1>1. /\ UNCHANGED <<outstanding, mainQ, compQ, op, phase, mIrp, mFrag, mBuf, mEnc>>
      /\ pc'["main"] = pc["main"] /\ pc'["comp"] = pc["comp"] /\ pc' = [t \in Threads |-> pc'[t]]
      /\ req' = [t \in {"io", "comp"} |-> req'[t]] /\ req'["comp"] = req["comp"]
      /\ pc["io"] = "dequeue"
  BY DEF PipeInv, PipeTypes, IoDequeue, mainL, irps, Goto, Threads
<1>2. CompHand' = CompHand /\ Elements(compQ)' = Elements(compQ) /\ IoHand = {}
  BY <1>1 DEF CompHand, CompHolds, IoHand, IoHolds, Handling, Elements
<1>3. CASE ioQ = <<>>
  <2>1. UNCHANGED <<ioQ, req>> /\ pc'["io"] \in {"exit", "wait"}
    BY <1>3 DEF PipeInv, PipeTypes, IoDequeue, Goto, Threads
  <2>2. IoHand' = {} /\ Elements(ioQ)' = Elements(ioQ) BY <2>1 DEF IoHand, IoHolds, Handling, Elements
  <2>3. Flight' = Flight BY <1>2, <2>2 DEF Flight
  <2>4. PipeTypes' BY <1>1, <2>1, <2>3 DEF PipeInv, PipeTypes
  <2>5. InOrder' BY <1>1, <1>2, <2>1, <2>2 DEF PipeInv, InOrder, Ordered, Before
  <2>6. Stations' BY <1>1, <1>2, <2>1, <2>2, <2>3 DEF PipeInv, Stations, ioIrp, ioReq, IsLast, Handling
  <2> QED BY <1>1, <2>3, <2>4, <2>5, <2>6, ThreadAlone
<1>4. CASE ioQ # <<>>
  <2>1. req'["io"] = Head(ioQ) /\ ioQ' = Tail(ioQ) /\ pc'["io"] = "perform"
    BY <1>4 DEF PipeInv, PipeTypes, IoDequeue, Goto, Threads
  <2>2. ioQ \in Seq(Requests) /\ Ordered(ioQ) BY DEF PipeInv, PipeTypes, InOrder
  <2>3. /\ ioQ' \in Seq(Requests) /\ Elements(ioQ) = Elements(ioQ') \cup {req'["io"]}
        /\ Ordered(ioQ') /\ \A s \in Elements(ioQ') : Before(req'["io"], s)
    BY <1>4, <2>1, <2>2, HeadAndTail, OrderedTail
  <2>4. IoHand' = {req'["io"]} BY <2>1 DEF IoHand, IoHolds, Handling
  <2>5. Flight' = Flight BY <1>2, <2>3, <2>4 DEF Flight
  <2>6. PipeTypes' BY <1>1, <2>1, <2>3, <2>5 DEF PipeInv, PipeTypes
  <2>7. InOrder'
    <3>1. Ordered(compQ)' BY <1>1 DEF PipeInv, InOrder, Ordered, Before
    <3> HIDE DEF Before
    <3> QED BY <1>2, <2>3, <2>4, <3>1 DEF PipeInv, InOrder
  <2>8. Stations' BY <1>1, <1>2, <2>1, <2>3, <2>5 DEF PipeInv, Stations, ioIrp, ioReq, IsLast, Handling
  <2> QED BY <1>1, <2>5, <2>6, <2>7, <2>8, ThreadAlone
<1> QED BY <1>3, <1>4

\* A request stays in the thread's hands from one station to the next.
LEMMA PipeStation ==
  ASSUME PipeInv, NEW t \in {"io", "comp"},
         UNCHANGED <<mainQ, ioQ, compQ, req, op, phase, mIrp, mFrag, mBuf, mEnc>>,
         pc' = [k \in Threads |-> pc'[k]], outstanding' \in Int,
         \A k \in {"main", "io", "comp"} : k # t => pc'[k] = pc[k],
         pc[t] \in Handling, pc'[t] \in Handling \cup {"release"},
         t = "io" /\ pc'[t] \in {"decide", "enqueue", "enqueueAhead"} => ~op[req[t].irp].write,
         t = "io" /\ pc'[t] \in {"complete", "dispatch", "release"} => op[req[t].irp].write,
         pc'[t] \in {"complete", "dispatch"} => IsLast(req[t])
  PROVE  PipeInv'
<1>1. pc'["main"] = pc["main"] BY DEF Threads
<1>2. /\ Flight' = Flight /\ IoHand' = IoHand /\ CompHand' = CompHand
      /\ Elements(ioQ)' = Elements(ioQ) /\ Elements(compQ)' = Elements(compQ)
  BY DEF Flight, IoHand, CompHand, IoHolds, CompHolds, Elements
<1>3. PipeTypes' BY <1>1, <1>2 DEF PipeInv, PipeTypes
<1>4. InOrder' BY <1>2 DEF PipeInv, InOrder, Ordered, Before
<1>5. Stations'
  <2>1. CASE t = "io" BY <1>2, <2>1 DEF PipeInv, Stations, ioIrp, ioReq, IsLast
  <2>2. CASE t = "comp" BY <1>2, <2>2 DEF PipeInv, Stations, ioIrp, ioReq, IsLast
  <2> QED BY <2>1, <2>2
<1> QED BY <1>1, <1>2, <1>3, <1>4, <1>5, ThreadAlone

LEMMA PipeIoServes == ASSUME PipeInv, IoSkip \/ IoWrite \/ IoRead PROVE PipeInv'
<1>1. /\ UNCHANGED <<outstanding, mainQ, ioQ, compQ, req, op, phase, mIrp, mFrag, mBuf, mEnc>>
      /\ pc["io"] = "perform"
      /\ \/ op[ioIrp].write /\ Goto("io", WriteDone)
         \/ ~op[ioIrp].write /\ Goto("io", "enqueue")
         \/ ~op[ioIrp].write /\ Goto("io", IF CompletesIrp(ioReq) THEN "decide" ELSE "enqueue")
  <2> USE DEF IoServed, mainL, queues
  <2>1. CASE IoSkip BY <2>1 DEF IoSkip
  <2>2. CASE IoWrite BY <2>2 DEF IoWrite
  <2>3. CASE IoRead BY <2>3 DEF IoRead
  <2> QED BY <2>1, <2>2, <2>3
<1>2. pc = [t \in Threads |-> pc[t]] /\ outstanding \in Int BY DEF PipeInv, PipeTypes
<1>3. /\ pc' = [t \in Threads |-> pc'[t]] /\ pc'["main"] = pc["main"] /\ pc'["comp"] = pc["comp"]
      /\ \/ op[ioIrp].write /\ pc'["io"] = "complete" /\ IsLast(ioReq)
         \/ op[ioIrp].write /\ pc'["io"] = "release"
         \/ ~op[ioIrp].write /\ pc'["io"] \in {"decide", "enqueue"}
  BY <1>1, <1>2 DEF Goto, WriteDone, CompletesIrp, Threads
<1> QED BY <1>1, <1>2, <1>3, PipeStation DEF Handling, ioIrp, ioReq

LEMMA PipeIoDecide == ASSUME PipeInv, IoDecideReadAhead PROVE PipeInv'
<1>1. /\ UNCHANGED <<mainQ, ioQ, compQ, req, op, phase, mIrp, mFrag, mBuf, mEnc>>
      /\ pc["io"] = "decide" /\ outstanding' \in {outstanding, outstanding + 1}
      /\ Goto("io", "enqueueAhead") \/ Goto("io", "enqueue")
  BY DEF IoDecideReadAhead, mainL, queues, irps
<1>2. pc = [t \in Threads |-> pc[t]] /\ outstanding \in Int /\ ~op[ioIrp].write
  BY <1>1 DEF PipeInv, PipeTypes, Stations
<1>3. /\ pc' = [t \in Threads |-> pc'[t]] /\ pc'["main"] = pc["main"] /\ pc'["comp"] = pc["comp"]
      /\ pc'["io"] \in {"enqueueAhead", "enqueue"}
  BY <1>1, <1>2 DEF Goto, Threads
<1> QED BY <1>1, <1>2, <1>3, PipeStation DEF Handling, ioIrp, ioReq

LEMMA PipeIoEnqueue == ASSUME PipeInv, IoEnqueue PROVE PipeInv'
<1>1. /\ UNCHANGED <<outstanding, mainQ, ioQ, req, op, phase, mIrp, mFrag, mBuf, mEnc>>
      /\ pc["io"] \in {"enqueue", "enqueueAhead"} /\ compQ' = Append(compQ, ioReq)
      /\ Goto("io", "dequeue") \/ Goto("io", "ahead")
  BY DEF IoEnqueue, mainL, irps
<1>2. pc = [t \in Threads |-> pc[t]] /\ outstanding \in Int /\ ~op[ioReq.irp].write /\ phase[ioReq.irp] = "queued"
  BY <1>1 DEF PipeInv, PipeTypes, Stations, Handling, ioIrp, ioReq
<1>3. /\ pc' = [t \in Threads |-> pc'[t]] /\ pc'["main"] = pc["main"] /\ pc'["comp"] = pc["comp"]
      /\ pc'["io"] \in {"dequeue", "ahead"}
  BY <1>1, <1>2 DEF Goto, Threads
<1>4. IoHand = {ioReq} /\ IoHand' = {} BY <1>1, <1>3 DEF IoHand, IoHolds, Handling, ioReq
<1>5. CompHand' = CompHand /\ Elements(ioQ)' = Elements(ioQ)
  BY <1>1, <1>3 DEF CompHand, CompHolds, Elements
<1>6. compQ \in Seq(Requests) /\ Ordered(compQ) /\ ioReq \in Requests /\ \A r \in Elements(compQ) : Before(r, ioReq)
  BY <1>4 DEF PipeInv, PipeTypes, InOrder, Flight
<1>7. Elements(compQ') = Elements(compQ) \cup {ioReq} /\ compQ' \in Seq(Requests) /\ Ordered(compQ')
  BY <1>1, <1>6, ElementsAppend, OrderedAppend
<1>8. Flight' = Flight BY <1>4, <1>5, <1>7 DEF Flight
<1>9. PipeTypes' BY <1>1, <1>3, <1>7, <1>8 DEF PipeInv, PipeTypes
<1>10. InOrder'
  <2>1. Ordered(ioQ)' BY <1>1 DEF PipeInv, InOrder, Ordered, Before
  <2> QED BY <1>4, <1>5, <1>7, <2>1 DEF PipeInv, InOrder
<1>11. Stations' BY <1>1, <1>2, <1>3, <1>5, <1>7, <1>8 DEF PipeInv, Stations, ioIrp, ioReq, IsLast, Handling
<1> QED BY <1>1, <1>3, <1>8, <1>9, <1>10, <1>11, ThreadAlone

LEMMA PipeComp == ASSUME PipeInv, CompWake \/ CompDequeue \/ CompDecrypt PROVE PipeInv'
<1>1. CASE CompDecrypt
  <2>1. /\ UNCHANGED <<outstanding, mainQ, ioQ, compQ, req, op, phase, mIrp, mFrag, mBuf, mEnc>>
        /\ pc["comp"] = "decrypt"
        /\ Goto("comp", IF CompletesIrp(req["comp"]) THEN "complete" ELSE "release")
    BY <1>1 DEF CompDecrypt, mainL, queues
  <2>2. pc = [t \in Threads |-> pc[t]] /\ outstanding \in Int BY DEF PipeInv, PipeTypes
  <2>3. /\ pc' = [t \in Threads |-> pc'[t]] /\ pc'["main"] = pc["main"] /\ pc'["io"] = pc["io"]
        /\ \/ pc'["comp"] = "complete" /\ IsLast(req["comp"])
           \/ pc'["comp"] = "release"
    BY <2>1, <2>2 DEF Goto, CompletesIrp, Threads
  <2> QED BY <2>1, <2>2, <2>3, PipeStation DEF Handling
<1>2. CASE CompWake \/ (CompDequeue /\ compQ = <<>>)
  <2>1. /\ UNCHANGED <<outstanding, mainQ, ioQ, compQ, req, op, phase, mIrp, mFrag, mBuf, mEnc>>
        /\ pc["comp"] \in {"wait", "dequeue"}
        /\ Goto("comp", "exit") \/ Goto("comp", "dequeue") \/ Goto("comp", "wait")
    BY <1>2 DEF CompWake, CompDequeue, mainL, queues, irps
  <2>2. pc = [t \in Threads |-> pc[t]] BY DEF PipeInv, PipeTypes
  <2>3. /\ pc' = [t \in Threads |-> pc'[t]] /\ pc'["main"] = pc["main"] /\ pc'["io"] = pc["io"]
        /\ pc'["comp"] \in {"exit", "dequeue", "wait"}
    BY <2>1, <2>2 DEF Goto, Threads
  <2>4. /\ Flight' = Flight /\ IoHand' = IoHand /\ CompHand' = CompHand
        /\ Elements(ioQ)' = Elements(ioQ) /\ Elements(compQ)' = Elements(compQ)
    BY <2>1, <2>3 DEF Flight, IoHand, CompHand, IoHolds, CompHolds, Elements, Handling
  <2>5. PipeTypes' BY <2>1, <2>3, <2>4 DEF PipeInv, PipeTypes
  <2>6. InOrder' BY <2>1, <2>4 DEF PipeInv, InOrder, Ordered, Before
  <2>7. Stations' BY <2>1, <2>3, <2>4 DEF PipeInv, Stations, ioIrp, ioReq, IsLast, Handling
  <2> QED BY <2>1, <2>3, <2>4, <2>5, <2>6, <2>7, ThreadAlone
<1>3. CASE CompDequeue /\ compQ # <<>>
  <2>1. /\ UNCHANGED <<outstanding, mainQ, ioQ, op, phase, mIrp, mFrag, mBuf, mEnc>>
        /\ pc["comp"] = "dequeue" /\ compQ' = Tail(compQ) /\ req' = [req EXCEPT !["comp"] = Head(compQ)]
        /\ Goto("comp", "decrypt")
    BY <1>3 DEF CompDequeue, mainL, irps
  <2>2. pc = [t \in Threads |-> pc[t]] /\ req = [t \in {"io", "comp"} |-> req[t]] BY DEF PipeInv, PipeTypes
  <2>3. /\ pc' = [t \in Threads |-> pc'[t]] /\ pc'["main"] = pc["main"] /\ pc'["io"] = pc["io"]
        /\ pc'["comp"] = "decrypt"
        /\ req' = [t \in {"io", "comp"} |-> req'[t]] /\ req'["io"] = req["io"] /\ req'["comp"] = Head(compQ)
    BY <2>1, <2>2 DEF Goto, Threads
  <2>4. compQ \in Seq(Requests) /\ Ordered(compQ) BY DEF PipeInv, PipeTypes, InOrder
  <2>5. /\ compQ' \in Seq(Requests) /\ Elements(compQ) = Elements(compQ') \cup {req'["comp"]}
        /\ Ordered(compQ') /\ \A s \in Elements(compQ') : Before(req'["comp"], s)
    BY <1>3, <2>1, <2>3, <2>4, HeadAndTail, OrderedTail
  <2>6. CompHand = {} /\ CompHand' = {req'["comp"]} BY <2>1, <2>3 DEF CompHand, CompHolds, Handling
  <2>7. IoHand' = IoHand /\ Elements(ioQ)' = Elements(ioQ) BY <2>1, <2>3 DEF IoHand, IoHolds, Elements
  <2>8. Flight' = Flight BY <2>5, <2>6, <2>7 DEF Flight
  <2>9. PipeTypes' BY <2>1, <2>3, <2>5, <2>8 DEF PipeInv, PipeTypes
  <2>10. InOrder'
    <3>1. Ordered(ioQ)' BY <2>1 DEF PipeInv, InOrder, Ordered, Before
    <3> QED BY <2>5, <2>6, <2>7, <3>1 DEF PipeInv, InOrder
  <2>11. Stations' BY <2>1, <2>3, <2>5, <2>6, <2>7, <2>8 DEF PipeInv, Stations, ioIrp, ioReq, IsLast, Handling
  <2> QED BY <2>1, <2>3, <2>8, <2>9, <2>10, <2>11, ThreadAlone
<1> QED BY <1>1, <1>2, <1>3

(***************************************************************************)
(* HandleCompleteOriginalIrp: the last request of an IRP has no other of    *)
(* the same IRP behind it, and for a write none ahead of it.                *)
(***************************************************************************)
LEMMA HandFacts ==
  ASSUME PipeInv, NEW t \in {"io", "comp"}, pc[t] \in Handling \cup {"release"}
  PROVE  req[t] \in Flight /\ req[t] \in Requests /\ req[t].irp \in Irps
<1>1. req[t] \in Flight
  <2>1. CASE t = "io" BY <2>1 DEF Flight, IoHand, IoHolds
  <2>2. CASE t = "comp" BY <2>2 DEF Flight, CompHand, CompHolds
  <2> QED BY <2>1, <2>2
<1> QED BY <1>1 DEF PipeInv, PipeTypes, Requests

LEMMA AloneInFlight ==
  ASSUME PipeInv, NEW t \in {"io", "comp"}, pc[t] \in {"complete", "dispatch"},
         NEW s \in Flight, s.irp = req[t].irp
  PROVE  s = req[t]
<1>1. req[t] \in Flight /\ req[t] \in Requests /\ s \in Requests
  BY HandFacts DEF Handling, PipeInv, PipeTypes
<1>2. req[t].frag = op[s.irp].len /\ s.frag <= op[s.irp].len /\ op[s.irp].len \in Nat
  BY <1>1, OpTypes DEF PipeInv, Stations, IsLast, PipeTypes, Requests
<1>3. ~Before(req[t], s) BY <1>1, <1>2 DEF Before, Requests
<1>4. CASE t = "comp"
  <2>1. CompHand = {req[t]} BY <1>4 DEF CompHand, CompHolds, Handling
  <2> QED BY <1>3, <2>1 DEF PipeInv, InOrder, Flight
<1>5. CASE t = "io"
  <2>1. IoHand = {req[t]} BY <1>5 DEF IoHand, IoHolds, Handling
  <2>2. op[s.irp].write BY <1>5 DEF PipeInv, Stations, ioIrp, ioReq
  <2>3. s \notin Elements(compQ) \cup CompHand BY <2>2 DEF PipeInv, Stations
  <2>4. s \notin Elements(ioQ) BY <1>3, <2>1 DEF PipeInv, InOrder
  <2> QED BY <2>1, <2>3, <2>4 DEF Flight
<1> QED BY <1>4, <1>5

LEMMA PipeAwait == ASSUME PipeInv, NEW t \in {"io", "comp"}, AwaitWorkItem(t) PROVE PipeInv'
<1>1. /\ UNCHANGED <<outstanding, mainQ, ioQ, compQ, req, op, phase, mIrp, mFrag, mBuf, mEnc>>
      /\ pc[t] = "complete"
      /\ Goto(t, "release") \/ Goto(t, "dispatch")
  BY DEF AwaitWorkItem, mainL, queues, irps
<1>2. pc = [k \in Threads |-> pc[k]] /\ outstanding \in Int BY DEF PipeInv, PipeTypes
<1>3. /\ pc' = [k \in Threads |-> pc'[k]] /\ \A k \in {"main", "io", "comp"} : k # t => pc'[k] = pc[k]
      /\ pc'[t] \in {"release", "dispatch"}
  BY <1>1, <1>2 DEF Goto, Threads
<1>4. IsLast(req[t]) /\ (t = "io" => op[req[t].irp].write)
  BY <1>1 DEF PipeInv, Stations, ioIrp, ioReq
<1> QED BY <1>1, <1>2, <1>3, <1>4, PipeStation DEF Handling

LEMMA PipeDispatch == ASSUME PipeInv, NEW t \in {"io", "comp"}, DispatchWorkItem(t) PROVE PipeInv'
<1> DEFINE i == req[t].irp
<1>1. /\ UNCHANGED <<outstanding, mainQ, ioQ, compQ, req, op, mIrp, mFrag, mBuf, mEnc>>
      /\ pc[t] = "dispatch" /\ Goto(t, "release") /\ phase' = [phase EXCEPT ![i] = "completing"]
  BY DEF DispatchWorkItem, Advance, mainL, queues, irps
<1>2. pc = [k \in Threads |-> pc[k]] /\ outstanding \in Int /\ phase = [k \in Irps |-> phase[k]]
  BY DEF PipeInv, PipeTypes
<1>3. /\ pc' = [k \in Threads |-> pc'[k]] /\ \A k \in {"main", "io", "comp"} : k # t => pc'[k] = pc[k]
      /\ pc'["main"] = pc["main"] /\ pc'[t] = "release"
  BY <1>1, <1>2 DEF Goto, Threads
<1>4. i \in Irps /\ phase[i] = "queued" /\ req[t] \in Flight /\ \A s \in Flight : s.irp = i => s = req[t]
  BY <1>1, HandFacts, AloneInFlight DEF Handling, PipeInv, Stations
<1>5. /\ phase' = [k \in Irps |-> phase'[k]] /\ phase'[i] = "completing"
      /\ \A k \in Irps : k # i => phase'[k] = phase[k]
  BY <1>1, <1>2, <1>4
<1>6. /\ Flight' = Flight /\ IoHand' = IoHand /\ CompHand' = CompHand
      /\ Elements(ioQ)' = Elements(ioQ) /\ Elements(compQ)' = Elements(compQ) /\ Elements(mainQ)' = Elements(mainQ)
  BY <1>1, <1>3 DEF Flight, IoHand, CompHand, IoHolds, CompHolds, Elements, Handling
<1>7. PipeTypes' BY <1>1, <1>2, <1>3, <1>5, <1>6 DEF PipeInv, PipeTypes
<1>8. InOrder' BY <1>1, <1>6 DEF PipeInv, InOrder, Ordered, Before
<1>9. \A s \in Flight : s.irp \in Irps BY DEF PipeInv, PipeTypes, Requests
<1>10. Stations'
  <2>1. \A s \in Flight' : s.frag <= op'[s.irp].len /\ phase'[s.irp] \in Taken
    BY <1>1, <1>5, <1>6, <1>9 DEF PipeInv, Stations, Taken
  <2>2. \A s \in Elements(ioQ) \cup Elements(compQ) : s.irp # i
    <3>1. \A s \in Elements(ioQ) \cup Elements(compQ) : ~(s = req[t] /\ s.irp = i)
      <4>0. req[t].frag = op[i].len /\ req[t] \in Requests
        BY <1>1, HandFacts DEF PipeInv, Stations, IsLast, Handling
      <4>1. ~Before(req[t], req[t]) BY <4>0 DEF Before, Requests
      <4>2. CASE t = "io"
        <5>1. IoHand = {req[t]} BY <1>1, <4>2 DEF IoHand, IoHolds, Handling
        <5> QED BY <4>1, <5>1 DEF PipeInv, InOrder
      <4>3. CASE t = "comp"
        <5>1. CompHand = {req[t]} BY <1>1, <4>3 DEF CompHand, CompHolds, Handling
        <5> QED BY <4>1, <5>1 DEF PipeInv, InOrder
      <4> QED BY <4>2, <4>3
    <3> QED BY <1>4, <3>1 DEF Flight
  <2>3. \A k \in {"io", "comp"} : k # t /\ pc[k] \in Handling => req[k].irp # i
    <3> SUFFICES ASSUME NEW k \in {"io", "comp"}, k # t, pc[k] \in Handling, req[k].irp = i PROVE FALSE
      OBVIOUS
    <3>1. req[k] \in Flight BY HandFacts
    <3>2. req[k] = req[t] BY <1>4, <3>1
    <3>3. IoHand = {req["io"]} /\ CompHand = {req["comp"]} /\ req["io"] = req["comp"]
      BY <1>1, <3>2 DEF IoHand, CompHand, IoHolds, CompHolds, Handling
    <3>4. Before(req["comp"], req["io"]) BY <3>3 DEF PipeInv, InOrder
    <3>5. req["io"] \in Requests BY <3>3 DEF PipeInv, PipeTypes, Flight
    <3> QED BY <3>3, <3>4, <3>5 DEF Before, Requests
  <2>4. \A s \in Elements(ioQ)' \cup Elements(compQ)' : phase'[s.irp] = "queued"
    BY <1>5, <1>6, <1>9, <2>2 DEF PipeInv, Stations, Flight
  <2>5. \A k \in {"io", "comp"} : pc'[k] \in Handling => phase'[req'[k].irp] = "queued"
    <3> SUFFICES ASSUME NEW k \in {"io", "comp"}, pc'[k] \in Handling PROVE phase'[req'[k].irp] = "queued"
      OBVIOUS
    <3>1. k # t BY <1>3 DEF Handling
    <3>2. pc[k] \in Handling BY <1>3, <3>1
    <3>3. req[k].irp \in Irps /\ phase[req[k].irp] = "queued" BY <3>2, HandFacts DEF PipeInv, Stations
    <3> QED BY <1>1, <1>5, <2>3, <3>1, <3>2, <3>3
  <2>6. t = "io" => op[ioIrp].write BY <1>1 DEF PipeInv, Stations
  <2> QED BY <1>1, <1>3, <1>6, <2>1, <2>4, <2>5, <2>6 DEF PipeInv, Stations, ioIrp, ioReq, IsLast
<1>11. MainPlace'
  <2>7. \A k \in Elements(mainQ) : k \in Irps BY DEF PipeInv, PipeTypes, Elements
  <2>1. \A k \in Elements(mainQ) : k \in Irps /\ k # i BY <1>4, <2>7 DEF PipeInv, MainPlace
  <2>2. pc["main"] \in Early => mIrp # i BY <1>4 DEF PipeInv, MainPlace
  <2>3. pc["main"] \in Looping => mIrp # i
    <3> SUFFICES ASSUME pc["main"] \in Looping, mIrp = i PROVE FALSE OBVIOUS
    <3>1. req[t].frag < mFrag /\ mFrag <= op[i].len /\ mFrag \in Nat BY <1>4 DEF PipeInv, MainPlace, PipeTypes
    <3>2. req[t].frag = op[i].len /\ op[i].len \in Nat
      BY <1>1, <1>4, OpTypes DEF PipeInv, PipeTypes, Stations, IsLast
    <3> QED BY <3>1, <3>2
  <2>4. pc["main"] \in Ending => mIrp # i BY <1>4 DEF PipeInv, MainPlace
  <2>5. pc["main"] \in Early \cup Looping \cup Ending => mIrp \in Irps BY DEF PipeInv, PipeTypes
  <2>6. Distinct(mainQ)' BY <1>1 DEF PipeInv, MainPlace, Distinct
  <2> HIDE DEF i
  <2> QED BY <1>1, <1>3, <1>5, <1>6, <2>1, <2>2, <2>3, <2>4, <2>5, <2>6 DEF PipeInv, MainPlace
<1> QED BY <1>7, <1>8, <1>10, <1>11 DEF PipeInv

LEMMA PipeRelease == ASSUME PipeInv, NEW t \in {"io", "comp"}, ReleaseRequest(t) PROVE PipeInv'
<1>1. /\ UNCHANGED <<outstanding, mainQ, ioQ, compQ, req, op, phase, mIrp, mFrag, mBuf, mEnc>>
      /\ pc[t] = "release" /\ Goto(t, "dequeue")
  BY DEF ReleaseRequest, mainL, queues, irps
<1>2. pc = [k \in Threads |-> pc[k]] BY DEF PipeInv, PipeTypes
<1>3. /\ pc' = [k \in Threads |-> pc'[k]] /\ \A k \in {"main", "io", "comp"} : k # t => pc'[k] = pc[k]
      /\ pc'["main"] = pc["main"] /\ pc'[t] = "dequeue"
  BY <1>1, <1>2 DEF Goto, Threads
<1>4. /\ IoHand' \subseteq IoHand /\ CompHand' \subseteq CompHand
      /\ Elements(ioQ)' = Elements(ioQ) /\ Elements(compQ)' = Elements(compQ)
  BY <1>1, <1>3 DEF IoHand, CompHand, IoHolds, CompHolds, Elements, Handling
<1>5. Flight' \subseteq Flight BY <1>4 DEF Flight
<1>6. PipeTypes' BY <1>1, <1>3, <1>5 DEF PipeInv, PipeTypes
<1>7. InOrder'
  <2>1. Ordered(ioQ)' /\ Ordered(compQ)' BY <1>1 DEF PipeInv, InOrder, Ordered, Before
  <2> QED BY <1>4, <2>1 DEF PipeInv, InOrder
<1>8. Stations' BY <1>1, <1>3, <1>4, <1>5 DEF PipeInv, Stations, ioIrp, ioReq, IsLast, Handling
<1> QED BY <1>1, <1>3, <1>5, <1>6, <1>7, <1>8, ThreadAlone

LEMMA PipeThreads == ASSUME PipeInv, IoThread \/ CompletionThread PROVE PipeInv'
BY PipeIoMoves, PipeIoDequeue, PipeIoServes, PipeIoDecide, PipeIoEnqueue, PipeComp, PipeAwait, PipeDispatch,
   PipeRelease DEF IoThread, CompletionThread, HandleComplete

(***************************************************************************)
(* EncryptedIoQueueAddIrp, CompleteIrpWorkItemRoutine, and those who hold   *)
(* and stop the queue.                                                      *)
(***************************************************************************)

\* A phase that changes from and to one that is nowhere in the pipeline.
LEMMA PipePhase ==
  ASSUME PipeInv, NEW i \in Irps, NEW new,
         UNCHANGED <<mainQ, ioQ, compQ, req, op, pc, mIrp, mFrag, mBuf, mEnc>>,
         outstanding' \in Int, phase' = [phase EXCEPT ![i] = new],
         phase[i] \notin {"queued", "done"}, phase[i] \in Taken => new \in Taken
  PROVE  PipeInv'
<1>1. /\ Flight' = Flight /\ IoHand' = IoHand /\ CompHand' = CompHand
      /\ Elements(ioQ)' = Elements(ioQ) /\ Elements(compQ)' = Elements(compQ) /\ Elements(mainQ)' = Elements(mainQ)
  BY FlightKept DEF Elements
<1>2. phase = [k \in Irps |-> phase[k]] BY DEF PipeInv, PipeTypes
<1>3. /\ phase' = [k \in Irps |-> phase'[k]] /\ phase'[i] = new
      /\ \A k \in Irps : k # i => phase'[k] = phase[k]
  BY <1>2
<1>4. PipeTypes' BY <1>1, <1>3 DEF PipeInv, PipeTypes
<1>5. InOrder' BY <1>1 DEF PipeInv, InOrder, Ordered, Before
<1>6. \A s \in Flight : s.irp \in Irps BY DEF PipeInv, PipeTypes, Requests
<1>7. \A k \in Irps : phase[k] \in Taken => phase'[k] \in Taken BY <1>3
<1>8. \A k \in Irps : phase[k] \in {"queued", "done"} => phase'[k] = phase[k] BY <1>3
<1>9. \A k \in Elements(mainQ) : k \in Irps BY DEF PipeInv, PipeTypes, Elements
<1>10. \A t \in {"io", "comp"} : pc[t] \in Handling => req[t].irp \in Irps BY HandFacts
<1>11. Stations'
  <2>1. \A s \in Elements(ioQ) \cup Elements(compQ) : s.irp \in Irps BY <1>6 DEF Flight
  <2> QED BY <1>1, <1>6, <1>7, <1>8, <1>10, <2>1 DEF PipeInv, Stations, ioIrp, ioReq, IsLast
<1>12. MainPlace'
  <2>1. Distinct(mainQ)' BY DEF PipeInv, MainPlace, Distinct
  <2>2. pc["main"] \in Early \cup Looping \cup Ending => mIrp \in Irps BY DEF PipeInv, PipeTypes
  <2> QED BY <1>1, <1>8, <1>9, <2>1, <2>2 DEF PipeInv, MainPlace
<1> QED BY <1>4, <1>5, <1>11, <1>12 DEF PipeInv

LEMMA PipeInsert == ASSUME PipeInv, NEW i \in Irps, AddIrpInsert(i) PROVE PipeInv'
<1>1. /\ UNCHANGED <<outstanding, ioQ, compQ, req, op, pc, mIrp, mFrag, mBuf, mEnc>>
      /\ phase[i] = "granted" /\ phase' = [phase EXCEPT ![i] = "queued"] /\ mainQ' = Append(mainQ, i)
  BY DEF AddIrpInsert, Advance, mainL
<1>2. /\ Flight' = Flight /\ IoHand' = IoHand /\ CompHand' = CompHand
      /\ Elements(ioQ)' = Elements(ioQ) /\ Elements(compQ)' = Elements(compQ)
  BY <1>1, FlightKept
<1>3. phase = [k \in Irps |-> phase[k]] /\ mainQ \in Seq(Irps) /\ Distinct(mainQ)
  BY DEF PipeInv, PipeTypes, MainPlace
<1>4. /\ phase' = [k \in Irps |-> phase'[k]] /\ phase'[i] = "queued"
      /\ \A k \in Irps : k # i => phase'[k] = phase[k]
  BY <1>1, <1>3
<1>5. i \notin Elements(mainQ) /\ \A k \in Elements(mainQ) : k \in Irps
  <2>1. \A k \in Elements(mainQ) : k \in Irps BY DEF PipeInv, PipeTypes, Elements
  <2>2. \A k \in Elements(mainQ) : phase[k] = "queued" BY <2>1 DEF PipeInv, MainPlace
  <2> QED BY <1>1, <2>1, <2>2
<1>6. mainQ' \in Seq(Irps) /\ Elements(mainQ') = Elements(mainQ) \cup {i} /\ Distinct(mainQ')
  BY <1>1, <1>3, <1>5, ElementsAppend, DistinctAppend
<1>7. \A s \in Flight : s.irp \in Irps /\ s.irp # i BY <1>1 DEF PipeInv, PipeTypes, Stations, Requests, Taken
<1>8. PipeTypes' BY <1>1, <1>2, <1>4, <1>6 DEF PipeInv, PipeTypes
<1>9. InOrder' BY <1>1, <1>2 DEF PipeInv, InOrder, Ordered, Before
<1>10. Stations'
  <2>1. \A s \in Elements(ioQ) \cup Elements(compQ) : phase'[s.irp] = phase[s.irp] BY <1>4, <1>7 DEF Flight
  <2>2. \A t \in {"io", "comp"} : pc[t] \in Handling => phase'[req[t].irp] = phase[req[t].irp]
    BY <1>4, <1>7, HandFacts
  <2> QED BY <1>1, <1>2, <1>4, <1>7, <2>1, <2>2 DEF PipeInv, Stations, ioIrp, ioReq, IsLast
<1>11. MainPlace'
  <2>1. pc["main"] \in Early \cup Looping \cup Ending => mIrp \in Irps /\ mIrp # i
    BY <1>1 DEF PipeInv, PipeTypes, MainPlace
  <2> QED BY <1>1, <1>2, <1>4, <1>5, <1>6, <1>7, <2>1 DEF PipeInv, MainPlace
<1> QED BY <1>8, <1>9, <1>10, <1>11 DEF PipeInv

LEMMA PipeAddIrp == ASSUME PipeInv, NEW i \in Irps, AddIrp(i) PROVE PipeInv'
<1>1. outstanding \in Int BY DEF PipeInv, PipeTypes
<1> USE DEF Advance, mainL, queues, irps, Decrement, Taken
<1>2. CASE AddIrpCount(i)
  <2>1. outstanding' \in Int BY <1>1, <1>2 DEF AddIrpCount
  <2>2. phase[i] = "new" /\ phase' = [phase EXCEPT ![i] = "counted"] BY <1>2 DEF AddIrpCount
  <2>3. UNCHANGED <<mainQ, ioQ, compQ, req, op, pc, mIrp, mFrag, mBuf, mEnc>> BY <1>2 DEF AddIrpCount
  <2> QED BY <2>1, <2>2, <2>3, PipePhase
<1>3. CASE AddIrpAccept(i) BY <1>1, <1>3, PipePhase DEF AddIrpAccept
<1>4. CASE AddIrpReject(i)
  <2>1. outstanding' \in Int BY <1>1, <1>4 DEF AddIrpReject
  <2>2. PICK new : phase[i] = "counted" /\ phase' = [phase EXCEPT ![i] = new] BY <1>4 DEF AddIrpReject
  <2>3. UNCHANGED <<mainQ, ioQ, compQ, req, op, pc, mIrp, mFrag, mBuf, mEnc>> BY <1>4 DEF AddIrpReject
  <2> QED BY <2>1, <2>2, <2>3, PipePhase
<1>5. CASE AddIrpRejectSignal(i) BY <1>1, <1>5, PipePhase DEF AddIrpRejectSignal
<1> QED BY <1>2, <1>3, <1>4, <1>5, PipeInsert DEF AddIrp

LEMMA PipeWork == ASSUME PipeInv, NEW i \in Irps, CompleteIrpWorkItem(i) PROVE PipeInv'
<1>1. outstanding \in Int BY DEF PipeInv, PipeTypes
<1> USE DEF Advance, mainL, queues, irps, Decrement, Taken
<1>2. CASE WorkComplete(i)
  <2>1. outstanding' \in Int BY <1>1, <1>2 DEF WorkComplete
  <2>2. phase[i] = "completing" /\ phase' = [phase EXCEPT ![i] = AfterDecrement("retire")]
    BY <1>2 DEF WorkComplete
  <2>3. UNCHANGED <<mainQ, ioQ, compQ, req, op, pc, mIrp, mFrag, mBuf, mEnc>> BY <1>2 DEF WorkComplete
  <2>4. AfterDecrement("retire") \in Taken BY DEF AfterDecrement
  <2> QED BY <2>1, <2>2, <2>3, <2>4, PipePhase
<1>3. CASE WorkSignal(i) BY <1>1, <1>3, PipePhase DEF WorkSignal
<1>4. CASE WorkRetire(i) BY <1>1, <1>4, PipePhase DEF WorkRetire
<1>5. CASE WorkReturn(i) BY <1>1, <1>5, PipePhase DEF WorkReturn
<1>6. CASE WorkPost(i) BY <1>1, <1>6, PipePhase DEF WorkPost
<1>7. CASE WorkRelease(i) BY <1>1, <1>7, PipePhase DEF WorkRelease
<1> QED BY <1>2, <1>3, <1>4, <1>5, <1>6, <1>7 DEF CompleteIrpWorkItem

\* What a hold or a stop leaves alone.
LEMMA Outsiders ==
  ASSUME PipeInv, HoldBegin \/ HoldStep \/ StopBegin \/ StopStep
  PROVE  /\ UNCHANGED <<outstanding, ioPending, queues, pools, work, mainL, req, phase, irps>>
         /\ pc' = [t \in Threads |-> pc'[t]]
         /\ \A t \in {"main", "io", "comp"} : pc'[t] = pc[t]
<1>1. pc = [t \in Threads |-> pc[t]] BY DEF PipeInv, PipeTypes
<1>2. CASE HoldBegin \/ HoldStep
  <2>1. /\ UNCHANGED <<outstanding, ioPending, queues, pools, work, mainL, req, phase, irps>>
        /\ \E l : Goto("hold", l)
    BY <1>2, Zenon DEF HoldBegin, HoldStep, HoldCheck, HoldAwait, HoldGiveUp, HoldRecheck, HoldSuspend,
       HoldVerify, HoldUndo, HoldSettle, SetupRead, SetupWrite, SetupUndo, SetupAdvance, Resume
  <2> QED BY <1>1, <2>1 DEF Goto, Threads
<1>3. CASE StopBegin \/ StopStep
  <2>1. /\ UNCHANGED <<outstanding, ioPending, queues, pools, work, mainL, req, phase, irps>>
        /\ \E l : Goto("stop", l)
    BY <1>3, Zenon DEF StopBegin, StopStep, StopCheck, StopAwait, StopRequestExit, StopWake, StopJoin,
       StopResetEvent, StopDrainCheck, StopFree
  <2> QED BY <1>1, <2>1 DEF Goto, Threads
<1> QED BY <1>2, <1>3

LEMMA PipeOutside ==
  ASSUME PipeInv, HoldBegin \/ HoldStep \/ StopBegin \/ StopStep PROVE PipeInv'
BY Outsiders, PipeAside DEF queues, mainL, irps

LEMMA PipeInit == ASSUME Init PROVE PipeInv
<1>1. /\ mainQ = <<>> /\ ioQ = <<>> /\ compQ = <<>> /\ outstanding = 0
      /\ pc = [t \in Threads |-> IF t \in {"hold", "stop"} THEN "idle" ELSE "wait"]
      /\ req = [t \in {"io", "comp"} |-> NoReq] /\ op \in [Irps -> Ops]
      /\ phase = [i \in Irps |-> "new"] /\ mBuf = "A" /\ mEnc = FALSE
  BY DEF Init
<1>2. pc["main"] = "wait" /\ pc["io"] = "wait" /\ pc["comp"] = "wait" BY <1>1 DEF Threads
<1>3. Elements(mainQ) = {} /\ Elements(ioQ) = {} /\ Elements(compQ) = {} /\ IoHand = {} /\ CompHand = {}
  BY <1>1, <1>2, EmptyQueue DEF IoHand, CompHand, IoHolds, CompHolds, Handling
<1>4. Flight = {} BY <1>3 DEF Flight
<1>5. PipeTypes
  <2>2. pc = [t \in Threads |-> pc[t]] /\ phase = [i \in Irps |-> phase[i]] /\ req = [t \in {"io", "comp"} |-> req[t]]
    BY <1>1
  <2>3. ioQ \in Seq(Requests) /\ compQ \in Seq(Requests) /\ mainQ \in Seq(Irps) BY <1>1
  <2>4. outstanding \in Int /\ op \in [Irps -> Ops] BY <1>1
  <2>6. mBuf \in Buffers /\ mEnc \in BOOLEAN BY <1>1, Zenon DEF Buffers
  <2>5. pc["main"] \notin Early \cup Looping \cup Ending BY <1>2 DEF Early, Looping, Ending
  <2> QED BY <1>4, <2>2, <2>3, <2>4, <2>5, <2>6 DEF PipeTypes
<1>6. InOrder BY <1>1, <1>3, EmptyQueue DEF InOrder
<1>7. Stations BY <1>2, <1>3, <1>4 DEF Stations, Handling
<1>8. MainPlace BY <1>1, <1>2, <1>3, EmptyQueue DEF MainPlace, Early, Looping, Ending
<1> QED BY <1>5, <1>6, <1>7, <1>8 DEF PipeInv

LEMMA PipeStutter == ASSUME PipeInv, UNCHANGED vars PROVE PipeInv'
<1>1. UNCHANGED <<outstanding, mainQ, ioQ, compQ, req, mIrp, mFrag, mBuf, mEnc, op, phase, pc>>
  BY DEF vars, queues, mainL, irps
<1>2. pc = [t \in Threads |-> pc[t]] BY DEF PipeInv, PipeTypes
<1> QED BY <1>1, <1>2, PipeAside

LEMMA PipeStep == ASSUME PipeInv, [Next]_vars PROVE PipeInv'
BY PipeMain, PipeThreads, PipeAddIrp, PipeWork, PipeOutside, PipeStutter DEF Next

\* A request of a queued IRP is in exactly one place: with the main thread, in the
\* I/O queue, with the I/O thread, in the completion queue or with the
\* completion thread, and each queue keeps the fragments of an IRP in order.
THEOREM PipelineKept == Spec => []PipeInv
<1>1. Init => PipeInv BY PipeInit
<1>2. PipeInv /\ [Next]_vars => PipeInv' BY PipeStep
<1> QED BY <1>1, <1>2, PTL DEF Spec

(***************************************************************************)
(* The count of outstanding I/O.                                            *)
(***************************************************************************)
CountedPhases == {"counted", "granted", "queued", "completing"}
CountedIrps == {i \in Irps : phase[i] \in CountedPhases}
Ahead == {"enqueueAhead", "ahead", "aheadRead", "aheadDone"}
CountIs(n) == outstanding = Cardinality(CountedIrps) + n

LEMMA CountForms ==
  /\ OutstandingExact <=> IF pc["io"] \in Ahead THEN CountIs(1) ELSE CountIs(0)
  /\ IsFiniteSet(CountedIrps) /\ Cardinality(CountedIrps) \in Nat
<1>1. {i \in Irps : Counted(i)} = CountedIrps BY DEF Counted, CountedIrps, CountedPhases
<1>2. IsFiniteSet(CountedIrps) BY FS_Subset, OpsAssumption DEF CountedIrps
<1>3. Cardinality(CountedIrps) \in Nat BY <1>2, FS_CardinalityType
<1> QED BY <1>1, <1>2, <1>3 DEF OutstandingExact, ReadingAhead, Ahead, CountIs

\* One IRP moves on: it comes to be counted, or no longer, or neither.
LEMMA CountMoves ==
  ASSUME PipeInv, NEW i \in Irps, NEW new, phase' = [phase EXCEPT ![i] = new]
  PROVE  /\ phase[i] \notin CountedPhases /\ new \in CountedPhases
              => Cardinality(CountedIrps') = Cardinality(CountedIrps) + 1
         /\ phase[i] \in CountedPhases /\ new \notin CountedPhases
              => Cardinality(CountedIrps') = Cardinality(CountedIrps) - 1
         /\ (phase[i] \in CountedPhases <=> new \in CountedPhases) => CountedIrps' = CountedIrps
<1>1. phase = [k \in Irps |-> phase[k]] BY DEF PipeInv, PipeTypes
<1>2. phase'[i] = new /\ \A k \in Irps : k # i => phase'[k] = phase[k] BY <1>1
<1>3. ASSUME phase[i] \notin CountedPhases, new \in CountedPhases
      PROVE  Cardinality(CountedIrps') = Cardinality(CountedIrps) + 1
  <2>1. CountedIrps' = CountedIrps \cup {i} /\ i \notin CountedIrps BY <1>2, <1>3 DEF CountedIrps
  <2> QED BY <2>1, FS_AddElement, CountForms
<1>4. ASSUME phase[i] \in CountedPhases, new \notin CountedPhases
      PROVE  Cardinality(CountedIrps') = Cardinality(CountedIrps) - 1
  <2>1. CountedIrps' = CountedIrps \ {i} /\ i \in CountedIrps BY <1>2, <1>4 DEF CountedIrps
  <2> QED BY <2>1, FS_RemoveElement, CountForms
<1>5. (phase[i] \in CountedPhases <=> new \in CountedPhases) => CountedIrps' = CountedIrps
  BY <1>2 DEF CountedIrps
<1> QED BY <1>3, <1>4, <1>5

LEMMA CountNext == OutstandingExact' <=> IF pc'["io"] \in Ahead THEN CountIs(1)' ELSE CountIs(0)'
<1>1. {i \in Irps : Counted(i)}' = CountedIrps' BY DEF Counted, CountedIrps, CountedPhases
<1> QED BY <1>1 DEF OutstandingExact, ReadingAhead, Ahead, CountIs

LEMMA CountKept ==
  ASSUME OutstandingExact, UNCHANGED outstanding, CountedIrps' = CountedIrps,
         pc'["io"] \in Ahead <=> pc["io"] \in Ahead
  PROVE  OutstandingExact'
BY CountForms, CountNext DEF CountIs

LEMMA CountMain == ASSUME PipeInv, OutstandingExact, MainThread PROVE OutstandingExact'
<1>1. pc = [t \in Threads |-> pc[t]] BY DEF PipeInv, PipeTypes
<1>2. ASSUME NEW l, Goto("main", l) PROVE pc'["io"] = pc["io"]
  BY <1>1, <1>2 DEF Goto, Threads
<1>3. CASE MainFail \/ MainDeny \/ MainReadMisaligned
  <2>1. /\ pc["main"] = "check" /\ phase' = [phase EXCEPT ![mIrp] = "done"] /\ outstanding' = outstanding - 1
        /\ pc'["io"] = pc["io"]
    BY <1>2, <1>3 DEF MainFail, MainDeny, MainReadMisaligned, MainComplete, Advance, Decrement
  <2>2. mIrp \in Irps /\ phase[mIrp] = "queued" BY <2>1 DEF PipeInv, PipeTypes, MainPlace, Early
  <2>5. phase[mIrp] \in CountedPhases /\ "done" \notin CountedPhases BY <2>2 DEF CountedPhases
  <2>3. Cardinality(CountedIrps') = Cardinality(CountedIrps) - 1 BY <2>1, <2>2, <2>5, CountMoves
  <2>4. outstanding \in Int BY DEF PipeInv, PipeTypes
  <2> QED BY <2>1, <2>3, <2>4, CountForms, CountNext DEF CountIs
<1>4. CASE ~(MainFail \/ MainDeny \/ MainReadMisaligned)
  <2>1. UNCHANGED <<outstanding, phase>> /\ pc'["io"] = pc["io"]
    BY <1>2, <1>4, Zenon DEF MainThread, MainWake, MainDequeue, MainGate, MainResumed, MainGetItem, MainPoolFreed,
       MainSignal, MainDrop, MainAccept, MainFragment, NextFragment, MainGetRequest, MainQueueIo
  <2>2. CountedIrps' = CountedIrps BY <2>1 DEF CountedIrps
  <2> QED BY <2>1, <2>2, CountKept
<1> QED BY <1>3, <1>4

LEMMA CountDispatch ==
  ASSUME PipeInv, OutstandingExact, NEW t \in {"io", "comp"}, HandleComplete(t) PROVE OutstandingExact'
<1>1. pc = [k \in Threads |-> pc[k]] BY DEF PipeInv, PipeTypes
<1>2. UNCHANGED outstanding BY DEF HandleComplete, AwaitWorkItem, DispatchWorkItem, ReleaseRequest
<1>3. \E l \in {"dispatch", "release", "dequeue"} : Goto(t, l)
  BY DEF HandleComplete, AwaitWorkItem, DispatchWorkItem, ReleaseRequest
<1>4. pc[t] \in {"complete", "dispatch", "release"}
  BY DEF HandleComplete, AwaitWorkItem, DispatchWorkItem, ReleaseRequest
<1>5. pc'["io"] \in Ahead <=> pc["io"] \in Ahead BY <1>1, <1>3, <1>4 DEF Goto, Threads, Ahead
<1>6. CountedIrps' = CountedIrps
  <2>1. CASE DispatchWorkItem(t)
    <3>1. pc[t] \in Handling /\ phase' = [phase EXCEPT ![req[t].irp] = "completing"]
      BY <2>1 DEF DispatchWorkItem, Advance, Handling
    <3>2. req[t].irp \in Irps /\ phase[req[t].irp] = "queued" BY <3>1, HandFacts DEF PipeInv, Stations
    <3> QED BY <3>1, <3>2, CountMoves DEF CountedPhases
  <2>2. CASE AwaitWorkItem(t) \/ ReleaseRequest(t)
    BY <2>2 DEF AwaitWorkItem, ReleaseRequest, CountedIrps
  <2> QED BY <2>1, <2>2 DEF HandleComplete
<1> QED BY <1>2, <1>5, <1>6, CountKept

LEMMA CountIo == ASSUME PipeInv, OutstandingExact, IoThread PROVE OutstandingExact'
<1>1. pc = [t \in Threads |-> pc[t]] /\ outstanding \in Int BY DEF PipeInv, PipeTypes
<1>2. ASSUME NEW l, Goto("io", l) PROVE pc'["io"] = l
  BY <1>1, <1>2 DEF Goto, Threads
<1>3. CASE IoDecideReadAhead
  <2>1. CountedIrps' = CountedIrps BY <1>3 DEF IoDecideReadAhead, CountedIrps
  <2>2. pc["io"] = "decide" BY <1>3 DEF IoDecideReadAhead
  <2>3. CountIs(0) BY <2>2, CountForms DEF Ahead
  <2>4. \/ outstanding' = outstanding + 1 /\ pc'["io"] = "enqueueAhead"
        \/ UNCHANGED outstanding /\ pc'["io"] = "enqueue"
    BY <1>2, <1>3 DEF IoDecideReadAhead
  <2> QED BY <1>1, <2>1, <2>3, <2>4, CountForms, CountNext DEF CountIs, Ahead
<1>4. CASE IoEndReadAhead
  <2>1. CountedIrps' = CountedIrps BY <1>4 DEF IoEndReadAhead, CountedIrps
  <2>2. pc["io"] = "aheadDone" BY <1>4 DEF IoEndReadAhead
  <2>3. CountIs(1) BY <2>2, CountForms DEF Ahead
  <2>4. outstanding' = outstanding - 1 /\ pc'["io"] = AfterDecrement("dequeue")
    BY <1>2, <1>4 DEF IoEndReadAhead, Decrement
  <2>5. pc'["io"] \notin Ahead BY <2>4 DEF AfterDecrement, Ahead
  <2> QED BY <1>1, <2>1, <2>3, <2>4, <2>5, CountForms, CountNext DEF CountIs
<1>5. CASE IoWake \/ IoDequeue \/ IoSkip \/ IoWrite \/ IoRead \/ IoEnqueue \/ IoBeginReadAhead \/ IoReadAhead \/ IoSignal
  <2>1. UNCHANGED <<outstanding, phase>>
    BY <1>5, Zenon DEF IoWake, IoDequeue, IoSkip, IoWrite, IoRead, IoServed, IoEnqueue, IoBeginReadAhead,
       IoReadAhead, IoSignal
  <2>2. CountedIrps' = CountedIrps BY <2>1 DEF CountedIrps
  <2>3. CASE IoWake \/ IoDequeue \/ IoSkip \/ IoWrite \/ IoRead \/ IoSignal
    <3>1. \E l \in {"exit", "dequeue", "wait", "perform", "complete", "release", "enqueue", "decide"} : Goto("io", l)
      BY <2>3 DEF IoWake, IoDequeue, IoSkip, IoWrite, IoRead, IoServed, IoSignal, WriteDone
    <3>2. pc["io"] \in {"wait", "dequeue", "perform", "signal"}
      BY <2>3 DEF IoWake, IoDequeue, IoSkip, IoWrite, IoRead, IoSignal
    <3> QED BY <1>2, <2>1, <2>2, <3>1, <3>2, CountKept DEF Ahead
  <2>4. CASE IoEnqueue \/ IoBeginReadAhead \/ IoReadAhead
    <3>1. pc'["io"] \in Ahead <=> pc["io"] \in Ahead
      BY <1>2, <2>4 DEF IoEnqueue, IoBeginReadAhead, IoReadAhead, Ahead
    <3> QED BY <2>1, <2>2, <3>1, CountKept
  <2> QED BY <1>5, <2>3, <2>4
<1> QED BY <1>3, <1>4, <1>5, CountDispatch DEF IoThread

LEMMA CountComp == ASSUME PipeInv, OutstandingExact, CompletionThread PROVE OutstandingExact'
<1>1. CASE CompWake \/ CompDequeue \/ CompDecrypt
  <2>1. UNCHANGED <<outstanding, phase>> BY <1>1, Zenon DEF CompWake, CompDequeue, CompDecrypt
  <2>2. \E l : Goto("comp", l) BY <1>1, Zenon DEF CompWake, CompDequeue, CompDecrypt
  <2>3. pc'["io"] = pc["io"] BY <2>2 DEF Goto, PipeInv, PipeTypes, Threads
  <2>4. CountedIrps' = CountedIrps BY <2>1 DEF CountedIrps
  <2> QED BY <2>1, <2>3, <2>4, CountKept
<1> QED BY <1>1, CountDispatch DEF CompletionThread

LEMMA CountAddIrp == ASSUME PipeInv, OutstandingExact, NEW i \in Irps, AddIrp(i) PROVE OutstandingExact'
<1>1. UNCHANGED pc /\ outstanding \in Int
  BY DEF AddIrp, AddIrpCount, AddIrpAccept, AddIrpReject, AddIrpRejectSignal, AddIrpInsert, PipeInv, PipeTypes
<1>2. CASE AddIrpCount(i)
  <2>1. phase[i] = "new" /\ phase' = [phase EXCEPT ![i] = "counted"] /\ outstanding' = outstanding + 1
    BY <1>2 DEF AddIrpCount, Advance
  <2>2. phase[i] \notin CountedPhases /\ "counted" \in CountedPhases BY <2>1 DEF CountedPhases
  <2>3. Cardinality(CountedIrps') = Cardinality(CountedIrps) + 1 BY <2>1, <2>2, CountMoves
  <2> QED BY <1>1, <2>1, <2>3, CountForms, CountNext DEF CountIs
<1>3. CASE AddIrpReject(i)
  <2>1. PICK new \in {"rejecting", "rejected"} :
          phase[i] = "counted" /\ phase' = [phase EXCEPT ![i] = new] /\ outstanding' = outstanding - 1
    BY <1>3 DEF AddIrpReject, Advance, Decrement
  <2>2. phase[i] \in CountedPhases /\ new \notin CountedPhases BY <2>1 DEF CountedPhases
  <2>3. Cardinality(CountedIrps') = Cardinality(CountedIrps) - 1 BY <2>1, <2>2, CountMoves
  <2> QED BY <1>1, <2>1, <2>3, CountForms, CountNext DEF CountIs
<1>4. CASE AddIrpAccept(i) \/ AddIrpRejectSignal(i) \/ AddIrpInsert(i)
  <2>1. UNCHANGED outstanding BY <1>4 DEF AddIrpAccept, AddIrpRejectSignal, AddIrpInsert
  <2>2. \E new : /\ phase' = [phase EXCEPT ![i] = new]
                 /\ phase[i] \in CountedPhases <=> new \in CountedPhases
    BY <1>4 DEF AddIrpAccept, AddIrpRejectSignal, AddIrpInsert, Advance, CountedPhases
  <2>3. CountedIrps' = CountedIrps BY <2>2, CountMoves
  <2> QED BY <1>1, <2>1, <2>3, CountKept
<1> QED BY <1>2, <1>3, <1>4 DEF AddIrp

LEMMA CountWork ==
  ASSUME PipeInv, OutstandingExact, NEW i \in Irps, CompleteIrpWorkItem(i) PROVE OutstandingExact'
<1>1. UNCHANGED pc /\ outstanding \in Int
  BY DEF CompleteIrpWorkItem, WorkComplete, WorkSignal, WorkRetire, WorkReturn, WorkPost, WorkRelease,
     PipeInv, PipeTypes
<1>2. CASE WorkComplete(i)
  <2>1. PICK new \in {"signal", "retire"} :
          phase[i] = "completing" /\ phase' = [phase EXCEPT ![i] = new] /\ outstanding' = outstanding - 1
    BY <1>2 DEF WorkComplete, Advance, Decrement, AfterDecrement
  <2>2. phase[i] \in CountedPhases /\ new \notin CountedPhases BY <2>1 DEF CountedPhases
  <2>3. Cardinality(CountedIrps') = Cardinality(CountedIrps) - 1 BY <2>1, <2>2, CountMoves
  <2> QED BY <1>1, <2>1, <2>3, CountForms, CountNext DEF CountIs
<1>3. CASE WorkSignal(i) \/ WorkRetire(i) \/ WorkReturn(i) \/ WorkPost(i) \/ WorkRelease(i)
  <2>1. UNCHANGED outstanding BY <1>3 DEF WorkSignal, WorkRetire, WorkReturn, WorkPost, WorkRelease
  <2>2. \E new : /\ phase' = [phase EXCEPT ![i] = new]
                 /\ phase[i] \in CountedPhases <=> new \in CountedPhases
    BY <1>3 DEF WorkSignal, WorkRetire, WorkReturn, WorkPost, WorkRelease, Advance, CountedPhases
  <2>3. CountedIrps' = CountedIrps BY <2>2, CountMoves
  <2> QED BY <1>1, <2>1, <2>3, CountKept
<1> QED BY <1>2, <1>3 DEF CompleteIrpWorkItem

LEMMA CountInit == ASSUME Init PROVE OutstandingExact
<1>1. outstanding = 0 /\ pc["io"] = "wait" /\ \A i \in Irps : phase[i] = "new" BY DEF Init, Threads
<1>2. CountedIrps = {} BY <1>1 DEF CountedIrps, CountedPhases
<1> QED BY <1>1, <1>2, FS_EmptySet, CountForms DEF CountIs, Ahead

LEMMA CountStep == ASSUME PipeInv, OutstandingExact, [Next]_vars PROVE OutstandingExact'
<1>1. CASE HoldBegin \/ HoldStep \/ StopBegin \/ StopStep
  <2>1. UNCHANGED <<outstanding, phase>> /\ pc'["io"] = pc["io"] BY <1>1, Outsiders
  <2> QED BY <2>1, CountKept DEF CountedIrps
<1>2. CASE UNCHANGED vars
  <2>1. UNCHANGED <<outstanding, phase, pc>> BY <1>2 DEF vars
  <2> QED BY <2>1, CountKept DEF CountedIrps
<1> QED BY <1>1, <1>2, CountMain, CountIo, CountComp, CountAddIrp, CountWork DEF Next

\* OutstandingIoCount is the number of IRPs accepted and not yet completed,
\* and of read-aheads under way, after every step of every thread: none is
\* counted off twice, on whichever path it is completed or turned away.
THEOREM OutstandingIsExact == Spec => []OutstandingExact
<1>1. Init => PipeInv /\ OutstandingExact BY PipeInit, CountInit
<1>2. PipeInv /\ OutstandingExact /\ [Next]_vars => (PipeInv /\ OutstandingExact)' BY PipeStep, CountStep
<1> QED BY <1>1, <1>2, PTL DEF Spec

(***************************************************************************)
(* A hold.  From the moment the queue is suspended the main thread passes   *)
(* its gate no more; a hold that then still finds nothing outstanding finds *)
(* nothing in flight, and nothing comes after.                              *)
(***************************************************************************)
Suspended ==
  /\ pc["hold"] \in {"verify", "undo"} \/ Holding => suspended
  /\ suspended => ~evt["resumed"]
EvtTypes == evt = [e \in Events \cup Buffers |-> evt[e]]
HoldInv == EvtTypes /\ Suspended /\ HeldMeansQuiescent
Quiet == ioQ = <<>> /\ compQ = <<>> /\ ~MainPastGate /\ ~IoBusy /\ ~CompBusy

LEMMA EventMoves ==
  ASSUME EvtTypes, NEW e, e # "resumed", NEW v, evt' = [evt EXCEPT ![e] = v]
  PROVE  EvtTypes' /\ evt'["resumed"] = evt["resumed"]
BY DEF EvtTypes, Events

LEMMA BufferNames ==
  ASSUME PipeInv
  PROVE  mBuf # "resumed" /\ (pc["io"] = "perform" => ioReq.buf # "resumed")
<1>1. pc["io"] = "perform" => req["io"] \in Requests BY HandFacts DEF Handling
<1> QED BY <1>1 DEF ioReq, Requests, Buffers, PipeInv, PipeTypes

\* Only those who hold the queue set QueueResumedEvent.
LEMMA EventsAlone ==
  ASSUME PipeInv, EvtTypes,
         \/ MainThread \/ IoThread \/ CompletionThread \/ StopBegin \/ StopStep
         \/ \E i \in Irps : AddIrp(i) \/ CompleteIrpWorkItem(i)
  PROVE  EvtTypes' /\ (evt'["resumed"] => evt["resumed"]) /\ UNCHANGED suspended
<1>1. UNCHANGED suspended
  <2>1. CASE MainThread
    BY <2>1, Zenon DEF MainThread, MainWake, MainDequeue, MainGate, MainResumed, MainGetItem, MainPoolFreed, MainFail,
       MainDeny, MainReadMisaligned, MainSignal, MainDrop, MainAccept, MainFragment, NextFragment, MainGetRequest,
       MainQueueIo, flags
  <2>2. CASE IoThread \/ CompletionThread
    BY <2>2, Zenon DEF IoThread, IoWake, IoDequeue, IoSkip, IoWrite, IoRead, IoServed, IoDecideReadAhead, IoEnqueue,
       IoBeginReadAhead, IoReadAhead, IoEndReadAhead, IoSignal, CompletionThread, CompWake, CompDequeue,
       CompDecrypt, HandleComplete, AwaitWorkItem, DispatchWorkItem, ReleaseRequest, flags
  <2>3. CASE StopBegin \/ StopStep
    BY <2>3, Zenon DEF StopBegin, StopStep, StopCheck, StopAwait, StopRequestExit, StopWake, StopJoin,
       StopResetEvent, StopDrainCheck, StopFree, flags
  <2>4. CASE \E i \in Irps : AddIrp(i) \/ CompleteIrpWorkItem(i)
    BY <2>4, Zenon DEF AddIrp, AddIrpCount, AddIrpAccept, AddIrpReject, AddIrpRejectSignal, AddIrpInsert,
       CompleteIrpWorkItem, WorkComplete, WorkSignal, WorkRetire, WorkReturn, WorkPost, WorkRelease, flags
  <2> QED BY <2>1, <2>2, <2>3, <2>4
<1>2. CASE UNCHANGED evt BY <1>1, <1>2 DEF EvtTypes
<1>3. CASE \E e, v : e # "resumed" /\ evt' = [evt EXCEPT ![e] = v] BY <1>1, <1>3, EventMoves
<1>4. CASE MainResumed BY <1>1, <1>4 DEF MainResumed, Await, EvtTypes, Events
<1>5. CASE MainQueueIo
  <2>1. evt' = [evt EXCEPT ![mBuf] = FALSE, !["ioQ"] = TRUE] BY <1>5 DEF MainQueueIo
  <2> QED BY <1>1, <2>1, BufferNames DEF EvtTypes, Events
<1>6. UNCHANGED evt \/ (\E e, v : e # "resumed" /\ evt' = [evt EXCEPT ![e] = v]) \/ MainResumed \/ MainQueueIo
  <2>1. CASE MainThread
    <3>1. ASSUME NEW e \in {"mainQ", "poolFree", "noIo"}, NEW v, evt' = [evt EXCEPT ![e] = v]
          PROVE  \E f, w : f # "resumed" /\ evt' = [evt EXCEPT ![f] = w]
      BY <3>1
    <3> QED
      BY <2>1, <3>1 DEF MainThread, MainWake, MainDequeue, MainGate, MainGetItem, MainPoolFreed,
         MainFail, MainDeny, MainReadMisaligned, MainSignal, MainDrop, MainAccept, MainFragment, NextFragment,
         MainGetRequest, Await, Set, SignalIfPending
  <2>2. CASE IoSkip \/ IoWrite \/ IoRead
    <3>1. evt' = [evt EXCEPT ![ioReq.buf] = TRUE] /\ pc["io"] = "perform"
      BY <2>2 DEF IoSkip, IoWrite, IoRead, IoServed, Set
    <3> QED BY <3>1, BufferNames
  <2>3. CASE (IoThread \/ CompletionThread) /\ ~(IoSkip \/ IoWrite \/ IoRead)
    BY <2>3 DEF IoThread, IoWake, IoDequeue, IoDecideReadAhead, IoEnqueue,
       IoBeginReadAhead, IoReadAhead, IoEndReadAhead, IoSignal, CompletionThread, CompWake, CompDequeue,
       CompDecrypt, HandleComplete, AwaitWorkItem, DispatchWorkItem, ReleaseRequest, Await, Set, SignalIfPending
  <2>4. CASE StopBegin \/ StopStep
    BY <2>4 DEF StopBegin, StopStep, StopCheck, StopAwait, StopRequestExit, StopWake, StopJoin,
       StopResetEvent, StopDrainCheck, StopFree, Await, Set, QueueOf
  <2>5. CASE \E i \in Irps : AddIrp(i) \/ CompleteIrpWorkItem(i)
    BY <2>5 DEF AddIrp, AddIrpCount, AddIrpAccept, AddIrpReject, AddIrpRejectSignal, AddIrpInsert,
       CompleteIrpWorkItem, WorkComplete, WorkSignal, WorkRetire, WorkReturn, WorkPost, WorkRelease, Set,
       SignalIfPending
  <2> QED BY <2>1, <2>2, <2>3, <2>4, <2>5
<1> QED BY <1>1, <1>2, <1>3, <1>4, <1>5, <1>6

\* What the main thread, the I/O thread and the completion thread do while
\* the queue is suspended and quiet.
LEMMA QuietMain ==
  ASSUME PipeInv, suspended, ~evt["resumed"], Quiet, MainThread PROVE Quiet'
<1>1. pc = [t \in Threads |-> pc[t]] BY DEF PipeInv, PipeTypes
<1>2. pc["main"] \notin {"item", "itemWait", "check", "fragment", "request", "requestWait", "fill"}
  BY DEF Quiet, MainPastGate
<1>3. MainWake \/ MainDequeue \/ MainGate \/ MainSignal \/ MainDrop
  BY <1>2 DEF MainThread, MainResumed, MainGetItem, MainPoolFreed, MainFail, MainDeny, MainReadMisaligned,
     MainAccept, MainFragment, MainGetRequest, MainQueueIo, Await
<1>4. UNCHANGED <<ioQ, compQ>> /\ \E l \in {"dequeue", "exit", "wait", "gate", "held", "drop"} : Goto("main", l)
  BY <1>3 DEF MainWake, MainDequeue, MainGate, MainSignal, MainDrop, queues, GateClosed
<1>5. /\ pc'["io"] = pc["io"] /\ pc'["comp"] = pc["comp"]
      /\ pc'["main"] \in {"dequeue", "exit", "wait", "gate", "held", "drop"}
  BY <1>1, <1>4 DEF Goto, Threads
<1> QED BY <1>4, <1>5 DEF Quiet, MainPastGate, IoBusy, CompBusy

LEMMA QuietIo == ASSUME PipeInv, Quiet, IoThread PROVE Quiet'
<1>1. pc = [t \in Threads |-> pc[t]] BY DEF PipeInv, PipeTypes
<1>2. pc["io"] \notin {"perform", "decide", "enqueue", "enqueueAhead", "ahead", "aheadRead", "aheadDone",
                       "complete", "dispatch"} /\ ioQ = <<>>
  BY DEF Quiet, IoBusy, IoStates
<1>3. IoWake \/ IoDequeue \/ IoSignal \/ ReleaseRequest("io")
  BY <1>2, Zenon DEF IoThread, IoSkip, IoWrite, IoRead, IoDecideReadAhead, IoEnqueue, IoBeginReadAhead, IoReadAhead,
     IoEndReadAhead, HandleComplete, AwaitWorkItem, DispatchWorkItem
<1>4. UNCHANGED <<ioQ, compQ>> /\ \E l \in {"dequeue", "exit", "wait"} : Goto("io", l)
  BY <1>2, <1>3 DEF IoWake, IoDequeue, IoSignal, ReleaseRequest, queues
<1>5. pc'["main"] = pc["main"] /\ pc'["comp"] = pc["comp"] /\ pc'["io"] \in {"dequeue", "exit", "wait"}
  BY <1>1, <1>4 DEF Goto, Threads
<1> QED BY <1>4, <1>5 DEF Quiet, MainPastGate, IoBusy, IoStates, CompBusy

LEMMA QuietComp == ASSUME PipeInv, Quiet, CompletionThread PROVE Quiet'
<1>1. pc = [t \in Threads |-> pc[t]] BY DEF PipeInv, PipeTypes
<1>2. pc["comp"] \notin {"decrypt", "complete", "dispatch"} /\ compQ = <<>> BY DEF Quiet, CompBusy
<1>3. CompWake \/ CompDequeue \/ ReleaseRequest("comp")
  BY <1>2, Zenon DEF CompletionThread, CompDecrypt, HandleComplete, AwaitWorkItem, DispatchWorkItem
<1>4. UNCHANGED <<ioQ, compQ>> /\ \E l \in {"dequeue", "exit", "wait"} : Goto("comp", l)
  BY <1>2, <1>3 DEF CompWake, CompDequeue, ReleaseRequest, queues
<1>5. pc'["main"] = pc["main"] /\ pc'["io"] = pc["io"] /\ pc'["comp"] \in {"dequeue", "exit", "wait"}
  BY <1>1, <1>4 DEF Goto, Threads
<1> QED BY <1>4, <1>5 DEF Quiet, MainPastGate, IoBusy, IoStates, CompBusy

\* Nothing is counted: nothing is in flight.
LEMMA NothingCounted == ASSUME PipeInv, OutstandingExact, outstanding = 0 PROVE Quiet
<1>1. Cardinality(CountedIrps) = 0 /\ pc["io"] \notin Ahead BY CountForms DEF CountIs
<1>2. CountedIrps = {} BY <1>1, CountForms, FS_EmptySet
<1>3. \A i \in Irps : phase[i] # "queued" BY <1>2 DEF CountedIrps, CountedPhases
<1>4. Elements(ioQ) = {} /\ Elements(compQ) = {}
  <2>1. \A r \in Elements(ioQ) \cup Elements(compQ) : r.irp \in Irps /\ phase[r.irp] = "queued"
    BY DEF PipeInv, PipeTypes, Stations, Flight, Requests
  <2> QED BY <1>3, <2>1
<1>5. ioQ = <<>> /\ compQ = <<>> BY <1>4, NoElements DEF PipeInv, PipeTypes
<1>6. \A t \in {"io", "comp"} : pc[t] \notin Handling BY <1>3, HandFacts DEF PipeInv, Stations
<1>7. pc["main"] \notin Early \cup Looping BY <1>3 DEF PipeInv, PipeTypes, MainPlace
<1> QED BY <1>1, <1>5, <1>6, <1>7 DEF Quiet, MainPastGate, IoBusy, CompBusy, Ahead, Handling, Early, Looping, IoStates

LEMMA HoldMoves ==
  ASSUME PipeInv, OutstandingExact, HoldInv, HoldBegin \/ HoldStep PROVE HoldInv'
<1>1. pc = [t \in Threads |-> pc[t]] BY DEF PipeInv, PipeTypes
<1>2. ASSUME NEW l, Goto("hold", l) PROVE pc'["hold"] = l BY <1>1, <1>2 DEF Goto, Threads
<1>3. Quiet => Quiet' BY Outsiders DEF Quiet, MainPastGate, IoBusy, CompBusy, queues
<1>4. Holding' => pc'["hold"] \in {"settle", "held", "transform", "advance", "resume"} BY DEF Holding
<1>5. (Holding' => Quiet') => HeldMeansQuiescent' BY DEF HeldMeansQuiescent, Quiet
<1>6. Holding => Quiet BY DEF HoldInv, HeldMeansQuiescent, Quiet
<1> USE DEF HoldInv, Suspended
<1>7. CASE HoldSuspend
  <2>1. suspended' /\ evt' = [evt EXCEPT !["resumed"] = FALSE] /\ pc'["hold"] = "verify" BY <1>2, <1>7 DEF HoldSuspend
  <2>2. EvtTypes' /\ ~evt'["resumed"] BY <2>1 DEF EvtTypes, Events
  <2> QED BY <1>4, <1>5, <2>1, <2>2
<1>8. CASE HoldUndo \/ Resume
  <2>1. ~suspended' /\ evt' = [evt EXCEPT !["resumed"] = TRUE] /\ pc'["hold"] \in {"check", "idle"}
    BY <1>2, <1>8 DEF HoldUndo, Resume, Set
  <2>2. EvtTypes' BY <2>1 DEF EvtTypes, Events
  <2> QED BY <1>4, <1>5, <2>1, <2>2
<1>9. CASE HoldBegin \/ HoldCheck \/ HoldAwait \/ HoldGiveUp \/ HoldRecheck
  <2>1. /\ UNCHANGED suspended /\ (UNCHANGED evt \/ evt' = [evt EXCEPT !["noIo"] = FALSE])
        /\ \E l \in {"idle", "check", "await", "suspend", "recheck"} : Goto("hold", l)
    BY <1>9 DEF HoldBegin, HoldCheck, HoldAwait, HoldGiveUp, HoldRecheck, Await, flags
  <2>2. pc'["hold"] \in {"idle", "check", "await", "suspend", "recheck"} BY <1>2, <2>1
  <2>3. EvtTypes' /\ evt'["resumed"] = evt["resumed"] BY <2>1, EventMoves DEF EvtTypes
  <2> QED BY <1>4, <1>5, <2>1, <2>2, <2>3
<1>10. CASE HoldVerify
  <2>1. UNCHANGED <<suspended, evt>> /\ pc["hold"] = "verify"
        /\ pc'["hold"] = IF outstanding = 0 THEN "settle" ELSE "undo"
    BY <1>2, <1>10 DEF HoldVerify, flags, StillIdle
  <2>2. Holding' => Quiet BY <1>4, <2>1, NothingCounted
  <2> QED BY <1>3, <1>5, <2>1, <2>2 DEF EvtTypes
<1>11. CASE HoldSettle \/ SetupRead \/ SetupWrite \/ SetupUndo \/ SetupAdvance
  <2>1. UNCHANGED <<suspended, evt>> /\ Holding
    BY <1>11 DEF HoldSettle, SetupRead, SetupWrite, SetupUndo, SetupAdvance, flags, Holding
  <2> QED BY <1>3, <1>5, <1>6, <2>1 DEF EvtTypes
<1> QED BY <1>7, <1>8, <1>9, <1>10, <1>11 DEF HoldStep

\* The others leave the holder where it is.
LEMMA HoldStays ==
  ASSUME PipeInv, \/ MainThread \/ IoThread \/ CompletionThread \/ StopBegin \/ StopStep
                  \/ \E i \in Irps : AddIrp(i) \/ CompleteIrpWorkItem(i)
  PROVE  pc'["hold"] = pc["hold"]
<1>1. pc = [t \in Threads |-> pc[t]] BY DEF PipeInv, PipeTypes
<1>2. UNCHANGED pc \/ \E t \in {"main", "io", "comp", "stop"} : \E l : Goto(t, l)
  <2>1. CASE MainThread
    BY <2>1, Zenon DEF MainThread, MainWake, MainDequeue, MainGate, MainResumed, MainGetItem, MainPoolFreed, MainFail,
       MainDeny, MainReadMisaligned, MainComplete, MainSignal, MainDrop, MainAccept, MainFragment, NextFragment,
       MainGetRequest, MainQueueIo
  <2>2. CASE IoThread \/ CompletionThread
    BY <2>2, Zenon DEF IoThread, IoWake, IoDequeue, IoSkip, IoWrite, IoRead, IoServed, IoDecideReadAhead, IoEnqueue,
       IoBeginReadAhead, IoReadAhead, IoEndReadAhead, IoSignal, CompletionThread, CompWake, CompDequeue,
       CompDecrypt, HandleComplete, AwaitWorkItem, DispatchWorkItem, ReleaseRequest
  <2>3. CASE StopBegin \/ StopStep
    BY <2>3, Zenon DEF StopBegin, StopStep, StopCheck, StopAwait, StopRequestExit, StopWake, StopJoin,
       StopResetEvent, StopDrainCheck, StopFree
  <2>4. CASE \E i \in Irps : AddIrp(i) \/ CompleteIrpWorkItem(i)
    BY <2>4, Zenon DEF AddIrp, AddIrpCount, AddIrpAccept, AddIrpReject, AddIrpRejectSignal, AddIrpInsert,
       CompleteIrpWorkItem, WorkComplete, WorkSignal, WorkRetire, WorkReturn, WorkPost, WorkRelease
  <2> QED BY <2>1, <2>2, <2>3, <2>4
<1> QED BY <1>1, <1>2 DEF Goto, Threads

LEMMA QuietOthers ==
  ASSUME PipeInv, Quiet, \/ StopBegin \/ StopStep
                         \/ \E i \in Irps : AddIrp(i) \/ CompleteIrpWorkItem(i)
  PROVE  Quiet'
<1>1. CASE StopBegin \/ StopStep
  BY <1>1, Outsiders DEF Quiet, MainPastGate, IoBusy, CompBusy, queues
<1>2. CASE \E i \in Irps : AddIrp(i) \/ CompleteIrpWorkItem(i)
  <2>1. UNCHANGED <<pc, ioQ, compQ>>
    BY <1>2, Zenon DEF AddIrp, AddIrpCount, AddIrpAccept, AddIrpReject, AddIrpRejectSignal, AddIrpInsert,
       CompleteIrpWorkItem, WorkComplete, WorkSignal, WorkRetire, WorkReturn, WorkPost, WorkRelease, queues
  <2> QED BY <2>1 DEF Quiet, MainPastGate, IoBusy, CompBusy
<1> QED BY <1>1, <1>2

LEMMA HoldKeptByOthers ==
  ASSUME PipeInv, HoldInv,
         \/ MainThread \/ IoThread \/ CompletionThread \/ StopBegin \/ StopStep
         \/ \E i \in Irps : AddIrp(i) \/ CompleteIrpWorkItem(i)
  PROVE  HoldInv'
<1>1. Suspended' /\ EvtTypes' BY EventsAlone, HoldStays DEF HoldInv, Suspended, Holding
<1>2. ASSUME Holding' PROVE Quiet'
  <2>1. Quiet /\ suspended /\ ~evt["resumed"]
    BY <1>2, HoldStays DEF Holding, HoldInv, Suspended, HeldMeansQuiescent, Quiet
  <2> QED BY <2>1, QuietMain, QuietIo, QuietComp, QuietOthers
<1> QED BY <1>1, <1>2 DEF HoldInv, HeldMeansQuiescent, Quiet

LEMMA HoldInit == ASSUME Init PROVE HoldInv
<1>1. evt = [e \in Events \cup Buffers |-> e \in Buffers] /\ pc["hold"] = "idle" /\ suspended = FALSE
  BY DEF Init, Threads
<1>2. EvtTypes BY <1>1, Zenon DEF EvtTypes
<1> QED BY <1>1, <1>2 DEF HoldInv, Suspended, HeldMeansQuiescent, Holding

LEMMA HoldKept == ASSUME PipeInv, OutstandingExact, HoldInv, [Next]_vars PROVE HoldInv'
<1>1. CASE UNCHANGED vars
  <2>1. UNCHANGED <<pc, evt, suspended, ioQ, compQ>> BY <1>1 DEF vars, flags, queues
  <2> QED BY <2>1 DEF HoldInv, EvtTypes, Suspended, HeldMeansQuiescent, Holding, MainPastGate, IoBusy, CompBusy
<1> QED BY <1>1, HoldMoves, HoldKeptByOthers DEF Next

\* While the setup thread holds the queue no thread of the queue transfers
\* data or has a decision about the encrypted area in hand: the second look
\* at the count in EncryptedIoQueueHoldWhenIdle is what makes it so.
THEOREM HoldIsQuiescent == Spec => []HeldMeansQuiescent
<1> DEFINE Inv == PipeInv /\ OutstandingExact /\ HoldInv
<1>1. Init => Inv BY PipeInit, CountInit, HoldInit
<1>2. Inv /\ [Next]_vars => Inv' BY PipeStep, CountStep, HoldKept
<1>3. Inv => HeldMeansQuiescent BY DEF HoldInv
<1> QED BY <1>1, <1>2, <1>3, PTL DEF Spec
-----------------------------------------------------------------------------
(***************************************************************************)
(* The completion work items.  A work item is in the free list, or on its   *)
(* way there, for each unit of the semaphore and for each thread that has   *)
(* taken a unit and not yet its work item.                                  *)
(***************************************************************************)
Dispatching(t) == IF pc[t] = "dispatch" THEN 1 ELSE 0
Posting == {i \in Irps : phase[i] = "post"}

WorkTypes ==
  /\ sem \in Nat /\ freeWork \in Int
  /\ pc = [k \in Threads |-> pc[k]]
  /\ phase = [k \in Irps |-> phase[k]]
WorkAccount ==
  sem + Dispatching("io") + Dispatching("comp") + Cardinality(Posting) <= freeWork
WorkInv == WorkTypes /\ WorkAccount

\* The two threads that may hold a unit of the semaphore are counted one by one.
LEMMA DispatchingCount ==
  Cardinality({t \in {"io", "comp"} : pc[t] = "dispatch"}) = Dispatching("io") + Dispatching("comp")
<1> DEFINE S == {t \in {"io", "comp"} : pc[t] = "dispatch"}
<1>1. CASE pc["io"] = "dispatch" /\ pc["comp"] = "dispatch"
  <2>1. S = {"io"} \cup {"comp"} BY <1>1
  <2>2. IsFiniteSet({"io"}) /\ Cardinality({"io"}) = 1 BY FS_Singleton, Zenon
  <2>3. Cardinality({"io"} \cup {"comp"}) = 2
    <3>1. Cardinality({"io"} \cup {"comp"}) = IF "comp" \in {"io"} THEN Cardinality({"io"}) ELSE Cardinality({"io"}) + 1
      BY <2>2, FS_AddElement, Zenon
    <3>2. "comp" \notin {"io"} OBVIOUS
    <3> QED BY <2>2, <3>1, <3>2
  <2> QED BY <1>1, <2>1, <2>3 DEF Dispatching
<1>2. CASE pc["io"] = "dispatch" /\ pc["comp"] # "dispatch"
  <2>1. S = {"io"} BY <1>2
  <2>2. Cardinality({"io"}) = 1 BY FS_Singleton, Zenon
  <2> QED BY <1>2, <2>1, <2>2 DEF Dispatching
<1>3. CASE pc["io"] # "dispatch" /\ pc["comp"] = "dispatch"
  <2>1. S = {"comp"} BY <1>3
  <2>2. Cardinality({"comp"}) = 1 BY FS_Singleton, Zenon
  <2> QED BY <1>3, <2>1, <2>2 DEF Dispatching
<1>4. CASE pc["io"] # "dispatch" /\ pc["comp"] # "dispatch"
  <2>1. S = {} BY <1>4
  <2>2. Cardinality({}) = 0 BY FS_EmptySet, Zenon
  <2> QED BY <1>4, <2>1, <2>2 DEF Dispatching
<1> QED BY <1>1, <1>2, <1>3, <1>4

\* The IRPs about to release the semaphore are some of the IRPs.
LEMMA PostingFinite == IsFiniteSet(Posting) /\ Cardinality(Posting) \in Nat
<1>1. Posting \in SUBSET Irps BY DEF Posting
<1>2. IsFiniteSet(Posting) BY <1>1, OpsAssumption, FS_Subset
<1> QED BY <1>2, FS_CardinalityType

\* A step that leaves the semaphore and the list alone, takes no unit and lets
\* no further IRP come to the release of the semaphore, keeps the account.
LEMMA WorkUntouched ==
  ASSUME WorkInv, WorkTypes', UNCHANGED <<sem, freeWork>>,
         Dispatching("io")' = Dispatching("io"), Dispatching("comp")' = Dispatching("comp"),
         Posting' \subseteq Posting
  PROVE  WorkInv'
<1>2. Cardinality(Posting') <= Cardinality(Posting) /\ Cardinality(Posting) \in Nat /\ Cardinality(Posting') \in Nat
  BY PostingFinite, FS_Subset, FS_CardinalityType
<1> QED BY <1>2, SMT DEF WorkInv, WorkAccount, WorkTypes, Dispatching

\* MainThreadProc.
LEMMA WorkMain ==
  ASSUME WorkInv, MainThread PROVE WorkInv'
<1>1. /\ WorkTypes' /\ UNCHANGED <<sem, freeWork>> /\ Posting' \subseteq Posting
      /\ Dispatching("io")' = Dispatching("io") /\ Dispatching("comp")' = Dispatching("comp")
  BY SMTT(60) DEF WorkInv, WorkTypes, Posting, Dispatching, MainThread, MainWake, MainDequeue,
     MainGate, MainResumed, MainGetItem, MainPoolFreed, MainFail, MainDeny, MainReadMisaligned,
     MainSignal, MainDrop, MainAccept, MainFragment, MainGetRequest, MainQueueIo, NextFragment,
     MainComplete, Goto, Advance, Threads, work
<1> QED BY <1>1, WorkUntouched

\* EncryptedIoQueueAddIrp, the holder of the queue and EncryptedIoQueueStop.
LEMMA WorkOutside ==
  ASSUME WorkInv, (\E i \in Irps : AddIrp(i)) \/ HoldBegin \/ HoldStep \/ StopBegin \/ StopStep
  PROVE  WorkInv'
<1>1. /\ WorkTypes' /\ UNCHANGED <<sem, freeWork>> /\ Posting' \subseteq Posting
      /\ Dispatching("io")' = Dispatching("io") /\ Dispatching("comp")' = Dispatching("comp")
  <2> USE DEF WorkInv, WorkTypes, Posting, Dispatching, Goto, Advance, Threads, work
  <2>1. ASSUME NEW i \in Irps, AddIrp(i) 
         PROVE  /\ WorkTypes' /\ UNCHANGED <<sem, freeWork>> /\ Posting' \subseteq Posting
                /\ Dispatching("io")' = Dispatching("io") /\ Dispatching("comp")' = Dispatching("comp")
    BY <2>1, SMTT(60) DEF AddIrp, AddIrpCount, AddIrpAccept, AddIrpReject, AddIrpRejectSignal, AddIrpInsert
  <2>2. CASE HoldBegin \/ HoldStep
    BY <2>2, SMTT(60) DEF HoldBegin, HoldStep, HoldCheck, HoldAwait, HoldGiveUp, HoldRecheck, HoldSuspend,
       HoldVerify, HoldUndo, HoldSettle, SetupRead, SetupWrite, SetupUndo, SetupAdvance, Resume
  <2>3. CASE StopBegin \/ StopStep
    BY <2>3, SMTT(60) DEF StopBegin, StopStep, StopCheck, StopAwait, StopRequestExit, StopWake, StopJoin,
       StopResetEvent, StopDrainCheck, StopFree, Joining, NextStop
  <2> QED BY <2>1, <2>2, <2>3
<1> QED BY <1>1, WorkUntouched

\* HandleCompleteOriginalIrp, in the I/O or the completion thread.
LEMMA WorkHandle ==
  ASSUME WorkInv, NEW t \in {"io", "comp"}, HandleComplete(t) PROVE WorkInv'
<1> USE DEF WorkInv, WorkTypes, Dispatching, Goto, Advance, Threads
<1>1. CASE AwaitWorkItem(t)
  <2>1. Posting' = Posting BY <1>1 DEF AwaitWorkItem, Posting
  <2>2. sem' \in Nat /\ sem' = sem - 1 /\ freeWork' = freeWork BY <1>1 DEF AwaitWorkItem, SemaphoreOpen
  <2>3. pc' = [k \in Threads |-> pc'[k]] /\ phase' = [k \in Irps |-> phase'[k]]
    BY <1>1 DEF AwaitWorkItem
  <2>4. Dispatching("io")' + Dispatching("comp")' <= Dispatching("io") + Dispatching("comp") + 1
    BY <1>1 DEF AwaitWorkItem
  <2>5. Cardinality(Posting) \in Nat BY PostingFinite
  <2> HIDE DEF Dispatching
  <2>6. Dispatching("io") \in Nat /\ Dispatching("comp") \in Nat /\ Dispatching("io")' \in Nat /\ Dispatching("comp")' \in Nat
    BY DEF Dispatching
  <2> QED BY <2>1, <2>2, <2>3, <2>4, <2>5, <2>6 DEF WorkAccount
<1>2. CASE DispatchWorkItem(t)
  <2>1. Posting' \subseteq Posting BY <1>2 DEF DispatchWorkItem, Posting
  <2>2. sem' = sem /\ freeWork' = freeWork - 1 BY <1>2 DEF DispatchWorkItem
  <2>3. pc' = [k \in Threads |-> pc'[k]] /\ phase' = [k \in Irps |-> phase'[k]]
    BY <1>2 DEF DispatchWorkItem
  <2>4. Dispatching("io")' + Dispatching("comp")' = Dispatching("io") + Dispatching("comp") - 1
    BY <1>2 DEF DispatchWorkItem
  <2>5. Cardinality(Posting') <= Cardinality(Posting) /\ Cardinality(Posting) \in Nat /\ Cardinality(Posting') \in Nat
    BY <2>1, PostingFinite, FS_Subset, FS_CardinalityType
  <2> HIDE DEF Dispatching
  <2>6. Dispatching("io") \in Nat /\ Dispatching("comp") \in Nat /\ Dispatching("io")' \in Nat /\ Dispatching("comp")' \in Nat
    BY DEF Dispatching
  <2> QED BY <2>2, <2>3, <2>4, <2>5, <2>6 DEF WorkAccount
<1>3. CASE ReleaseRequest(t)
  <2>1. WorkTypes' /\ UNCHANGED <<sem, freeWork>> /\ Posting' \subseteq Posting
    BY <1>3 DEF ReleaseRequest, work, Posting
  <2>2. Dispatching("io")' = Dispatching("io") /\ Dispatching("comp")' = Dispatching("comp")
    BY <1>3 DEF ReleaseRequest
  <2> HIDE DEF WorkInv, Dispatching
  <2> QED BY <2>1, <2>2, WorkUntouched
<1> QED BY <1>1, <1>2, <1>3 DEF HandleComplete

\* The other steps of the I/O and the completion thread.
LEMMA WorkThreads ==
  ASSUME WorkInv, IoThread \/ CompletionThread PROVE WorkInv'
<1>1. ASSUME IoWake \/ IoDequeue \/ IoSkip \/ IoWrite \/ IoRead \/ IoDecideReadAhead \/ IoEnqueue
             \/ IoBeginReadAhead \/ IoReadAhead \/ IoEndReadAhead \/ IoSignal
      PROVE  WorkInv'
  <2>1. WorkTypes' /\ UNCHANGED <<sem, freeWork>> /\ Posting' \subseteq Posting
    BY <1>1, SMTT(60) DEF WorkInv, WorkTypes, Posting, Goto, Threads, work, IoWake, IoDequeue, IoSkip, IoWrite, IoRead,
       IoDecideReadAhead, IoEnqueue, IoBeginReadAhead, IoReadAhead, IoEndReadAhead, IoSignal, IoServed
  <2>2. Dispatching("io")' = Dispatching("io") /\ Dispatching("comp")' = Dispatching("comp")
    BY <1>1, SMTT(60) DEF WorkInv, WorkTypes, Dispatching, Goto, Threads, IoWake, IoDequeue, IoSkip, IoWrite, IoRead,
       IoDecideReadAhead, IoEnqueue, IoBeginReadAhead, IoReadAhead, IoEndReadAhead, IoSignal, IoServed, WriteDone, AfterDecrement
  <2> QED BY <2>1, <2>2, WorkUntouched
<1>2. ASSUME CompWake \/ CompDequeue \/ CompDecrypt PROVE WorkInv'
  <2>1. /\ WorkTypes' /\ UNCHANGED <<sem, freeWork>> /\ Posting' \subseteq Posting
        /\ Dispatching("io")' = Dispatching("io") /\ Dispatching("comp")' = Dispatching("comp")
    BY <1>2, SMTT(60) DEF WorkInv, WorkTypes, Posting, Dispatching, Goto, Threads, work, CompWake, CompDequeue, CompDecrypt
  <2> QED BY <2>1, WorkUntouched
<1> QED BY <1>1, <1>2, WorkHandle DEF IoThread, CompletionThread

\* CompleteIrpWorkItemRoutine: the work item is returned to the free list before
\* the semaphore is released.
LEMMA WorkCompletion ==
  ASSUME WorkInv, NEW i \in Irps, CompleteIrpWorkItem(i) PROVE WorkInv'
<1>1. CASE WorkComplete(i) \/ WorkSignal(i) \/ WorkRetire(i) \/ WorkRelease(i)
  <2>1. /\ WorkTypes' /\ UNCHANGED <<sem, freeWork>> /\ Posting' \subseteq Posting
        /\ Dispatching("io")' = Dispatching("io") /\ Dispatching("comp")' = Dispatching("comp")
    BY <1>1 DEF WorkInv, WorkTypes, Posting, Dispatching, Advance, work, WorkComplete, WorkSignal,
       WorkRetire, WorkRelease, AfterDecrement
  <2> QED BY <2>1, WorkUntouched
<1>2. CASE WorkReturn(i)
  <2>1. Posting' = Posting \cup {i} /\ i \notin Posting
    BY <1>2 DEF WorkReturn, Posting, Advance, WorkInv, WorkTypes
  <2>2. Cardinality(Posting') = Cardinality(Posting) + 1 /\ Cardinality(Posting) \in Nat
    BY <2>1, PostingFinite, FS_AddElement
  <2>3. sem' = sem /\ freeWork' = freeWork + 1 /\ WorkTypes'
    BY <1>2 DEF WorkReturn, Advance, WorkInv, WorkTypes
  <2>4. Dispatching("io")' = Dispatching("io") /\ Dispatching("comp")' = Dispatching("comp")
    BY <1>2 DEF WorkReturn, Dispatching
  <2>5. Dispatching("io") \in Nat /\ Dispatching("comp") \in Nat BY DEF Dispatching
  <2> QED BY <2>2, <2>3, <2>4, <2>5 DEF WorkInv, WorkAccount, WorkTypes
<1>3. CASE WorkPost(i)
  <2>1. Posting' = Posting \ {i} /\ i \in Posting
    BY <1>3 DEF WorkPost, Posting, Advance, WorkInv, WorkTypes
  <2>2. Cardinality(Posting') = Cardinality(Posting) - 1 /\ Cardinality(Posting) \in Nat
    BY <2>1, PostingFinite, FS_RemoveElement
  <2>3. sem' = sem + 1 /\ freeWork' = freeWork /\ WorkTypes'
    BY <1>3 DEF WorkPost, Advance, WorkInv, WorkTypes
  <2>4. Dispatching("io")' = Dispatching("io") /\ Dispatching("comp")' = Dispatching("comp")
    BY <1>3 DEF WorkPost, Dispatching
  <2>5. Dispatching("io") \in Nat /\ Dispatching("comp") \in Nat BY DEF Dispatching
  <2> QED BY <2>2, <2>3, <2>4, <2>5 DEF WorkInv, WorkAccount, WorkTypes
<1> QED BY <1>1, <1>2, <1>3 DEF CompleteIrpWorkItem

LEMMA WorkInit == ASSUME Init PROVE WorkInv
<1>1. Posting = {} BY DEF Init, Posting
<1>2. Cardinality(Posting) = 0 BY <1>1, FS_EmptySet, Zenon
<1>3. Dispatching("io") = 0 /\ Dispatching("comp") = 0 BY DEF Init, Dispatching, Threads
<1>4. WorkTypes BY CountsAssumption DEF Init, WorkTypes
<1> QED BY <1>2, <1>3, <1>4 DEF WorkInv, WorkAccount, Init, WorkTypes

LEMMA WorkKept == ASSUME WorkInv, [Next]_vars PROVE WorkInv'
<1>1. CASE Next
  BY <1>1, WorkMain, WorkOutside, WorkThreads, WorkCompletion DEF Next
<1>2. CASE UNCHANGED vars
  BY <1>2, SMT DEF vars, work, WorkInv, WorkTypes, WorkAccount, Dispatching, Posting
<1> QED BY <1>1, <1>2

\* A thread that was let through by WorkItemSemaphore finds a work item in
\* FreeWorkItemsList (HandleCompleteOriginalIrp asserts nothing and removes it).
THEOREM WorkItemsSuffice == Spec => []WorkItemAvailable
<1>1. Init => WorkInv BY WorkInit
<1>2. WorkInv /\ [Next]_vars => WorkInv' BY WorkKept
<1>3. WorkInv => WorkItemAvailable
  <2> SUFFICES ASSUME WorkInv PROVE WorkItemAvailable OBVIOUS
  <2>1. Cardinality(Posting) \in Nat BY PostingFinite
  <2>2. Dispatching("io") \in Nat /\ Dispatching("comp") \in Nat BY DEF Dispatching
  <2> QED BY <2>1, <2>2, DispatchingCount DEF WorkInv, WorkTypes, WorkAccount, WorkItemAvailable
<1> QED BY <1>1, <1>2, <1>3, PTL DEF Spec
=============================================================================
