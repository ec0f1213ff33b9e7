------------------------ MODULE EncryptionThreadPool ------------------------
(***************************************************************************)
(* The encryption thread pool of the Windows driver and applications        *)
(* (Common/EncryptionThreadPool.c), and its twin in the other systems       *)
(* (Volume/EncryptionThreadPool.cpp), where a fragment may throw and there  *)
(* is no key derivation: a ring of work items, filled under                 *)
(* EnqueueMutex by EncryptionThreadPoolDoWork, which splits a range of data *)
(* units into fragments and waits for all of them, and by                   *)
(* EncryptionThreadPoolBeginKeyDerivation, which does not wait; emptied     *)
(* under DequeueMutex by the threads of the pool; and stopped.              *)
(*                                                                          *)
(* One atomic step is one access to the state of a work item, a counter, an *)
(* event or a mutex, with the thread-local code around it.  What a fragment *)
(* encrypts is the interval of unit numbers it was given.                   *)
(***************************************************************************)
EXTENDS Integers, FiniteSets

CONSTANTS
  Workers,      \* the threads of the pool
  Callers,      \* threads that call DoWork
  KeyCallers,   \* bound: those of them that call BeginKeyDerivation too
  QueueSize,    \* ThreadQueueSize
  UnitCounts,   \* bound: the unitCount arguments of DoWork
  MaxCalls,     \* bound: calls of each caller
  MayStop       \* EncryptionThreadPoolStop may be called

NoOne == "none"

ASSUME PoolAssumption ==
  /\ IsFiniteSet(Workers) /\ Cardinality(Workers) > 1
  /\ NoOne \notin Workers /\ NoOne \notin Callers /\ Workers \cap Callers = {}
  /\ KeyCallers \subseteq Callers
  /\ QueueSize \in Nat /\ QueueSize >= Cardinality(Workers)
  /\ UnitCounts \subseteq Nat \ {0}
  /\ MaxCalls \in Nat /\ MayStop \in BOOLEAN

VARIABLES
  portable,            \* the pool of Volume/EncryptionThreadPool.cpp, or that of Common/
  running, stopPending, threadCount, \* ThreadPoolRunning, StopPending, ThreadCount
  enq, deq,            \* EnqueuePosition, DequeuePosition
  enqOwner, deqOwner,  \* who has EnqueueMutex, DequeueMutex
  readyEvt, doneEvt,   \* WorkItemReadyEvent, WorkItemCompletedEvent
  slot,                \* WorkItemQueue
  cPc, call,           \* each caller: where it is, the locals of DoWork
  wPc, wSlot,          \* each worker: where it is, its work item
  sPc, joined,         \* EncryptionThreadPoolStop, threads it has waited for
  wGroup,              \* history: the first fragment of the item a worker took
  times,               \* history: how often each unit of a call was processed
  broken,              \* history: a fragment of the call threw
  calls                \* history: calls made so far

flags   == <<portable, running, stopPending, threadCount>>
events  == <<readyEvt, doneEvt>>
stop    == <<sPc, joined>>
history == <<times, broken, calls>>
vars == <<flags, enq, deq, enqOwner, deqOwner, events, slot, cPc, call, wPc, wSlot,
          stop, wGroup, history>>

Slots == 0 .. QueueSize - 1
After_OffByOne(s) == IF s + 1 > QueueSize THEN 0 ELSE s + 1
After(s) == IF s + 1 >= QueueSize THEN 0 ELSE s + 1

\* One WorkItemQueue entry: fragment lo .. hi of the data of owner, the slot
\* of its first fragment and, in that one, OutstandingFragmentCount,
\* ItemException and ItemCompletedEvent.
EmptySlot == [state |-> "free", kind |-> "units", owner |-> NoOne, first |-> 0,
              lo |-> 1, hi |-> 0, count |-> 0, exception |-> FALSE, completed |-> FALSE]
IdleCall == [size |-> 0, first |-> 0, left |-> 0, next |-> 1, per |-> 0, rem |-> 0, threw |-> FALSE]

\* EncryptionThreadPoolStart has succeeded.
Init ==
  /\ portable \in BOOLEAN
  /\ running = TRUE /\ stopPending = FALSE /\ threadCount = Cardinality(Workers)
  /\ enq = 0 /\ deq = 0 /\ enqOwner = NoOne /\ deqOwner = NoOne
  /\ readyEvt = FALSE /\ doneEvt = FALSE
  /\ slot = [s \in Slots |-> EmptySlot]
  /\ cPc = [c \in Callers |-> "idle"] /\ call = [c \in Callers |-> IdleCall]
  /\ wPc = [w \in Workers |-> "loop"] /\ wSlot = [w \in Workers |-> 0]
  /\ sPc = "idle" /\ joined = {}
  /\ wGroup = [w \in Workers |-> 0]
  /\ times = [c \in Callers |-> <<>>] /\ broken = [c \in Callers |-> FALSE]
  /\ calls = [c \in Callers |-> 0]

(***************************************************************************)
(* Definitions named X_Y are X with a fault Y that a property below must    *)
(* catch; no action uses them.                                              *)
(***************************************************************************)
CGoto(c, l) == cPc' = [cPc EXCEPT ![c] = l]
WGoto(w, l) == wPc' = [wPc EXCEPT ![w] = l]
SetState(s, st) == slot' = [slot EXCEPT ![s].state = st]
IsFree(s) == slot[s].state = "free"

(***************************************************************************)
(* EncryptionThreadPoolDoWork: how unitCount units are divided.  The first  *)
(* "rem" fragments have one unit more than the others.                      *)
(***************************************************************************)
FragmentCount(n) == IF n <= threadCount THEN n ELSE threadCount
UnitsPerFragment(n) ==
  IF n <= threadCount THEN 1
  ELSE n \div threadCount + (IF n % threadCount > 0 THEN 1 ELSE 0)
Remainder(n) == IF n <= threadCount THEN 0 ELSE n % threadCount

AfterFragment_NoRemainder(k) == [k EXCEPT !.left = @ - 1, !.next = @ + k.per]
AfterFragment(k) ==
  [k EXCEPT !.left = @ - 1, !.next = @ + k.per,
            !.rem = IF @ > 0 THEN @ - 1 ELSE 0,
            !.per = IF k.rem = 1 THEN @ - 1 ELSE @]

\* A call of DoWork for n units; with one unit, or no pool, it does the work
\* itself.  Nobody calls once the pool is being stopped.
CallDoWork(c, n) ==
  /\ cPc[c] = "idle" /\ calls[c] < MaxCalls /\ sPc \in {"idle", "stopped"}
  /\ calls' = [calls EXCEPT ![c] = @ + 1] /\ broken' = [broken EXCEPT ![c] = FALSE]
  /\ IF ~running \/ n = 1
     THEN /\ times' = [times EXCEPT ![c] = [u \in 1 .. n |-> 1]]
          /\ call' = [call EXCEPT ![c] = IdleCall] /\ UNCHANGED cPc
     ELSE /\ times' = [times EXCEPT ![c] = [u \in 1 .. n |-> 0]]
          /\ call' = [call EXCEPT ![c] = [size |-> n, first |-> 0, left |-> FragmentCount(n),
                        next |-> 1, per |-> UnitsPerFragment(n), rem |-> Remainder(n), threw |-> FALSE]]
          /\ CGoto(c, "lock")
  /\ UNCHANGED <<flags, enq, deq, enqOwner, deqOwner, events, slot, wPc, wSlot, stop, wGroup>>

\* A call of EncryptionThreadPoolBeginKeyDerivation; it needs the pool, and
\* only the pool of Common/ has it.
CallBegin(c) ==
  /\ cPc[c] = "idle" /\ calls[c] < MaxCalls /\ c \in KeyCallers /\ sPc = "idle" /\ ~portable
  /\ calls' = [calls EXCEPT ![c] = @ + 1]
  /\ call' = [call EXCEPT ![c] = IdleCall] /\ CGoto(c, "lock")
  /\ times' = [times EXCEPT ![c] = <<>>] /\ broken' = [broken EXCEPT ![c] = FALSE]
  /\ UNCHANGED <<flags, enq, deq, enqOwner, deqOwner, events, slot, wPc, wSlot, stop, wGroup>>

IsKeyCall(c) == call[c].size = 0

Lock(c) ==
  /\ cPc[c] = "lock" /\ enqOwner = NoOne /\ enqOwner' = c
  /\ call' = [call EXCEPT ![c].first = enq]
  /\ CGoto(c, IF IsKeyCall(c) THEN "next" ELSE "first")
  /\ UNCHANGED <<flags, enq, deq, deqOwner, events, slot, wPc, wSlot, stop, wGroup, history>>

\* The slot of the first fragment must be free before its count is set.
First(c) ==
  /\ cPc[c] = "first"
  /\ IF IsFree(call[c].first)
     THEN /\ slot' = [slot EXCEPT ![call[c].first].count = call[c].left,
                                   ![call[c].first].exception = FALSE]
          /\ CGoto(c, "next")
     ELSE CGoto(c, "firstWait") /\ UNCHANGED slot
  /\ UNCHANGED <<flags, enq, deq, enqOwner, deqOwner, events, call, wPc, wSlot, stop, wGroup, history>>

\* WorkItemCompletedEvent, a synchronization event.
Completed(c) ==
  /\ \/ cPc[c] = "firstWait" /\ CGoto(c, "first")
     \/ cPc[c] = "slotWait" /\ CGoto(c, "next")
  /\ doneEvt /\ doneEvt' = FALSE
  /\ UNCHANGED <<flags, enq, deq, enqOwner, deqOwner, readyEvt, slot, call, wPc, wSlot, stop, wGroup, history>>

\* Fills the next slot once it is free.  EnqueuePosition is read and moved by
\* the owner of EnqueueMutex alone; it is moved here, when the wait is over.
FragmentOf(c) ==
  [slot[enq] EXCEPT !.state = "ready", !.kind = IF IsKeyCall(c) THEN "key" ELSE "units",
                    !.owner = c, !.first = call[c].first,
                    !.lo = call[c].next, !.hi = call[c].next + call[c].per - 1]
SlotFree(s) == IsFree(s)
Fill(c) ==
  /\ cPc[c] = "next"
  /\ IF SlotFree(enq)
     THEN /\ slot' = [slot EXCEPT ![enq] = FragmentOf(c)]
          /\ call' = [call EXCEPT ![c] = IF IsKeyCall(c) THEN @ ELSE AfterFragment(@)]
          /\ enq' = After(enq) /\ CGoto(c, "ready")
     ELSE CGoto(c, "slotWait") /\ UNCHANGED <<slot, call, enq>>
  /\ UNCHANGED <<flags, deq, enqOwner, deqOwner, events, wPc, wSlot, stop, wGroup, history>>

SignalReady(c) ==
  /\ cPc[c] = "ready" /\ readyEvt' = TRUE
  /\ CGoto(c, IF call[c].left > 0 THEN "next" ELSE "unlock")
  /\ UNCHANGED <<flags, enq, deq, enqOwner, deqOwner, doneEvt, slot, call, wPc, wSlot, stop, wGroup, history>>

Unlock(c) ==
  /\ cPc[c] = "unlock" /\ enqOwner' = NoOne
  /\ CGoto(c, IF IsKeyCall(c) THEN "idle" ELSE "await")
  /\ UNCHANGED <<flags, enq, deq, deqOwner, events, slot, call, wPc, wSlot, stop, wGroup, history>>

\* ItemCompletedEvent of the first fragment, a synchronization event; then the
\* exception is taken out of the slot, which is still busy.
AwaitItem(c) ==
  /\ cPc[c] = "await" /\ slot[call[c].first].completed /\ CGoto(c, "free")
  /\ call' = [call EXCEPT ![c].threw = slot[call[c].first].exception]
  /\ slot' = [slot EXCEPT ![call[c].first].completed = FALSE, ![call[c].first].exception = FALSE]
  /\ UNCHANGED <<flags, enq, deq, enqOwner, deqOwner, events, wPc, wSlot, stop, wGroup, history>>

FreeFirst(c) ==
  /\ cPc[c] = "free" /\ SetState(call[c].first, "free") /\ CGoto(c, "signal")
  /\ UNCHANGED <<flags, enq, deq, enqOwner, deqOwner, events, call, wPc, wSlot, stop, wGroup, history>>

SignalFreed_Forgotten(c) ==
  /\ cPc[c] = "signal" /\ CGoto(c, "idle")
  /\ UNCHANGED <<flags, enq, deq, enqOwner, deqOwner, events, slot, call, wPc, wSlot, stop, wGroup, history>>
SignalFreed(c) ==
  /\ cPc[c] = "signal" /\ doneEvt' = TRUE /\ CGoto(c, "idle")
  /\ UNCHANGED <<flags, enq, deq, enqOwner, deqOwner, readyEvt, slot, call, wPc, wSlot, stop, wGroup, history>>

CallStep(c) ==
  \/ Lock(c) \/ First(c) \/ Completed(c) \/ Fill(c) \/ SignalReady(c)
  \/ Unlock(c) \/ AwaitItem(c) \/ FreeFirst(c) \/ SignalFreed(c)

(***************************************************************************)
(* EncryptionThreadProc.                                                    *)
(***************************************************************************)
Loop(w) ==
  /\ wPc[w] = "loop" /\ WGoto(w, IF stopPending THEN "exit" ELSE "lock")
  /\ UNCHANGED <<flags, enq, deq, enqOwner, deqOwner, events, slot, cPc, call, wSlot, stop, wGroup, history>>

Dequeue(w) ==
  /\ wPc[w] = "lock" /\ deqOwner = NoOne /\ deqOwner' = w /\ WGoto(w, "check")
  /\ wSlot' = [wSlot EXCEPT ![w] = deq] /\ deq' = After(deq)
  /\ UNCHANGED <<flags, enq, enqOwner, events, slot, cPc, call, stop, wGroup, history>>

Check(w) ==
  /\ wPc[w] = "check"
  /\ WGoto(w, IF stopPending \/ slot[wSlot[w]].state = "ready" THEN "take" ELSE "wait")
  /\ UNCHANGED <<flags, enq, deq, enqOwner, deqOwner, events, slot, cPc, call, wSlot, stop, wGroup, history>>

\* WorkItemReadyEvent, a synchronization event.
Ready(w) ==
  /\ wPc[w] = "wait" /\ readyEvt /\ readyEvt' = FALSE /\ WGoto(w, "check")
  /\ UNCHANGED <<flags, enq, deq, enqOwner, deqOwner, doneEvt, slot, cPc, call, wSlot, stop, wGroup, history>>

\* The state is set before DequeueMutex is released, also when stopping.
Take(w) ==
  /\ wPc[w] = "take" /\ SetState(wSlot[w], "busy") /\ deqOwner' = NoOne /\ WGoto(w, "run")
  /\ wGroup' = [wGroup EXCEPT ![w] = slot[wSlot[w]].first]
  /\ UNCHANGED <<flags, enq, deq, enqOwner, events, cPc, call, wSlot, stop, history>>

\* Encrypts the fragment, or derives the key.  The first fragment of a group
\* stays busy: DoWork frees it, and it takes the exception of any fragment.
AfterRun_AlwaysFree(w) == "freeSlot"
AfterRun(w) ==
  IF slot[wSlot[w]].kind = "units" /\ slot[wSlot[w]].first = wSlot[w] THEN "count" ELSE "freeSlot"
ExceptionSlot_Own(w) == wSlot[w]
ExceptionSlot(w) == slot[wSlot[w]].first

RunUnits(w) ==
  LET k == slot[wSlot[w]]
  IN /\ k.kind = "units"
     /\ times' = [times EXCEPT ![k.owner] = [u \in DOMAIN @ |-> IF u \in k.lo .. k.hi THEN @[u] + 1 ELSE @[u]]]
     /\ \/ UNCHANGED <<slot, broken>>
        \/ /\ portable /\ broken' = [broken EXCEPT ![k.owner] = TRUE]
           /\ slot' = [slot EXCEPT ![ExceptionSlot(w)].exception = TRUE]

Run(w) ==
  /\ wPc[w] = "run"
  /\ IF stopPending
     THEN WGoto(w, "exit") /\ UNCHANGED <<slot, times, broken>>
     ELSE /\ WGoto(w, AfterRun(w))
          /\ \/ RunUnits(w)
             \/ slot[wSlot[w]].kind = "key" /\ UNCHANGED <<slot, times, broken>>
  /\ UNCHANGED <<flags, enq, deq, enqOwner, deqOwner, events, cPc, call, wSlot, stop, wGroup, calls>>

FreeSlot(w) ==
  /\ wPc[w] = "freeSlot" /\ SetState(wSlot[w], "free")
  /\ WGoto(w, IF slot[wSlot[w]].kind = "key" THEN "signalKey" ELSE "signalSlot")
  /\ UNCHANGED <<flags, enq, deq, enqOwner, deqOwner, events, cPc, call, wSlot, stop, wGroup, history>>

SignalSlot(w) ==
  /\ \/ wPc[w] = "signalSlot" /\ WGoto(w, "count")
     \/ wPc[w] = "signalKey" /\ WGoto(w, "loop")
  /\ doneEvt' = TRUE
  /\ UNCHANGED <<flags, enq, deq, enqOwner, deqOwner, readyEvt, slot, cPc, call, wSlot, stop, wGroup, history>>

\* workItem->FirstFragment is read here, after the slot was set free.
Count(w) ==
  LET f == slot[wSlot[w]].first
  IN /\ wPc[w] = "count" /\ slot' = [slot EXCEPT ![f].count = @ - 1]
     /\ WGoto(w, IF slot[f].count = 1 THEN "signalItem" ELSE "loop")
     /\ UNCHANGED <<flags, enq, deq, enqOwner, deqOwner, events, cPc, call, wSlot, stop, wGroup, history>>

SignalItem(w) ==
  /\ wPc[w] = "signalItem" /\ WGoto(w, "loop")
  /\ slot' = [slot EXCEPT ![slot[wSlot[w]].first].completed = TRUE]
  /\ UNCHANGED <<flags, enq, deq, enqOwner, deqOwner, events, cPc, call, wSlot, stop, wGroup, history>>

WorkStep(w) ==
  \/ Loop(w) \/ Dequeue(w) \/ Check(w) \/ Ready(w) \/ Take(w) \/ Run(w)
  \/ FreeSlot(w) \/ SignalSlot(w) \/ Count(w) \/ SignalItem(w)

(***************************************************************************)
(* EncryptionThreadPoolStop, called when no call is under way (the driver   *)
(* is unloaded, the application ends).  In the driver TCStopThread sets     *)
(* WorkItemReadyEvent again for each thread; here, as in the application,   *)
(* it is set once.                                                          *)
(***************************************************************************)
StopBegin ==
  /\ MayStop /\ sPc = "idle" /\ running /\ \A c \in Callers : cPc[c] = "idle"
  /\ stopPending' = TRUE /\ sPc' = "wake"
  /\ UNCHANGED <<portable, running, threadCount, enq, deq, enqOwner, deqOwner, events, slot, cPc, call, wPc, wSlot, joined, wGroup, history>>

StopWake_Forgotten ==
  /\ sPc = "wake" /\ sPc' = "join"
  /\ UNCHANGED <<flags, enq, deq, enqOwner, deqOwner, events, slot, cPc, call, wPc, wSlot, joined, wGroup, history>>
StopWake ==
  /\ sPc = "wake" /\ readyEvt' = TRUE /\ sPc' = "join"
  /\ UNCHANGED <<flags, enq, deq, enqOwner, deqOwner, doneEvt, slot, cPc, call, wPc, wSlot, joined, wGroup, history>>

StopJoin ==
  /\ sPc = "join"
  /\ IF joined = Workers
     THEN sPc' = "reset" /\ UNCHANGED joined
     ELSE /\ \E w \in Workers \ joined : wPc[w] = "exit" /\ joined' = joined \cup {w}
          /\ UNCHANGED sPc
  /\ UNCHANGED <<flags, enq, deq, enqOwner, deqOwner, events, slot, cPc, call, wPc, wSlot, wGroup, history>>

StopReset ==
  /\ sPc = "reset" /\ threadCount' = 0 /\ running' = FALSE /\ sPc' = "stopped"
  /\ UNCHANGED <<portable, stopPending, enq, deq, enqOwner, deqOwner, events, slot, cPc, call, wPc, wSlot, joined, wGroup, history>>

StopStep == StopWake \/ StopJoin \/ StopReset

Next ==
  \/ \E c \in Callers : (\E n \in UnitCounts : CallDoWork(c, n)) \/ CallBegin(c) \/ CallStep(c)
  \/ \E w \in Workers : WorkStep(w)
  \/ StopBegin \/ StopStep

Spec == Init /\ [][Next]_vars

(***************************************************************************)
(* Fairness: a thread that can go on does.  Nobody has to call or to stop.  *)
(***************************************************************************)
Fairness ==
  /\ \A c \in Callers : WF_vars(CallStep(c))
  /\ \A w \in Workers : WF_vars(WorkStep(w))
  /\ WF_vars(StopStep)

FairSpec == Spec /\ Fairness

-----------------------------------------------------------------------------
(***************************************************************************)
(* Properties                                                               *)
(***************************************************************************)
CallStates == {"idle", "lock", "first", "firstWait", "next", "slotWait", "ready", "unlock",
               "await", "free", "signal"}
WorkStates == {"loop", "lock", "check", "wait", "take", "run", "freeSlot", "signalSlot",
               "signalKey", "count", "signalItem", "exit"}

\* Every variable keeps its type; a fragment count is never negative.
TypeOK ==
  /\ {portable, running, stopPending, readyEvt, doneEvt} \subseteq BOOLEAN
  /\ threadCount \in {0, Cardinality(Workers)}
  /\ enq \in Slots /\ deq \in Slots
  /\ enqOwner \in Callers \cup {NoOne} /\ deqOwner \in Workers \cup {NoOne}
  /\ slot \in [Slots -> [state : {"free", "ready", "busy"}, kind : {"units", "key"},
                         owner : Callers \cup {NoOne}, first : Slots, lo : Nat, hi : Nat,
                         count : Nat, exception : BOOLEAN, completed : BOOLEAN]]
  /\ cPc \in [Callers -> CallStates]
  /\ call \in [Callers -> [size : Nat, first : Slots, left : Nat, next : Nat, per : Nat, rem : Nat, threw : BOOLEAN]]
  /\ wPc \in [Workers -> WorkStates] /\ wSlot \in [Workers -> Slots]
  /\ sPc \in {"idle", "wake", "join", "reset", "stopped"} /\ joined \subseteq Workers
  /\ wGroup \in [Workers -> Slots]
  /\ calls \in [Callers -> 0 .. MaxCalls] /\ broken \in [Callers -> BOOLEAN]

\* A worker counts its fragment off from the group it took the fragment from,
\* and that group is still waited for, although the worker sets the slot of
\* the fragment free before it reads FirstFragment from it.
OwnGroupCounted ==
  \A w \in Workers : wPc[w] \in {"signalSlot", "count", "signalItem"} =>
    /\ slot[wSlot[w]].first = wGroup[w]
    /\ slot[wGroup[w]].state # "free"
    /\ \E c \in Callers : /\ call[c].first = wGroup[w] /\ ~IsKeyCall(c)
                          /\ cPc[c] \in {"next", "slotWait", "ready", "unlock", "await"}

\* EncryptionThreadPoolDoWork returns after each of its units was encrypted or
\* decrypted once; none is ever processed twice and no fragment runs past the
\* end of the data.
EachUnitOnce ==
  /\ \A c \in Callers : \A u \in DOMAIN times[c] :
       /\ times[c][u] <= 1
       /\ cPc[c] \in {"free", "signal", "idle"} => times[c][u] = 1
  /\ \A s \in Slots : slot[s].state = "ready" /\ slot[s].kind = "units" =>
       slot[s].hi <= call[slot[s].owner].size

\* DoWork throws exactly when one of its own fragments threw, in whichever
\* thread, and never what a group that used the slot before has thrown.
ExceptionReported ==
  \A c \in Callers : cPc[c] \in {"free", "signal", "idle"} => call[c].threw = broken[c]

\* Every call returns: no wake-up is lost between filling and emptying the
\* ring, and no one waits for a slot that is not going to be free.
CallsReturn == \A c \in Callers : []<>(cPc[c] = "idle")

\* EncryptionThreadPoolStop wakes every thread, although the event it sets
\* releases one waiter only.
StopReturns == []<>(sPc \in {"idle", "stopped"})
=============================================================================
