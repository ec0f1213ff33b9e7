------------------------ MODULE HeaderKeyDerivation ------------------------
(***************************************************************************)
(* ReadVolumeHeader (Common/Volumes.c) trying every key derivation function *)
(* (PRF) on a header: the reader hands PRFs to the threads of the pool      *)
(* through EncryptionThreadPoolBeginKeyDerivation, tests each derived key   *)
(* as it comes, and frees the work items, the counter and the events once   *)
(* NoOutstandingWorkItemEvent says that no thread uses them.                *)
(*                                                                          *)
(* The ring of the pool is a queue here (EncryptionThreadPool has it in     *)
(* detail).  A derived key is the PRF it was derived with; what the header  *)
(* makes of each PRF's key is fixed at the start.                           *)
(***************************************************************************)
EXTENDS Integers, Sequences, FiniteSets

CONSTANTS
  Workers,      \* threads of the pool that serve this reader
  ThreadCount,  \* GetEncryptionThreadCount
  PrfCount      \* LAST_PRF_ID - FIRST_PRF_ID + 1

ASSUME ReaderAssumption ==
  /\ IsFiniteSet(Workers) /\ ThreadCount \in Nat /\ PrfCount \in Nat \ {0}

Prfs == 1 .. PrfCount
Verdicts == {"wrong", "right", "refused"}
VARIABLES
  selected, boot,\* selected_pkcs5_prf, or 0; bBoot: the last PRF, Argon2, is left out
  verdict,       \* what the header makes of the key of each PRF
  rPc, next,     \* the reader; enqPkcs5Prf
  queued,        \* queuedWorkItems
  item,          \* keyDerivationWorkItems
  dk, prf,       \* the PRF whose key is tested; pkcs5_prf
  status,        \* result of ReadVolumeHeader
  abort,         \* abortKeyDerivation
  outstanding,   \* *outstandingWorkItemCount
  completedEvt,  \* KeyDerivationCompletedEvent
  noneEvt,       \* NoOutstandingWorkItemEvent
  queue,         \* items in the ring, ready
  wPc, wItem,    \* the workers; the item each has
  freed,         \* the reader has freed items, counter and events
  tested         \* history: the PRFs whose keys were tested

input == <<selected, boot, verdict>>
reader == <<rPc, next, queued, dk, prf, status, abort, freed, tested>>
vars == <<input, reader, item, outstanding, completedEvt, noneEvt, queue, wPc, wItem>>

\* The first of a set of items, in the order the code looks at them.
FirstOf(S) == {n \in S : \A m \in S : n <= m}
FreeItem == [free |-> TRUE, ready |-> FALSE, prf |-> 0, key |-> 0]

UsesPool == selected = 0 /\ ThreadCount > 1
Skipped(p) == (selected # 0 /\ p # selected) \/ (boot /\ p = PrfCount)

Init ==
  /\ selected \in 0 .. PrfCount /\ boot \in BOOLEAN
  /\ verdict \in [Prfs -> Verdicts]
  /\ rPc = "loop" /\ next = 1 /\ queued = 0
  /\ item = [n \in Prfs |-> FreeItem]
  /\ dk = 0 /\ prf = 0 /\ status = "none" /\ abort = FALSE
  /\ outstanding = 0 /\ completedEvt = FALSE /\ noneEvt = TRUE
  /\ queue = <<>>
  /\ wPc = [w \in Workers |-> "idle"] /\ wItem = [w \in Workers |-> 1]
  /\ freed = FALSE /\ tested = <<>>

RGoto(l) == rPc' = l
WGoto(w, l) == wPc' = [wPc EXCEPT ![w] = l]

(***************************************************************************)
(* Definitions named X_Y are X with a fault Y that a property below must    *)
(* catch; no action uses them.                                              *)
(***************************************************************************)

(***************************************************************************)
(* The reader.  The loop ends after the last PRF when no item is queued.    *)
(***************************************************************************)
LoopDone == next > PrfCount /\ queued = 0

LoopEnd ==
  /\ rPc = "loop" /\ LoopDone
  /\ status' = "wrong" /\ abort' = TRUE /\ RGoto("cleanup")
  /\ UNCHANGED <<input, next, queued, item, dk, prf, outstanding, completedEvt, noneEvt, queue, wPc, wItem, freed, tested>>

LoopSkip ==
  /\ rPc = "loop" /\ ~LoopDone /\ Skipped(next) /\ next' = next + 1
  /\ UNCHANGED <<input, rPc, queued, item, dk, prf, status, abort, outstanding, completedEvt, noneEvt, queue, wPc, wItem, freed, tested>>

\* Without the pool the reader derives the key itself.
LoopDerive ==
  /\ rPc = "loop" /\ ~LoopDone /\ ~Skipped(next) /\ ~UsesPool
  /\ dk' = next /\ prf' = next /\ RGoto("test")
  /\ UNCHANGED <<input, next, queued, item, status, abort, outstanding, completedEvt, noneEvt, queue, wPc, wItem, freed, tested>>

\* Takes the first free item; there is one, since an item is only in use while
\* it is queued or its key is being tested.
HasRoom_OffByOne == queued <= ThreadCount /\ next <= PrfCount
HasRoom == queued < ThreadCount /\ next <= PrfCount
FreeItems == {n \in Prfs : item[n].free}
LoopEnqueue ==
  /\ rPc = "loop" /\ ~LoopDone /\ ~Skipped(next) /\ UsesPool /\ HasRoom
  /\ IF FreeItems = {}
     THEN UNCHANGED item /\ RGoto("queued")
     ELSE \E n \in FirstOf(FreeItems) :
            /\ item' = [item EXCEPT ![n] = [free |-> FALSE, ready |-> FALSE, prf |-> next, key |-> @.key]]
            /\ RGoto("count")
  /\ UNCHANGED <<input, next, queued, dk, prf, status, abort, outstanding, completedEvt, noneEvt, queue, wPc, wItem, freed, tested>>

\* The queue is full, or every PRF is in it: wait, and come to this PRF again.
NextWhenFull_Lost == next
NextWhenFull == next - 1
LoopFull ==
  /\ rPc = "loop" /\ ~LoopDone /\ ~Skipped(next) /\ UsesPool /\ ~HasRoom
  /\ next' = NextWhenFull /\ RGoto("scan")
  /\ UNCHANGED <<input, queued, item, dk, prf, status, abort, outstanding, completedEvt, noneEvt, queue, wPc, wItem, freed, tested>>

\* EncryptionThreadPoolBeginKeyDerivation.
Enqueued == CHOOSE n \in Prfs : ~item[n].free /\ item[n].prf = next
BeginCount ==
  /\ rPc = "count" /\ outstanding' = outstanding + 1 /\ RGoto("clear")
  /\ UNCHANGED <<input, next, queued, item, dk, prf, status, abort, completedEvt, noneEvt, queue, wPc, wItem, freed, tested>>
BeginClear ==
  /\ rPc = "clear" /\ noneEvt' = FALSE /\ RGoto("enqueue")
  /\ UNCHANGED <<input, next, queued, item, dk, prf, status, abort, outstanding, completedEvt, queue, wPc, wItem, freed, tested>>
BeginEnqueue ==
  /\ rPc = "enqueue" /\ queue' = Append(queue, Enqueued)
  /\ queued' = queued + 1 /\ RGoto("queued")
  /\ UNCHANGED <<input, next, item, dk, prf, status, abort, outstanding, completedEvt, noneEvt, wPc, wItem, freed, tested>>

\* Before the last PRF the reader goes on to enqueue, after it, it waits.
LoopQueued ==
  /\ rPc = "queued"
  /\ IF next < PrfCount THEN next' = next + 1 /\ RGoto("loop") ELSE RGoto("scan") /\ UNCHANGED next
  /\ UNCHANGED <<input, queued, item, dk, prf, status, abort, outstanding, completedEvt, noneEvt, queue, wPc, wItem, freed, tested>>

\* The first item whose key is ready; else wait for the event, unless nothing
\* is queued.
PrfOf_Enqueued(n) == next
PrfOf(n) == item[n].prf
KeyIsReady_Assumed(n) == ~item[n].free
KeyIsReady(n) == ~item[n].free /\ item[n].ready
ReadyItems == {n \in Prfs : KeyIsReady(n)}
Scan ==
  /\ rPc = "scan"
  /\ IF queued = 0
     THEN next' = next + 1 /\ RGoto("loop") /\ UNCHANGED <<item, dk, prf, queued>>
     ELSE IF ReadyItems = {}
     THEN RGoto("wait") /\ UNCHANGED <<next, item, dk, prf, queued>>
     ELSE \E n \in FirstOf(ReadyItems) :
            /\ dk' = item[n].key /\ prf' = PrfOf(n) /\ item' = [item EXCEPT ![n].free = TRUE]
            /\ queued' = queued - 1 /\ RGoto("test") /\ UNCHANGED next
  /\ UNCHANGED <<input, status, abort, outstanding, completedEvt, noneEvt, queue, wPc, wItem, freed, tested>>

WaitKey ==
  /\ rPc = "wait" /\ completedEvt /\ completedEvt' = FALSE /\ RGoto("scan")
  /\ UNCHANGED <<input, next, queued, item, dk, prf, status, abort, outstanding, noneEvt, queue, wPc, wItem, freed, tested>>

\* The key is tried on the header: it opens it, opens it but the header is
\* refused (a newer program is required, a wrong sector size), or is wrong.
Verdict(p) == IF p \in Prfs THEN verdict[p] ELSE "wrong"
Test ==
  /\ rPc = "test" /\ tested' = Append(tested, dk)
  /\ IF Verdict(dk) = "wrong"
     THEN next' = next + 1 /\ RGoto("loop") /\ UNCHANGED <<status, abort>>
     ELSE /\ status' = Verdict(dk) /\ abort' = (UsesPool \/ status' = "refused")
          /\ RGoto("cleanup") /\ UNCHANGED next
  /\ UNCHANGED <<input, queued, item, dk, prf, outstanding, completedEvt, noneEvt, queue, wPc, wItem, freed>>

Cleanup ==
  /\ rPc = "cleanup" /\ (UsesPool => noneEvt)
  /\ noneEvt' = (noneEvt /\ ~UsesPool) /\ freed' = TRUE /\ RGoto("done")
  /\ UNCHANGED <<input, next, queued, item, dk, prf, status, abort, outstanding, completedEvt, queue, wPc, wItem, tested>>

Reader == \/ LoopEnd \/ LoopSkip \/ LoopDerive \/ LoopEnqueue \/ LoopFull
          \/ BeginCount \/ BeginClear \/ BeginEnqueue \/ LoopQueued
          \/ Scan \/ WaitKey \/ Test \/ Cleanup

(***************************************************************************)
(* A thread of the pool: EncryptionThreadProc, DeriveKeyWork.               *)
(***************************************************************************)
Take(w) ==
  /\ wPc[w] = "idle" /\ queue # <<>>
  /\ wItem' = [wItem EXCEPT ![w] = Head(queue)] /\ queue' = Tail(queue) /\ WGoto(w, "derive")
  /\ UNCHANGED <<input, reader, item, outstanding, completedEvt, noneEvt>>

\* A derivation that was told to abort leaves no key.
Derive(w) ==
  /\ wPc[w] = "derive" /\ WGoto(w, "flag")
  /\ item' \in {[item EXCEPT ![wItem[w]].key = k] :
                 k \in {item[wItem[w]].prf} \cup (IF abort THEN {0} ELSE {})}
  /\ UNCHANGED <<input, reader, outstanding, completedEvt, noneEvt, queue, wItem>>

SetFlag(w) ==
  /\ wPc[w] = "flag" /\ WGoto(w, "signal") /\ item' = [item EXCEPT ![wItem[w]].ready = TRUE]
  /\ UNCHANGED <<input, reader, outstanding, completedEvt, noneEvt, queue, wItem>>

SignalCompleted_Lost(w) ==
  /\ wPc[w] = "signal" /\ WGoto(w, "discount") /\ completedEvt' = (outstanding = 1)
  /\ UNCHANGED <<input, reader, item, outstanding, noneEvt, queue, wItem>>
SignalCompleted(w) ==
  /\ wPc[w] = "signal" /\ WGoto(w, "discount") /\ completedEvt' = TRUE
  /\ UNCHANGED <<input, reader, item, outstanding, noneEvt, queue, wItem>>

\* The counter and the event are two steps.
Discount(w) ==
  /\ wPc[w] = "discount" /\ outstanding' = outstanding - 1
  /\ WGoto(w, IF outstanding = 1 THEN "none" ELSE "idle")
  /\ UNCHANGED <<input, reader, item, completedEvt, noneEvt, queue, wItem>>

SignalNone(w) ==
  /\ wPc[w] = "none" /\ WGoto(w, "idle") /\ noneEvt' = TRUE
  /\ UNCHANGED <<input, reader, item, outstanding, completedEvt, queue, wItem>>

Worker(w) == \/ Take(w) \/ Derive(w) \/ SetFlag(w) \/ SignalCompleted(w)
             \/ Discount(w) \/ SignalNone(w)

Next == Reader \/ \E w \in Workers : Worker(w)

Spec == Init /\ [][Next]_vars

\* Fairness: the reader and the threads of the pool go on; a derivation ends.
FairSpec == Spec /\ WF_vars(Reader) /\ \A w \in Workers : WF_vars(Worker(w))

-----------------------------------------------------------------------------
(***************************************************************************)
(* Properties                                                               *)
(***************************************************************************)
ReaderStates == {"loop", "count", "clear", "enqueue", "queued", "scan", "wait", "test", "cleanup", "done"}
WorkerStates == {"idle", "derive", "flag", "signal", "discount", "none"}

\* Every variable keeps its type; the reader never has more items queued than
\* there are threads or PRFs.
TypeOK ==
  /\ selected \in 0 .. PrfCount /\ boot \in BOOLEAN /\ verdict \in [Prfs -> Verdicts]
  /\ rPc \in ReaderStates /\ next \in 1 .. PrfCount + 1
  /\ queued \in 0 .. PrfCount /\ (UsesPool => queued <= ThreadCount)
  /\ item \in [Prfs -> [free : BOOLEAN, ready : BOOLEAN, prf : 0 .. PrfCount, key : 0 .. PrfCount]]
  /\ {dk, prf} \subseteq 0 .. PrfCount /\ status \in Verdicts \cup {"none"}
  /\ {abort, completedEvt, noneEvt, freed} \subseteq BOOLEAN
  /\ outstanding \in 0 .. PrfCount + Cardinality(Workers)
  /\ queue \in Seq(Prfs)
  /\ wPc \in [Workers -> WorkerStates] /\ wItem \in [Workers -> Prfs]
  /\ tested \in Seq(0 .. PrfCount)

Tested == {tested[k] : k \in DOMAIN tested}

\* No PRF is tested twice, only complete keys are tested, and a password is
\* called wrong only when the key of every admitted PRF has failed.
EveryPrfTriedOnce ==
  /\ \A j, k \in DOMAIN tested : j # k => tested[j] # tested[k]
  /\ Tested \subseteq {p \in Prfs : ~Skipped(p)}
  /\ status = "wrong" => Tested = {p \in Prfs : ~Skipped(p)}

\* The PRF that ReadVolumeHeader reports is the one whose key gave the result,
\* whatever was enqueued meanwhile, and no key tested before gave one.
ResultNamesPrf ==
  status \in {"right", "refused"} =>
    /\ dk = prf /\ verdict[prf] = status
    /\ \A k \in 1 .. Len(tested) - 1 : Verdict(tested[k]) = "wrong"

\* An item the reader may take for another PRF is not being filled by a worker.
FreeItemsUntouched ==
  ~abort => \A w \in Workers : wPc[w] \in {"derive", "flag"} => ~item[wItem[w]].free

\* "Wait for all outstanding threads to finish or cancel": when the reader
\* frees its items, counter and events, no thread of the pool has them.
FreedAfterWorkers ==
  freed => queue = <<>> /\ \A w \in Workers : wPc[w] = "idle"

\* The call returns: no completed key and no end of work goes unnoticed.
ReaderReturns == <>(rPc = "done")
=============================================================================
