--------------------- MODULE EncryptionThreadPool_proofs ---------------------
(***************************************************************************)
(* Proofs about EncryptionThreadPool: the count of a group of fragments is  *)
(* exact although a worker sets its slot free before it counts itself off,  *)
(* each unit is processed once, and an exception reaches the call it is of, *)
(* for any number of threads, callers, slots and units.                     *)
(*                                                                          *)
(* The argument.  The slot of a group's first fragment belongs to its       *)
(* caller from the moment it is filled until the caller sets it free, so a  *)
(* group can be named by that slot.  A fragment is waiting in the ring      *)
(* ("ready"), in the hands of a worker that has not counted it off, or      *)
(* done; OutstandingFragmentCount is what is left to put in the ring plus   *)
(* those two.  A worker that has set its slot free can still read           *)
(* FirstFragment from it: its group is under way, the slots from the first  *)
(* to EnqueuePosition were filled for it, and nobody else may fill the ring *)
(* before its caller releases EnqueueMutex; afterwards the slot may be      *)
(* filled again only once EnqueuePosition has come round, and it stops at   *)
(* the first slot, which is not free.                                       *)
(***************************************************************************)
EXTENDS EncryptionThreadPool, FiniteSetTheorems, TLAPS

-----------------------------------------------------------------------------
(***************************************************************************)
(* The invariant                                                            *)
(***************************************************************************)

\* A caller whose group of fragments is being filled or waited for.
Active(c) == ~IsKeyCall(c) /\ cPc[c] \in {"next", "slotWait", "ready", "unlock", "await"}
\* A caller that has not set the count of its group.
Early(c) == ~IsKeyCall(c) /\ cPc[c] \in {"lock", "first", "firstWait"}

\* A worker that has a work item, and will not drop it because of a stop.
Working(w) ==
  \/ wPc[w] \in {"freeSlot", "signalSlot", "count", "signalItem"}
  \/ wPc[w] = "run" /\ ~stopPending

\* Fragments of c that nobody has taken, workers that have yet to count one
\* off, and fragments that were not processed.
Waiting(c) == {s \in Slots : slot[s].state = "ready" /\ slot[s].kind = "units" /\ slot[s].owner = c}
Hands(c) ==
  {w \in Workers : /\ Working(w) /\ wPc[w] # "signalItem"
                   /\ slot[wSlot[w]].kind = "units" /\ slot[wSlot[w]].owner = c}
InRun(s) == \E w \in Workers : wPc[w] = "run" /\ ~stopPending /\ wSlot[w] = s
Unprocessed(s, c) ==
  /\ slot[s].kind = "units" /\ slot[s].owner = c
  /\ slot[s].state = "ready" \/ InRun(s)

\* The ring from the slot f up to EnqueuePosition, all of it if they are equal.
Since(f, s) == IF f < enq THEN f <= s /\ s < enq ELSE f <= s \/ s < enq

\* Who stops, who has the mutexes.
Phases ==
  /\ (running <=> sPc # "stopped") /\ (stopPending <=> sPc # "idle")
  /\ running => threadCount = Cardinality(Workers)
  /\ stopPending => \A c \in Callers : cPc[c] = "idle"
Mutexes ==
  /\ \A c \in Callers :
       cPc[c] \in {"first", "firstWait", "next", "slotWait", "ready", "unlock"} <=> enqOwner = c
  /\ \A w \in Workers : wPc[w] \in {"check", "wait", "take"} <=> deqOwner = w
  /\ \A w \in Workers : wPc[w] = "take" => stopPending \/ slot[wSlot[w]].state = "ready"

\* The units that a call has not put in the ring are divided among the
\* fragments that are left.
Divided(k) ==
  /\ k.next >= 1 /\ (k.left > 0 => k.per >= 1)
  /\ k.rem = 0 => k.next + k.left * k.per = k.size + 1
  /\ k.rem > 0 => k.rem < k.left /\ k.per >= 2 /\ k.next + k.left * (k.per - 1) + k.rem = k.size + 1
DivisionOf(c) ==
  /\ IsKeyCall(c) => /\ cPc[c] \in {"idle", "lock", "next", "slotWait", "ready", "unlock"}
                     /\ call[c].left = 0 /\ call[c].next = 1 /\ call[c].per = 0
  /\ Early(c) \/ Active(c) => Divided(call[c])
  /\ Early(c) => call[c].next = 1 /\ call[c].left > 0
  /\ Active(c) /\ cPc[c] \in {"next", "slotWait"} => call[c].left > 0
  /\ Active(c) /\ cPc[c] = "ready" => call[c].next > 1
  /\ Active(c) /\ cPc[c] \in {"unlock", "await"} => call[c].left = 0 /\ call[c].next > 1
Division == \A c \in Callers : DivisionOf(c)

\* The slot of a group's first fragment is the caller's until it sets it free.
OwnsFirst(c) ==
  LET k == slot[call[c].first]
  IN k.state # "free" /\ k.kind = "units" /\ k.owner = c /\ k.first = call[c].first
Opened(c) == Active(c) /\ call[c].next > 1
GroupOf(c) ==
  /\ cPc[c] \in {"first", "firstWait"} => call[c].first = enq
  /\ Active(c) /\ call[c].next = 1 => call[c].first = enq /\ IsFree(enq)
  /\ Opened(c) \/ cPc[c] = "free" => OwnsFirst(c)
Groups == \A c \in Callers : GroupOf(c)

\* A fragment that is ready or worked on belongs to a group under way, and
\* lies between its first fragment and EnqueuePosition.
OfGroup(s) ==
  slot[s].kind = "units" =>
    /\ slot[s].owner \in Callers /\ Opened(slot[s].owner)
    /\ slot[s].first = call[slot[s].owner].first /\ Since(slot[s].first, s)
Members ==
  /\ \A s \in Slots : slot[s].state = "ready" => OfGroup(s)
  /\ \A w \in Workers : Working(w) => OfGroup(wSlot[w])
Held(w) ==
  LET k == slot[wSlot[w]]
  IN /\ k.state # "ready" /\ k.first = wGroup[w]
     /\ wPc[w] \in {"run", "freeSlot"} => k.state = "busy"
     /\ wPc[w] \in {"signalSlot", "count", "signalItem"} => k.kind = "units"
     /\ wPc[w] \in {"freeSlot", "signalSlot"} => k.kind = "key" \/ k.first # wSlot[w]
Holding ==
  /\ \A w \in Workers : Working(w) => Held(w)
  /\ \A w, x \in Workers : Working(w) /\ Working(x) /\ wSlot[w] = wSlot[x] => w = x

\* OutstandingFragmentCount is exact, and reaches zero once.
CountOf(c) ==
  slot[call[c].first].count = call[c].left + Cardinality(Waiting(c)) + Cardinality(Hands(c))
Counted == \A c \in Callers : Active(c) => CountOf(c)
EventOf(s) ==
  /\ slot[s].kind = "units" /\ slot[s].owner \in Callers /\ slot[s].count = 0
  /\ Opened(slot[s].owner) /\ call[slot[s].owner].first = s
Completion ==
  /\ \A s \in Slots : slot[s].completed => EventOf(s)
  /\ \A w \in Workers : wPc[w] = "signalItem" =>
       slot[wGroup[w]].count = 0 /\ ~slot[wGroup[w]].completed
  /\ \A w, x \in Workers :
       wPc[w] = "signalItem" /\ wPc[x] = "signalItem" /\ wGroup[w] = wGroup[x] => w = x

\* Each unit of a call is not yet in the ring, in one fragment that was not
\* processed, or processed once.
Pending(c, u) == \E s \in Slots : Unprocessed(s, c) /\ u \in slot[s].lo .. slot[s].hi
UnitsOf(c) ==
  /\ times[c] \in [1 .. call[c].size -> {0, 1}]
  /\ \A u \in 1 .. call[c].size :
       /\ u >= call[c].next => times[c][u] = 0
       /\ u < call[c].next /\ times[c][u] = 0 => Pending(c, u)
AllOnce(c) == \A u \in DOMAIN times[c] : times[c][u] = 1
Units ==
  /\ DOMAIN times = Callers
  /\ \A c \in Callers : Early(c) \/ Active(c) => UnitsOf(c)
  /\ \A c \in Callers : IsKeyCall(c) /\ cPc[c] # "idle" => DOMAIN times[c] = {}
  /\ \A c \in Callers : cPc[c] \in {"free", "signal", "idle"} => AllOnce(c)
FragmentOfCall(s, c) ==
  /\ slot[s].lo >= 1 /\ slot[s].hi < call[c].next
  /\ \A u \in slot[s].lo .. slot[s].hi : times[c][u] = 0
Apart(s, t) == slot[s].hi < slot[t].lo \/ slot[t].hi < slot[s].lo
Fragments ==
  \A c \in Callers : Active(c) =>
    /\ \A s \in Slots : Unprocessed(s, c) => FragmentOfCall(s, c)
    /\ \A s, t \in Slots : Unprocessed(s, c) /\ Unprocessed(t, c) /\ s # t => Apart(s, t)

\* The exception of a group is that of its call.
ExceptionOf(c) ==
  /\ Early(c) \/ (IsKeyCall(c) /\ cPc[c] # "idle") => broken[c] = FALSE /\ call[c].threw = FALSE
  /\ Active(c) => slot[call[c].first].exception = broken[c]
  /\ cPc[c] \in {"free", "signal", "idle"} => call[c].threw = broken[c]
Exceptions == \A c \in Callers : ExceptionOf(c)

PoolInv ==
  /\ TypeOK /\ Phases /\ Mutexes /\ Division /\ Groups /\ Members /\ Holding
  /\ Counted /\ Completion /\ Units /\ Fragments /\ Exceptions

-----------------------------------------------------------------------------
(***************************************************************************)
(* Facts about the constants and operators                                  *)
(***************************************************************************)
LEMMA Constants ==
  /\ IsFiniteSet(Workers) /\ Cardinality(Workers) \in Nat /\ Cardinality(Workers) > 1
  /\ QueueSize \in Nat /\ QueueSize > 1 /\ IsFiniteSet(Slots) /\ 0 \in Slots
<1>1. Cardinality(Workers) \in Nat  BY PoolAssumption, FS_CardinalityType
<1>2. QueueSize \in Nat /\ QueueSize > 1  BY <1>1, PoolAssumption
<1>3. IsFiniteSet(Slots)  BY <1>2, FS_Interval DEF Slots
<1> QED  BY <1>1, <1>2, <1>3, PoolAssumption DEF Slots

LEMMA AfterSlot == \A s \in Slots : After(s) \in Slots
BY Constants DEF After, Slots

\* The division of the units when a call begins.
LEMMA DivisionBegins ==
  ASSUME NEW n \in Nat, n > 1, threadCount \in Nat, threadCount > 1
  PROVE  /\ FragmentCount(n) \in Nat /\ FragmentCount(n) > 0
         /\ UnitsPerFragment(n) \in Nat /\ Remainder(n) \in Nat
         /\ Divided([size |-> n, first |-> 0, left |-> FragmentCount(n), next |-> 1,
                     per |-> UnitsPerFragment(n), rem |-> Remainder(n), threw |-> FALSE])
<1> DEFINE q == n \div threadCount
           r == n % threadCount
<1>1. q \in Nat /\ r \in 0 .. threadCount - 1 /\ n = threadCount * q + r  OBVIOUS
<1>2. n > threadCount => q >= 1
  <2> SUFFICES ASSUME n > threadCount, q = 0 PROVE FALSE  BY <1>1
  <2>1. threadCount * q = 0  OBVIOUS
  <2> QED  BY <1>1, <2>1
<1>3. CASE n <= threadCount  BY <1>3 DEF FragmentCount, UnitsPerFragment, Remainder, Divided
<1>4. CASE n > threadCount /\ r = 0
  BY <1>1, <1>2, <1>4 DEF FragmentCount, UnitsPerFragment, Remainder, Divided
<1>5. CASE n > threadCount /\ r > 0
  <2>1. UnitsPerFragment(n) = q + 1 /\ FragmentCount(n) = threadCount /\ Remainder(n) = r
    BY <1>1, <1>5 DEF FragmentCount, UnitsPerFragment, Remainder
  <2> QED  BY <1>1, <1>2, <1>5, <2>1 DEF Divided
<1> QED  BY <1>1, <1>3, <1>4, <1>5

CallRecord == [size : Nat, first : Slots, left : Nat, next : Nat, per : Nat, rem : Nat, threw : BOOLEAN]
\* It is kept by each fragment.
LEMMA DivisionKept ==
  ASSUME NEW k \in CallRecord, Divided(k), k.left > 0
  PROVE  /\ AfterFragment(k) \in CallRecord /\ Divided(AfterFragment(k))
         /\ AfterFragment(k).size = k.size /\ AfterFragment(k).left = k.left - 1
         /\ AfterFragment(k).next = k.next + k.per /\ AfterFragment(k).first = k.first
         /\ AfterFragment(k).threw = k.threw
         /\ k.per >= 1 /\ k.next + k.per - 1 <= k.size /\ (k.left = 1 => k.next + k.per = k.size + 1)
<1> DEFINE a == AfterFragment(k)
<1>0. k.left \in Nat /\ k.per \in Nat /\ k.rem \in Nat /\ k.next \in Nat /\ k.size \in Nat
      BY DEF CallRecord
<1>1. /\ a.size = k.size /\ a.left = k.left - 1 /\ a.next = k.next + k.per /\ a.first = k.first
      /\ a.threw = k.threw /\ a.rem = (IF k.rem > 0 THEN k.rem - 1 ELSE 0)
      /\ a.per = (IF k.rem = 1 THEN k.per - 1 ELSE k.per)
  BY DEF AfterFragment, CallRecord
<1>2. k.per >= 1 /\ (k.rem > 0 => k.per >= 2)  BY DEF Divided
<1>3. a \in CallRecord
  <2> DEFINE r == IF k.rem > 0 THEN k.rem - 1 ELSE 0
             p == IF k.rem = 1 THEN k.per - 1 ELSE k.per
             l == k.left - 1
             x == k.next + k.per
  <2>1. a = [k EXCEPT !.left = l, !.next = x, !.rem = r, !.per = p]  BY DEF AfterFragment
  <2>2. l \in Nat /\ x \in Nat /\ r \in Nat /\ p \in Nat  BY <1>0, <1>2
  <2> HIDE DEF l, x, r, p, a
  <2> QED  BY <2>1, <2>2 DEF CallRecord
<1>4. \A x, y \in Nat : x > 0 => (x - 1) * y = x * y - y
  <2> SUFFICES ASSUME NEW x \in Nat, NEW y \in Nat, x > 0 PROVE (x - 1) * y = x * y - y  OBVIOUS
  <2> QED  BY SMT
<1>5. Divided(a) /\ k.next + k.per - 1 <= k.size /\ (k.left = 1 => k.next + k.per = k.size + 1)
  <2>1. CASE k.rem = 0
    <3>1. (k.left - 1) * k.per = k.left * k.per - k.per  BY <1>0, <1>4
    <3>2. k.left * k.per \in Nat /\ (k.left - 1) * k.per \in Nat
          /\ (k.left = 1 => k.left * k.per = k.per)  BY <1>0
    <3>3. k.next + k.left * k.per = k.size + 1  BY <2>1 DEF Divided
    <3>4. k.next >= 1  BY DEF Divided
    <3> QED  BY <1>0, <1>1, <1>2, <2>1, <3>1, <3>2, <3>3, <3>4 DEF Divided
  <2>2. CASE k.rem > 0
    <3> DEFINE p == k.per - 1
    <3>0. p \in Nat /\ p >= 1  BY <1>0, <1>2, <2>2
    <3>1. (k.left - 1) * p = k.left * p - p  BY <1>0, <3>0, <1>4
    <3>2. k.left * p \in Nat /\ (k.left - 1) * p \in Nat  BY <1>0, <3>0
    <3>3. k.next + k.left * p + k.rem = k.size + 1 /\ k.rem < k.left /\ k.next >= 1  BY <2>2 DEF Divided
    <3>4. k.next + k.per + (k.left - 1) * p + (k.rem - 1) = k.size + 1  
      <4> DEFINE x == k.left * p  y == (k.left - 1) * p
      <4>1. x \in Nat /\ y \in Nat /\ y = x - p /\ k.next + x + k.rem = k.size + 1 /\ p = k.per - 1
            BY <3>1, <3>2, <3>3
      <4> HIDE DEF x, y
      <4>2. k.next + k.per + y + (k.rem - 1) = k.size + 1  BY <1>0, <3>0, <4>1
      <4> QED  BY <4>2 DEF y
    <3>5. CASE k.rem = 1
      <4>1. a.rem = 0 /\ a.per = p /\ a.left = k.left - 1 /\ a.next = k.next + k.per  BY <1>1, <3>5
      <4>2. a.next + a.left * a.per = a.size + 1  BY <1>0, <1>1, <3>0, <3>2, <3>4, <3>5, <4>1
      <4> QED  BY <1>0, <1>1, <3>0, <3>2, <3>3, <3>4, <4>1, <4>2, <3>5 DEF Divided
    <3>6. CASE k.rem > 1
      <4>1. a.rem = k.rem - 1 /\ a.per = k.per /\ a.left = k.left - 1 /\ a.next = k.next + k.per
            BY <1>0, <1>1, <3>6
      <4>2. a.next + a.left * (a.per - 1) + a.rem = a.size + 1  BY <1>0, <1>1, <3>0, <3>2, <3>4, <3>6,
            <4>1
      <4>3. a.rem < a.left /\ a.per >= 2 /\ a.next >= 1 /\ a.per >= 1 /\ a.rem > 0  BY <1>0, <1>2,
            <3>3, <3>6, <4>1
      <4>4. Divided(a)  BY <4>2, <4>3 DEF Divided
      <4> QED  BY <1>0, <3>0, <3>2, <3>3, <3>4, <4>4, <3>6
    <3> QED  BY <1>0, <2>2, <3>5, <3>6
  <2> QED  BY <1>0, <2>1, <2>2
<1> QED  BY <1>1, <1>2, <1>3, <1>5

\* What is left to put in the ring does not go past the end of the data.
LEMMA DividedEnds == ASSUME NEW k \in CallRecord, Divided(k) PROVE k.next <= k.size + 1
<1>1. k.next \in Nat /\ k.left \in Nat /\ k.per \in Nat /\ k.rem \in Nat /\ k.size \in Nat
      BY DEF CallRecord
<1>2. CASE k.rem = 0
  <2>1. k.left * k.per \in Nat /\ k.next + k.left * k.per = k.size + 1  BY <1>1, <1>2 DEF Divided
  <2> QED  BY <1>1, <2>1
<1>3. CASE k.rem > 0
  <2>1. k.per - 1 \in Nat  BY <1>1, <1>3 DEF Divided
  <2>2. k.left * (k.per - 1) \in Nat  BY <1>1, <2>1
  <2>3. k.next + k.left * (k.per - 1) + k.rem = k.size + 1  BY <1>3 DEF Divided
  <2> QED  BY <1>1, <2>2, <2>3
<1> QED  BY <1>1, <1>2, <1>3

SlotRecord == [state : {"free", "ready", "busy"}, kind : {"units", "key"},
               owner : Callers \cup {NoOne}, first : Slots, lo : Nat, hi : Nat,
               count : Nat, exception : BOOLEAN, completed : BOOLEAN]
\* The types, of each slot, call and worker.
Typing ==
  /\ enq \in Slots /\ deq \in Slots
  /\ slot \in [Slots -> SlotRecord] /\ call \in [Callers -> CallRecord]
  /\ \A s \in Slots : /\ slot[s] \in SlotRecord /\ slot[s].state \in {"free", "ready", "busy"}
                      /\ slot[s].kind \in {"units", "key"} /\ slot[s].first \in Slots
                      /\ slot[s].lo \in Nat /\ slot[s].hi \in Nat /\ slot[s].count \in Nat
  /\ \A c \in Callers : /\ call[c] \in CallRecord /\ call[c].size \in Nat /\ call[c].first \in Slots
                        /\ call[c].left \in Nat /\ call[c].next \in Nat /\ call[c].per \in Nat
                        /\ cPc[c] \in CallStates
  /\ \A w \in Workers : wSlot[w] \in Slots /\ wGroup[w] \in Slots /\ wPc[w] \in WorkStates
  /\ cPc \in [Callers -> CallStates] /\ wPc \in [Workers -> WorkStates]
  /\ wSlot \in [Workers -> Slots] /\ wGroup \in [Workers -> Slots]
  /\ broken \in [Callers -> BOOLEAN] /\ calls \in [Callers -> 0 .. MaxCalls]
LEMMA Typed == TypeOK => Typing
<1> SUFFICES ASSUME TypeOK PROVE Typing  OBVIOUS
<1>1. slot \in [Slots -> SlotRecord] /\ call \in [Callers -> CallRecord]  BY DEF TypeOK, SlotRecord,
      CallRecord
<1>2. \A s \in Slots : slot[s] \in SlotRecord  BY <1>1
<1>3. \A c \in Callers : call[c] \in CallRecord  BY <1>1
<1> QED  BY <1>1, <1>2, <1>3 DEF TypeOK, SlotRecord, CallRecord, Typing

\* TypeOK, when the slots and the calls keep theirs.
LEMMA TypesKept ==
  ASSUME slot' \in [Slots -> SlotRecord], call' \in [Callers -> CallRecord],
         portable' \in BOOLEAN, running' \in BOOLEAN, stopPending' \in BOOLEAN,
         readyEvt' \in BOOLEAN, doneEvt' \in BOOLEAN,
         threadCount' \in {0, Cardinality(Workers)}, enq' \in Slots, deq' \in Slots,
         enqOwner' \in Callers \cup {NoOne}, deqOwner' \in Workers \cup {NoOne},
         cPc' \in [Callers -> CallStates], wPc' \in [Workers -> WorkStates],
               wSlot' \in [Workers -> Slots],
         sPc' \in {"idle", "wake", "join", "reset", "stopped"}, joined' \subseteq Workers,
         wGroup' \in [Workers -> Slots], calls' \in [Callers -> 0 .. MaxCalls],
               broken' \in [Callers -> BOOLEAN]
  PROVE  TypeOK'
<1>1. {portable', running', stopPending', readyEvt', doneEvt'} \subseteq BOOLEAN
  <2> SUFFICES ASSUME NEW x \in {portable', running', stopPending', readyEvt',
        doneEvt'} PROVE x \in BOOLEAN  OBVIOUS
  <2>1. x = portable' \/ x = running' \/ x = stopPending' \/ x = readyEvt' \/ x = doneEvt'  OBVIOUS
  <2>2. CASE x = portable'  BY <2>2
  <2>3. CASE x = running'  BY <2>3
  <2>4. CASE x = stopPending'  BY <2>4
  <2>5. CASE x = readyEvt'  BY <2>5
  <2>6. CASE x = doneEvt'  BY <2>6
  <2> QED  BY <2>1, <2>2, <2>3, <2>4, <2>5, <2>6
<1> QED  BY <1>1, Zenon DEF TypeOK, SlotRecord, CallRecord
LEMMA Flags ==
  ASSUME TypeOK
  PROVE  /\ portable \in BOOLEAN /\ running \in BOOLEAN /\ stopPending \in BOOLEAN
         /\ readyEvt \in BOOLEAN /\ doneEvt \in BOOLEAN
         /\ threadCount \in {0, Cardinality(Workers)}
         /\ enqOwner \in Callers \cup {NoOne} /\ deqOwner \in Workers \cup {NoOne}
         /\ sPc \in {"idle", "wake", "join", "reset", "stopped"} /\ joined \subseteq Workers
BY Zenon DEF TypeOK

\* A slot gets another state.
LEMMA StateSet ==
  ASSUME slot \in [Slots -> SlotRecord], NEW s \in Slots, NEW st \in {"free", "ready", "busy"},
        SetState(s, st)
  PROVE  /\ slot' \in [Slots -> SlotRecord]
         /\ \A t \in Slots :
              /\ slot'[t].state = (IF t = s THEN st ELSE slot[t].state)
              /\ slot'[t].kind = slot[t].kind /\ slot'[t].owner = slot[t].owner
                    /\ slot'[t].first = slot[t].first
              /\ slot'[t].lo = slot[t].lo /\ slot'[t].hi = slot[t].hi /\ slot'[t].count = slot[t].count
              /\ slot'[t].exception = slot[t].exception /\ slot'[t].completed = slot[t].completed
<1>1. \A t \in Slots : slot'[t] = IF t = s THEN [slot[t] EXCEPT !.state = st] ELSE slot[t]
      BY DEF SetState
<1>2. \A k \in SlotRecord :
        LET r == [k EXCEPT !.state = st]
        IN /\ r \in SlotRecord /\ r.state = st /\ r.kind = k.kind /\ r.owner = k.owner
              /\ r.first = k.first
           /\ r.lo = k.lo /\ r.hi = k.hi /\ r.count = k.count
           /\ r.exception = k.exception /\ r.completed = k.completed
  BY DEF SlotRecord
<1>3. slot' \in [Slots -> SlotRecord]  BY <1>1, <1>2 DEF SetState
<1>4. ASSUME NEW t \in Slots
      PROVE  /\ slot'[t].state = (IF t = s THEN st ELSE slot[t].state)
             /\ slot'[t].kind = slot[t].kind /\ slot'[t].owner = slot[t].owner
                   /\ slot'[t].first = slot[t].first
             /\ slot'[t].lo = slot[t].lo /\ slot'[t].hi = slot[t].hi /\ slot'[t].count = slot[t].count
             /\ slot'[t].exception = slot[t].exception /\ slot'[t].completed = slot[t].completed
  <2>1. slot[t] \in SlotRecord  OBVIOUS
  <2>2. CASE t = s
    <3> DEFINE r == [slot[t] EXCEPT !.state = st]
    <3>1. slot'[t] = r  BY <1>1, <2>2
    <3>2. /\ r \in SlotRecord /\ r.state = st /\ r.kind = slot[t].kind /\ r.owner = slot[t].owner
          /\ r.first = slot[t].first /\ r.lo = slot[t].lo /\ r.hi = slot[t].hi
          /\ r.count = slot[t].count /\ r.exception = slot[t].exception
          /\ r.completed = slot[t].completed
      BY <1>2, <2>1
    <3> HIDE DEF r
    <3> QED  BY <2>2, <3>1, <3>2
  <2>3. CASE t # s  BY <1>1, <2>3
  <2> QED  BY <2>2, <2>3
<1> QED  BY <1>3, <1>4

\* A caller, or a worker, goes on.
LEMMA CallerGoes ==
  ASSUME cPc \in [Callers -> CallStates], NEW c \in Callers, NEW l \in CallStates, CGoto(c, l)
  PROVE  cPc' \in [Callers -> CallStates] /\ \A x \in Callers : cPc'[x] = IF x = c THEN l ELSE cPc[x]
BY DEF CGoto
LEMMA WorkerGoes ==
  ASSUME wPc \in [Workers -> WorkStates], NEW w \in Workers, NEW l \in WorkStates, WGoto(w, l)
  PROVE  wPc' \in [Workers -> WorkStates] /\ \A x \in Workers : wPc'[x] = IF x = w THEN l ELSE wPc[x]
BY DEF WGoto
LEMMA Finite == ASSUME NEW c PROVE IsFiniteSet(Waiting(c)) /\ IsFiniteSet(Hands(c))
<1>1. Waiting(c) \subseteq Slots  BY DEF Waiting
<1>2. Hands(c) \subseteq Workers  BY DEF Hands
<1> QED  BY <1>1, <1>2, Constants, FS_Subset

\* The first slot of a group gets its count.
CountOpenedAt(s, n) == slot' = [slot EXCEPT ![s].count = n, ![s].exception = FALSE]
LEMMA CountOpened ==
  ASSUME slot \in [Slots -> SlotRecord], NEW s \in Slots, NEW n \in Nat, CountOpenedAt(s, n)
  PROVE  /\ slot' \in [Slots -> SlotRecord]
         /\ \A t \in Slots :
              /\ slot'[t].state = slot[t].state
              /\ slot'[t].kind = slot[t].kind
              /\ slot'[t].owner = slot[t].owner
              /\ slot'[t].first = slot[t].first
              /\ slot'[t].lo = slot[t].lo
              /\ slot'[t].hi = slot[t].hi
              /\ slot'[t].count = (IF t = s THEN n ELSE slot[t].count)
              /\ (t = s => slot'[t].exception = FALSE)
                    /\ (t # s => slot'[t].exception = slot[t].exception)
              /\ slot'[t].completed = slot[t].completed
<1>1. \A t \in Slots : slot'[t] = IF t = s THEN [slot[t] EXCEPT !.count = n,
      !.exception = FALSE] ELSE slot[t]  BY DEF CountOpenedAt
<1>2. \A k \in SlotRecord :
        LET r == [k EXCEPT !.count = n, !.exception = FALSE]
        IN r \in SlotRecord /\ r.state = k.state /\ r.kind = k.kind /\ r.owner = k.owner
              /\ r.first = k.first /\ r.lo = k.lo /\ r.hi = k.hi /\ r.count = n
              /\ r.exception = FALSE /\ r.completed = k.completed
  BY DEF SlotRecord
<1>3. slot' \in [Slots -> SlotRecord]  BY <1>1, <1>2 DEF CountOpenedAt
<1>4. ASSUME NEW t \in Slots
      PROVE 
              /\ slot'[t].state = slot[t].state
              /\ slot'[t].kind = slot[t].kind
              /\ slot'[t].owner = slot[t].owner
              /\ slot'[t].first = slot[t].first
              /\ slot'[t].lo = slot[t].lo
              /\ slot'[t].hi = slot[t].hi
              /\ slot'[t].count = (IF t = s THEN n ELSE slot[t].count)
              /\ (t = s => slot'[t].exception = FALSE)
                    /\ (t # s => slot'[t].exception = slot[t].exception)
              /\ slot'[t].completed = slot[t].completed
  <2>1. slot[t] \in SlotRecord  OBVIOUS
  <2>2. CASE t = s
    <3> DEFINE r == [slot[t] EXCEPT !.count = n, !.exception = FALSE]
    <3>1. slot'[t] = r  BY <1>1, <2>2
    <3>2. r \in SlotRecord /\ r.state = slot[t].state /\ r.kind = slot[t].kind
          /\ r.owner = slot[t].owner /\ r.first = slot[t].first /\ r.lo = slot[t].lo
          /\ r.hi = slot[t].hi /\ r.count = n /\ r.exception = FALSE /\ r.completed = slot[t].completed
      BY <1>2, <2>1
    <3> HIDE DEF r
    <3> QED  BY <2>2, <3>1, <3>2
  <2>3. CASE t # s  BY <1>1, <2>3
  <2> QED  BY <2>2, <2>3
<1> QED  BY <1>3, <1>4

\* The event of a group is reset, its exception taken.
ExceptionTakenAt(s) == slot' = [slot EXCEPT ![s].completed = FALSE, ![s].exception = FALSE]
LEMMA ExceptionTaken ==
  ASSUME slot \in [Slots -> SlotRecord], NEW s \in Slots, ExceptionTakenAt(s)
  PROVE  /\ slot' \in [Slots -> SlotRecord]
         /\ \A t \in Slots :
              /\ slot'[t].state = slot[t].state
              /\ slot'[t].kind = slot[t].kind
              /\ slot'[t].owner = slot[t].owner
              /\ slot'[t].first = slot[t].first
              /\ slot'[t].lo = slot[t].lo
              /\ slot'[t].hi = slot[t].hi
              /\ slot'[t].count = slot[t].count
              /\ (t = s => slot'[t].exception = FALSE)
                    /\ (t # s => slot'[t].exception = slot[t].exception)
              /\ (t = s => slot'[t].completed = FALSE)
                    /\ (t # s => slot'[t].completed = slot[t].completed)
<1>1. \A t \in Slots : slot'[t] = IF t = s THEN [slot[t] EXCEPT !.completed = FALSE,
      !.exception = FALSE] ELSE slot[t]  BY DEF ExceptionTakenAt
<1>2. \A k \in SlotRecord :
        LET r == [k EXCEPT !.completed = FALSE, !.exception = FALSE]
        IN r \in SlotRecord /\ r.state = k.state /\ r.kind = k.kind /\ r.owner = k.owner
              /\ r.first = k.first /\ r.lo = k.lo /\ r.hi = k.hi /\ r.count = k.count
              /\ r.exception = FALSE /\ r.completed = FALSE
  BY DEF SlotRecord
<1>3. slot' \in [Slots -> SlotRecord]  BY <1>1, <1>2 DEF ExceptionTakenAt
<1>4. ASSUME NEW t \in Slots
      PROVE 
              /\ slot'[t].state = slot[t].state
              /\ slot'[t].kind = slot[t].kind
              /\ slot'[t].owner = slot[t].owner
              /\ slot'[t].first = slot[t].first
              /\ slot'[t].lo = slot[t].lo
              /\ slot'[t].hi = slot[t].hi
              /\ slot'[t].count = slot[t].count
              /\ (t = s => slot'[t].exception = FALSE)
                    /\ (t # s => slot'[t].exception = slot[t].exception)
              /\ (t = s => slot'[t].completed = FALSE)
                    /\ (t # s => slot'[t].completed = slot[t].completed)
  <2>1. slot[t] \in SlotRecord  OBVIOUS
  <2>2. CASE t = s
    <3> DEFINE r == [slot[t] EXCEPT !.completed = FALSE, !.exception = FALSE]
    <3>1. slot'[t] = r  BY <1>1, <2>2
    <3>2. r \in SlotRecord /\ r.state = slot[t].state /\ r.kind = slot[t].kind
          /\ r.owner = slot[t].owner /\ r.first = slot[t].first /\ r.lo = slot[t].lo
          /\ r.hi = slot[t].hi /\ r.count = slot[t].count /\ r.exception = FALSE /\ r.completed = FALSE
      BY <1>2, <2>1
    <3> HIDE DEF r
    <3> QED  BY <2>2, <3>1, <3>2
  <2>3. CASE t # s  BY <1>1, <2>3
  <2> QED  BY <2>2, <2>3
<1> QED  BY <1>3, <1>4

\* A count changes.
CountSetAt(s, n) == slot' = [slot EXCEPT ![s].count = n]
LEMMA CountSet ==
  ASSUME slot \in [Slots -> SlotRecord], NEW s \in Slots, NEW n \in Nat, CountSetAt(s, n)
  PROVE  /\ slot' \in [Slots -> SlotRecord]
         /\ \A t \in Slots :
              /\ slot'[t].state = slot[t].state
              /\ slot'[t].kind = slot[t].kind
              /\ slot'[t].owner = slot[t].owner
              /\ slot'[t].first = slot[t].first
              /\ slot'[t].lo = slot[t].lo
              /\ slot'[t].hi = slot[t].hi
              /\ slot'[t].count = (IF t = s THEN n ELSE slot[t].count)
              /\ slot'[t].exception = slot[t].exception
              /\ slot'[t].completed = slot[t].completed
<1>1. \A t \in Slots : slot'[t] = IF t = s THEN [slot[t] EXCEPT !.count = n] ELSE slot[t]
      BY DEF CountSetAt
<1>2. \A k \in SlotRecord :
        LET r == [k EXCEPT !.count = n]
        IN r \in SlotRecord /\ r.state = k.state /\ r.kind = k.kind /\ r.owner = k.owner
              /\ r.first = k.first /\ r.lo = k.lo /\ r.hi = k.hi /\ r.count = n
              /\ r.exception = k.exception /\ r.completed = k.completed
  BY DEF SlotRecord
<1>3. slot' \in [Slots -> SlotRecord]  BY <1>1, <1>2 DEF CountSetAt
<1>4. ASSUME NEW t \in Slots
      PROVE 
              /\ slot'[t].state = slot[t].state
              /\ slot'[t].kind = slot[t].kind
              /\ slot'[t].owner = slot[t].owner
              /\ slot'[t].first = slot[t].first
              /\ slot'[t].lo = slot[t].lo
              /\ slot'[t].hi = slot[t].hi
              /\ slot'[t].count = (IF t = s THEN n ELSE slot[t].count)
              /\ slot'[t].exception = slot[t].exception
              /\ slot'[t].completed = slot[t].completed
  <2>1. slot[t] \in SlotRecord  OBVIOUS
  <2>2. CASE t = s
    <3> DEFINE r == [slot[t] EXCEPT !.count = n]
    <3>1. slot'[t] = r  BY <1>1, <2>2
    <3>2. r \in SlotRecord /\ r.state = slot[t].state /\ r.kind = slot[t].kind
          /\ r.owner = slot[t].owner /\ r.first = slot[t].first /\ r.lo = slot[t].lo
          /\ r.hi = slot[t].hi /\ r.count = n /\ r.exception = slot[t].exception
          /\ r.completed = slot[t].completed
      BY <1>2, <2>1
    <3> HIDE DEF r
    <3> QED  BY <2>2, <3>1, <3>2
  <2>3. CASE t # s  BY <1>1, <2>3
  <2> QED  BY <2>2, <2>3
<1> QED  BY <1>3, <1>4

\* The event of a group is set.
CompletedSetAt(s) == slot' = [slot EXCEPT ![s].completed = TRUE]
LEMMA CompletedSet ==
  ASSUME slot \in [Slots -> SlotRecord], NEW s \in Slots, CompletedSetAt(s)
  PROVE  /\ slot' \in [Slots -> SlotRecord]
         /\ \A t \in Slots :
              /\ slot'[t].state = slot[t].state
              /\ slot'[t].kind = slot[t].kind
              /\ slot'[t].owner = slot[t].owner
              /\ slot'[t].first = slot[t].first
              /\ slot'[t].lo = slot[t].lo
              /\ slot'[t].hi = slot[t].hi
              /\ slot'[t].count = slot[t].count
              /\ slot'[t].exception = slot[t].exception
              /\ (t = s => slot'[t].completed = TRUE)
                    /\ (t # s => slot'[t].completed = slot[t].completed)
<1>1. \A t \in Slots : slot'[t] = IF t = s THEN [slot[t] EXCEPT !.completed = TRUE] ELSE slot[t]
      BY DEF CompletedSetAt
<1>2. \A k \in SlotRecord :
        LET r == [k EXCEPT !.completed = TRUE]
        IN r \in SlotRecord /\ r.state = k.state /\ r.kind = k.kind /\ r.owner = k.owner
              /\ r.first = k.first /\ r.lo = k.lo /\ r.hi = k.hi /\ r.count = k.count
              /\ r.exception = k.exception /\ r.completed = TRUE
  BY DEF SlotRecord
<1>3. slot' \in [Slots -> SlotRecord]  BY <1>1, <1>2 DEF CompletedSetAt
<1>4. ASSUME NEW t \in Slots
      PROVE 
              /\ slot'[t].state = slot[t].state
              /\ slot'[t].kind = slot[t].kind
              /\ slot'[t].owner = slot[t].owner
              /\ slot'[t].first = slot[t].first
              /\ slot'[t].lo = slot[t].lo
              /\ slot'[t].hi = slot[t].hi
              /\ slot'[t].count = slot[t].count
              /\ slot'[t].exception = slot[t].exception
              /\ (t = s => slot'[t].completed = TRUE)
                    /\ (t # s => slot'[t].completed = slot[t].completed)
  <2>1. slot[t] \in SlotRecord  OBVIOUS
  <2>2. CASE t = s
    <3> DEFINE r == [slot[t] EXCEPT !.completed = TRUE]
    <3>1. slot'[t] = r  BY <1>1, <2>2
    <3>2. r \in SlotRecord /\ r.state = slot[t].state /\ r.kind = slot[t].kind
          /\ r.owner = slot[t].owner /\ r.first = slot[t].first /\ r.lo = slot[t].lo
          /\ r.hi = slot[t].hi /\ r.count = slot[t].count /\ r.exception = slot[t].exception
          /\ r.completed = TRUE
      BY <1>2, <2>1
    <3> HIDE DEF r
    <3> QED  BY <2>2, <3>1, <3>2
  <2>3. CASE t # s  BY <1>1, <2>3
  <2> QED  BY <2>2, <2>3
<1> QED  BY <1>3, <1>4

\* The exception of a group is set.
ExceptionSetAt(s) == slot' = [slot EXCEPT ![s].exception = TRUE]
LEMMA ExceptionSet ==
  ASSUME slot \in [Slots -> SlotRecord], NEW s \in Slots, ExceptionSetAt(s)
  PROVE  /\ slot' \in [Slots -> SlotRecord]
         /\ \A t \in Slots :
              /\ slot'[t].state = slot[t].state
              /\ slot'[t].kind = slot[t].kind
              /\ slot'[t].owner = slot[t].owner
              /\ slot'[t].first = slot[t].first
              /\ slot'[t].lo = slot[t].lo
              /\ slot'[t].hi = slot[t].hi
              /\ slot'[t].count = slot[t].count
              /\ (t = s => slot'[t].exception = TRUE)
                    /\ (t # s => slot'[t].exception = slot[t].exception)
              /\ slot'[t].completed = slot[t].completed
<1>1. \A t \in Slots : slot'[t] = IF t = s THEN [slot[t] EXCEPT !.exception = TRUE] ELSE slot[t]
      BY DEF ExceptionSetAt
<1>2. \A k \in SlotRecord :
        LET r == [k EXCEPT !.exception = TRUE]
        IN r \in SlotRecord /\ r.state = k.state /\ r.kind = k.kind /\ r.owner = k.owner
              /\ r.first = k.first /\ r.lo = k.lo /\ r.hi = k.hi /\ r.count = k.count
              /\ r.exception = TRUE /\ r.completed = k.completed
  BY DEF SlotRecord
<1>3. slot' \in [Slots -> SlotRecord]  BY <1>1, <1>2 DEF ExceptionSetAt
<1>4. ASSUME NEW t \in Slots
      PROVE 
              /\ slot'[t].state = slot[t].state
              /\ slot'[t].kind = slot[t].kind
              /\ slot'[t].owner = slot[t].owner
              /\ slot'[t].first = slot[t].first
              /\ slot'[t].lo = slot[t].lo
              /\ slot'[t].hi = slot[t].hi
              /\ slot'[t].count = slot[t].count
              /\ (t = s => slot'[t].exception = TRUE)
                    /\ (t # s => slot'[t].exception = slot[t].exception)
              /\ slot'[t].completed = slot[t].completed
  <2>1. slot[t] \in SlotRecord  OBVIOUS
  <2>2. CASE t = s
    <3> DEFINE r == [slot[t] EXCEPT !.exception = TRUE]
    <3>1. slot'[t] = r  BY <1>1, <2>2
    <3>2. r \in SlotRecord /\ r.state = slot[t].state /\ r.kind = slot[t].kind
          /\ r.owner = slot[t].owner /\ r.first = slot[t].first /\ r.lo = slot[t].lo
          /\ r.hi = slot[t].hi /\ r.count = slot[t].count /\ r.exception = TRUE
          /\ r.completed = slot[t].completed
      BY <1>2, <2>1
    <3> HIDE DEF r
    <3> QED  BY <2>2, <3>1, <3>2
  <2>3. CASE t # s  BY <1>1, <2>3
  <2> QED  BY <2>2, <2>3
<1> QED  BY <1>3, <1>4

LEMMA AddOne ==
  ASSUME NEW S, IsFiniteSet(S), NEW x, x \notin S
  PROVE  Cardinality(S \cup {x}) = Cardinality(S) + 1 /\ Cardinality(S) \in Nat
BY FS_AddElement, FS_CardinalityType
LEMMA RemoveOne ==
  ASSUME NEW S, IsFiniteSet(S), NEW x, x \in S
  PROVE  Cardinality(S \ {x}) = Cardinality(S) - 1 /\ Cardinality(S) \in Nat /\ Cardinality(S) > 0
<1>1. Cardinality(S \ {x}) \in Nat /\ Cardinality(S) \in Nat  BY FS_RemoveElement, FS_CardinalityType
<1>2. Cardinality(S \ {x}) = Cardinality(S) - 1  BY FS_RemoveElement
<1> QED  BY <1>1, <1>2

\* The ring, when EnqueuePosition moves.
LEMMA SinceMoves ==
  ASSUME enq \in Slots, enq' = After(enq)
  PROVE  \A f, s \in Slots : Since(f, s)' <=> (IF f = enq THEN s = enq ELSE Since(f, s) \/ s = enq)
<1> SUFFICES ASSUME NEW f \in Slots, NEW s \in Slots
             PROVE  Since(f, s)' <=> (IF f = enq THEN s = enq ELSE Since(f, s) \/ s = enq)
  OBVIOUS
<1>1. QueueSize \in Nat /\ enq \in 0 .. QueueSize - 1 /\ f \in 0 .. QueueSize - 1
      /\ s \in 0 .. QueueSize - 1
  BY Constants DEF Slots
<1>2. CASE enq + 1 >= QueueSize  BY <1>1, <1>2 DEF After, Since
<1>3. CASE enq + 1 < QueueSize  BY <1>1, <1>3 DEF After, Since
<1> QED  BY <1>1, <1>2, <1>3

\* A fragment, or a key derivation, is put in a slot.
FragmentPutAt(s, k, c, f, l, h) ==
  slot' = [slot EXCEPT ![s] = [slot[s] EXCEPT !.state = "ready", !.kind = k, !.owner = c, !.first = f,
        !.lo = l, !.hi = h]]
LEMMA FragmentPut ==
  ASSUME slot \in [Slots -> SlotRecord], NEW s \in Slots, NEW k \in {"units", "key"}, NEW c \in Callers,
         NEW f \in Slots, NEW l \in Nat, NEW h \in Nat, FragmentPutAt(s, k, c, f, l, h)
  PROVE  /\ slot' \in [Slots -> SlotRecord]
         /\ \A t \in Slots :
              /\ slot'[t].state = (IF t = s THEN "ready" ELSE slot[t].state)
              /\ slot'[t].kind = (IF t = s THEN k ELSE slot[t].kind)
              /\ slot'[t].owner = (IF t = s THEN c ELSE slot[t].owner)
              /\ slot'[t].first = (IF t = s THEN f ELSE slot[t].first)
              /\ slot'[t].lo = (IF t = s THEN l ELSE slot[t].lo)
              /\ slot'[t].hi = (IF t = s THEN h ELSE slot[t].hi)
              /\ slot'[t].count = slot[t].count
              /\ slot'[t].exception = slot[t].exception /\ slot'[t].completed = slot[t].completed
<1> DEFINE r == [slot[s] EXCEPT !.state = "ready", !.kind = k, !.owner = c, !.first = f, !.lo = l,
      !.hi = h]
<1>1. slot[s] \in SlotRecord  OBVIOUS
<1>2. /\ r \in SlotRecord /\ r.state = "ready" /\ r.kind = k /\ r.owner = c /\ r.first = f
      /\ r.lo = l /\ r.hi = h
      /\ r.count = slot[s].count /\ r.exception = slot[s].exception /\ r.completed = slot[s].completed
  BY <1>1 DEF SlotRecord
<1>3. slot' = [slot EXCEPT ![s] = r]  BY DEF FragmentPutAt
<1> HIDE DEF r
<1>4. slot' \in [Slots -> SlotRecord]  BY <1>2, <1>3
<1>5. slot'[s] = r /\ \A t \in Slots : t # s => slot'[t] = slot[t]  BY <1>3
<1> QED  BY <1>2, <1>4, <1>5

\* The units l .. h of a call are processed.
TimesAddedAt(o, l, h) ==
  times' = [times EXCEPT ![o] = [u \in DOMAIN @ |-> IF u \in l .. h THEN @[u] + 1 ELSE @[u]]]
LEMMA TimesAdded ==
  ASSUME NEW o \in Callers, NEW l, NEW h, DOMAIN times = Callers, TimesAddedAt(o, l, h)
  PROVE  /\ DOMAIN times' = Callers
         /\ \A x \in Callers : times'[x] = IF x = o THEN [u \in DOMAIN times[o] |-> IF u \in l .. h THEN times[o][u] + 1 ELSE times[o][u]]
                                           ELSE times[x]
BY DEF TimesAddedAt


-----------------------------------------------------------------------------
(***************************************************************************)
(* Steps that move only a program counter                                   *)
(***************************************************************************)

\* What most of the invariant is about.
ring == <<stopPending, enq, slot, call, wSlot, wGroup, times, broken>>

\* No caller and no worker goes on.
LEMMA NobodyMoves ==
  ASSUME PoolInv, TypeOK', Phases', Mutexes', UNCHANGED ring, UNCHANGED <<cPc, wPc>>
  PROVE  PoolInv'
<1>1. stopPending' = stopPending /\ enq' = enq /\ slot' = slot /\ cPc' = cPc /\ call' = call
      /\ wPc' = wPc
      /\ wSlot' = wSlot /\ wGroup' = wGroup /\ times' = times /\ broken' = broken
  BY DEF ring
<1>2. Division /\ Groups /\ Members /\ Holding /\ Counted /\ Completion /\ Units /\ Fragments
      /\ Exceptions
  BY DEF PoolInv
<1>3. Division'
  BY <1>1, <1>2 DEF Division, DivisionOf, Divided, Active, Early, IsKeyCall
<1>4. Groups'
  BY <1>1, <1>2 DEF Groups, GroupOf, OwnsFirst, Opened, IsFree, Active, IsKeyCall
<1>5. Members' /\ Holding'
  BY <1>1, <1>2 DEF Members, OfGroup, Opened, Since, Active, IsKeyCall, Holding, Held, Working
<1>6. Counted'
  <2>1. \A c \in Callers : Waiting(c)' = Waiting(c) /\ Hands(c)' = Hands(c)  BY <1>1 DEF Waiting,
        Hands, Working
  <2>2. \A c \in Callers : Active(c)' <=> Active(c)  BY <1>1 DEF Active, IsKeyCall
  <2> QED  BY <1>1, <1>2, <2>1, <2>2 DEF Counted, CountOf
<1>7. Completion'
  BY <1>1, <1>2 DEF Completion, EventOf, Opened, Active, IsKeyCall
<1>8. \A s \in Slots, c \in Callers : Unprocessed(s, c)' <=> Unprocessed(s, c)
      BY <1>1 DEF Unprocessed, InRun
<1>9. \A c \in Callers : (Active(c)' <=> Active(c)) /\ (Early(c)' <=> Early(c))  BY <1>1 DEF Active,
      Early, IsKeyCall
<1>10. Units'  BY <1>1, <1>2, <1>8, <1>9 DEF Units, UnitsOf, Pending, AllOnce, IsKeyCall
<1>11. Fragments'  BY <1>1, <1>2, <1>8, <1>9 DEF Fragments, FragmentOfCall, Apart
<1>12. Exceptions'  BY <1>1, <1>2, <1>9 DEF Exceptions, ExceptionOf, IsKeyCall
<1> QED  BY <1>3, <1>4, <1>5, <1>6, <1>7, <1>10, <1>11, <1>12 DEF PoolInv

\* One worker goes on, that has no work item before and after.
LEMMA IdleWorkerMoves ==
  ASSUME PoolInv, NEW w \in Workers, TypeOK', Phases', Mutexes',
         UNCHANGED <<stopPending, enq, slot, cPc, call, wGroup, times, broken>>,
         ~Working(w), ~Working(w)', \A x \in Workers : x # w => wPc'[x] = wPc[x] /\ wSlot'[x] = wSlot[x]
  PROVE  PoolInv'
<1>1. stopPending' = stopPending /\ enq' = enq /\ slot' = slot /\ cPc' = cPc /\ call' = call
      /\ wGroup' = wGroup /\ times' = times /\ broken' = broken
  OBVIOUS
<1>2. Division /\ Groups /\ Members /\ Holding /\ Counted /\ Completion /\ Units /\ Fragments
      /\ Exceptions
  BY DEF PoolInv
<1>3. \A x \in Workers : (Working(x)' <=> Working(x)) /\ (Working(x) => wPc'[x] = wPc[x]
      /\ wSlot'[x] = wSlot[x])
  <2>1. ASSUME NEW x \in Workers, x # w PROVE Working(x)' <=> Working(x)  BY <1>1, <2>1 DEF Working
  <2> QED  BY <2>1
<1>4. \A c \in Callers : (Active(c)' <=> Active(c)) /\ (Early(c)' <=> Early(c))
      /\ (Opened(c)' <=> Opened(c))
  BY <1>1 DEF Active, Early, IsKeyCall, Opened
<1>5. \A s \in Slots : InRun(s)' <=> InRun(s)
  <2>1. \A x \in Workers : wPc'[x] = "run" /\ ~stopPending => Working(x)'  BY <1>1 DEF Working
  <2>2. \A x \in Workers : wPc[x] = "run" /\ ~stopPending => Working(x)  BY DEF Working
  <2> QED  BY <1>1, <1>3, <2>1, <2>2 DEF InRun
<1>6. Division'
  BY <1>1, <1>2 DEF Division, DivisionOf, Divided, Active, Early, IsKeyCall
<1>7. Groups'
  BY <1>1, <1>2, <1>4 DEF Groups, GroupOf, OwnsFirst, IsFree
<1>8. \A s \in Slots : OfGroup(s)' <=> OfGroup(s)  BY <1>1, <1>4 DEF OfGroup, Since
<1>9. Members'
  <2>1. \A x \in Workers : Working(x)' => OfGroup(wSlot[x]) /\ wSlot'[x] = wSlot[x]  BY <1>2,
        <1>3 DEF Members
  <2>2. \A x \in Workers : OfGroup(wSlot[x]) /\ wSlot'[x] = wSlot[x] => OfGroup(wSlot[x])'
    BY <1>1, <1>4 DEF OfGroup, Since
  <2> QED  BY <1>1, <1>2, <1>8, <2>1, <2>2 DEF Members
<1>10. Holding'
  <2>1. ASSUME NEW x \in Workers, Working(x)' PROVE Held(x)'  BY <1>1, <1>2, <1>3, <2>1 DEF Holding,
        Held
  <2>2. \A x, y \in Workers : Working(x)' /\ Working(y)' /\ wSlot'[x] = wSlot'[y] => x = y  BY <1>2,
        <1>3 DEF Holding
  <2> QED  BY <2>1, <2>2 DEF Holding
<1>11. Counted'
  <2>1. ASSUME NEW c \in Callers PROVE Waiting(c)' = Waiting(c) /\ Hands(c)' = Hands(c)
    <3>1. \A x \in Workers : x \in Hands(c)' <=> x \in Hands(c)  BY <1>1, <1>3 DEF Hands
    <3> QED  BY <1>1, <3>1 DEF Waiting, Hands
  <2> QED  BY <1>1, <1>2, <1>4, <2>1 DEF Counted, CountOf
<1>12. Completion'
  <2>1. \A x \in Workers : wPc'[x] = "signalItem" => wPc[x] = "signalItem"
    <3>1. \A x \in Workers : wPc'[x] = "signalItem" => Working(x)'  BY DEF Working
    <3> QED  BY <1>3, <3>1
  <2>2. \A s \in Slots : slot[s].completed => EventOf(s)'  BY <1>1, <1>2, <1>4 DEF Completion, EventOf
  <2> QED  BY <1>1, <1>2, <2>1, <2>2 DEF Completion
<1>13. \A s \in Slots, c \in Callers : Unprocessed(s, c)' <=> Unprocessed(s, c)  BY <1>1,
      <1>5 DEF Unprocessed
<1>14. Units'  BY <1>1, <1>2, <1>4, <1>13 DEF Units, UnitsOf, Pending, AllOnce, IsKeyCall
<1>15. Fragments'  BY <1>1, <1>2, <1>4, <1>13 DEF Fragments, FragmentOfCall, Apart
<1>16. Exceptions'  BY <1>1, <1>2, <1>4 DEF Exceptions, ExceptionOf, IsKeyCall
<1> QED  BY <1>6, <1>7, <1>9, <1>10, <1>11, <1>12, <1>14, <1>15, <1>16 DEF PoolInv

\* One caller goes on, and its group stays or is not under way.
LEMMA CallerMoves ==
  ASSUME PoolInv, NEW c \in Callers, TypeOK', Phases', Mutexes', UNCHANGED ring, UNCHANGED wPc,
         \A x \in Callers : x # c => cPc'[x] = cPc[x],
         Active(c)' <=> Active(c), Early(c)' <=> Early(c),
         DivisionOf(c)', GroupOf(c)', ExceptionOf(c)',
         IsKeyCall(c) /\ cPc'[c] # "idle" => DOMAIN times[c] = {},
         cPc'[c] \in {"free", "signal", "idle"} => AllOnce(c)
  PROVE  PoolInv'
<1>1. stopPending' = stopPending /\ enq' = enq /\ slot' = slot /\ call' = call /\ wPc' = wPc
      /\ wSlot' = wSlot /\ wGroup' = wGroup /\ times' = times /\ broken' = broken
  BY DEF ring
<1>2. Division /\ Groups /\ Members /\ Holding /\ Counted /\ Completion /\ Units /\ Fragments
      /\ Exceptions
  BY DEF PoolInv
<1>3. \A x \in Callers : (Active(x)' <=> Active(x)) /\ (Early(x)' <=> Early(x))
      /\ (Opened(x)' <=> Opened(x))
  <2>1. ASSUME NEW x \in Callers, x # c PROVE (Active(x)' <=> Active(x)) /\ (Early(x)' <=> Early(x))
    BY <1>1, <2>1 DEF Active, Early, IsKeyCall
  <2>2. \A x \in Callers : (Active(x)' <=> Active(x)) /\ (Early(x)' <=> Early(x))  BY <2>1
  <2> QED  BY <1>1, <2>2 DEF Opened
<1>4. \A x \in Callers : IsKeyCall(x)' <=> IsKeyCall(x)  BY <1>1 DEF IsKeyCall
<1>5. Division'
  <2>1. ASSUME NEW x \in Callers, x # c PROVE DivisionOf(x)'
    BY <1>1, <1>2, <1>3, <1>4, <2>1 DEF Division, DivisionOf, Divided
  <2> QED  BY <2>1 DEF Division
<1>6. Groups'
  <2>1. ASSUME NEW x \in Callers, x # c PROVE GroupOf(x)'
    BY <1>1, <1>2, <1>3, <2>1 DEF Groups, GroupOf, OwnsFirst, IsFree
  <2> QED  BY <2>1 DEF Groups
<1>7. Members'
  BY <1>1, <1>2, <1>3 DEF Members, OfGroup, Since, Working
<1>8. Holding'  BY <1>1, <1>2 DEF Holding, Held, Working
<1>9. Counted'
  <2>1. \A x \in Callers : Waiting(x)' = Waiting(x) /\ Hands(x)' = Hands(x)  BY <1>1 DEF Waiting,
        Hands, Working
  <2> QED  BY <1>1, <1>2, <1>3, <2>1 DEF Counted, CountOf
<1>10. Completion'  BY <1>1, <1>2, <1>3 DEF Completion, EventOf
<1>11. \A s \in Slots, x \in Callers : Unprocessed(s, x)' <=> Unprocessed(s, x)
      BY <1>1 DEF Unprocessed, InRun
<1>12. Units'
  <2>1. \A x \in Callers : Early(x)' \/ Active(x)' => UnitsOf(x)'
    BY <1>1, <1>2, <1>3, <1>11 DEF Units, UnitsOf, Pending
  <2>2. \A x \in Callers : IsKeyCall(x)' /\ cPc'[x] # "idle" => DOMAIN times'[x] = {}
    BY <1>1, <1>2, <1>4 DEF Units
  <2>3. \A x \in Callers : cPc'[x] \in {"free", "signal", "idle"} => AllOnce(x)'
    BY <1>1, <1>2 DEF Units, AllOnce
  <2> QED  BY <1>1, <1>2, <2>1, <2>2, <2>3 DEF Units
<1>13. Fragments'  BY <1>1, <1>2, <1>3, <1>11 DEF Fragments, FragmentOfCall, Apart
<1>14. Exceptions'
  <2>1. ASSUME NEW x \in Callers, x # c PROVE ExceptionOf(x)'
    BY <1>1, <1>2, <1>3, <1>4, <2>1 DEF Exceptions, ExceptionOf
  <2> QED  BY <2>1 DEF Exceptions
<1> QED  BY <1>5, <1>6, <1>7, <1>8, <1>9, <1>10, <1>12, <1>13, <1>14 DEF PoolInv

-----------------------------------------------------------------------------
(***************************************************************************)
(* Each step                                                                *)
(***************************************************************************)
LEMMA FirstWaitKept ==
  ASSUME NEW c \in Callers, PoolInv, First(c), ~IsFree(call[c].first)
  PROVE  PoolInv'
<1>0. TypeOK /\ Phases /\ Mutexes /\ Division /\ Groups /\ Members /\ Holding /\ Counted
      /\ Completion /\ Units /\ Fragments /\ Exceptions  BY DEF PoolInv
<1>t. Typing  BY <1>0, Typed
<1>e1. cPc' \in [Callers -> CallStates]
      /\ \A x \in Callers : cPc'[x] = (IF x = c THEN "firstWait" ELSE cPc[x])
  BY <1>t, CallerGoes DEF Typing, CallStates, First, CGoto
<1>e2. cPc[c] = "first"
  BY DEF First
<1>e3. portable' = portable /\ running' = running /\ stopPending' = stopPending
      /\ threadCount' = threadCount /\ enq' = enq /\ deq' = deq /\ enqOwner' = enqOwner
      /\ deqOwner' = deqOwner /\ readyEvt' = readyEvt /\ doneEvt' = doneEvt /\ slot' = slot
      /\ call' = call /\ wPc' = wPc /\ wSlot' = wSlot /\ sPc' = sPc /\ joined' = joined
      /\ wGroup' = wGroup /\ times' = times /\ broken' = broken /\ calls' = calls
  BY DEF First, flags, events, stop, history, CGoto
<1>1. TypeOK'  BY <1>0, <1>t, <1>e1, <1>e2, <1>e3, Flags, TypesKept, Constants DEF Typing
<1>2. Phases'  BY <1>0, <1>t, <1>e1, <1>e2, <1>e3 DEF Typing, Phases
<1>3. Mutexes'  BY <1>0, <1>t, <1>e1, <1>e2, <1>e3, PoolAssumption DEF Typing, Mutexes, Phases
<1>4. (Active(c)' <=> Active(c)) /\ (Early(c)' <=> Early(c))  BY <1>0, <1>t, <1>e1, <1>e2,
      <1>e3 DEF Typing, Active, Early, IsKeyCall, Division, DivisionOf
<1>5. DivisionOf(c)'
  BY <1>0, <1>t, <1>4, <1>e1, <1>e2, <1>e3 DEF Typing, Division, DivisionOf, Divided, IsKeyCall,
        Mutexes, Active, Early
<1>6. GroupOf(c)'
  BY <1>0, <1>t, <1>4, <1>e1, <1>e2, <1>e3 DEF Typing, Groups, GroupOf, OwnsFirst, Opened, IsFree,
        Mutexes, Division, DivisionOf, Active, IsKeyCall
<1>7. ExceptionOf(c)'
  BY <1>0, <1>t, <1>4, <1>e1, <1>e2, <1>e3 DEF Typing, Exceptions, ExceptionOf, IsKeyCall
<1>8. /\ IsKeyCall(c) /\ cPc'[c] # "idle" => DOMAIN times[c] = {}
      /\ cPc'[c] \in {"free", "signal", "idle"} => AllOnce(c)
  BY <1>0, <1>e1, <1>e2, <1>e3 DEF Units, AllOnce, IsKeyCall
<1> QED  BY <1>1, <1>2, <1>3, <1>4, <1>5, <1>6, <1>7, <1>8, <1>e1, <1>e3, CallerMoves DEF ring

LEMMA CompletedFirstKept ==
  ASSUME NEW c \in Callers, PoolInv, Completed(c), cPc[c] = "firstWait"
  PROVE  PoolInv'
<1>0. TypeOK /\ Phases /\ Mutexes /\ Division /\ Groups /\ Members /\ Holding /\ Counted
      /\ Completion /\ Units /\ Fragments /\ Exceptions  BY DEF PoolInv
<1>t. Typing  BY <1>0, Typed
<1>e1. cPc' \in [Callers -> CallStates]
      /\ \A x \in Callers : cPc'[x] = (IF x = c THEN "first" ELSE cPc[x])
  BY <1>t, CallerGoes DEF Typing, CallStates, Completed, CGoto
<1>e2. doneEvt' = FALSE
  BY DEF Completed
<1>e3. portable' = portable /\ running' = running /\ stopPending' = stopPending
      /\ threadCount' = threadCount /\ enq' = enq /\ deq' = deq /\ enqOwner' = enqOwner
      /\ deqOwner' = deqOwner /\ readyEvt' = readyEvt /\ slot' = slot /\ call' = call /\ wPc' = wPc
      /\ wSlot' = wSlot /\ sPc' = sPc /\ joined' = joined /\ wGroup' = wGroup /\ times' = times
      /\ broken' = broken /\ calls' = calls
  BY DEF Completed, flags, events, stop, history, CGoto
<1>1. TypeOK'  BY <1>0, <1>t, <1>e1, <1>e2, <1>e3, Flags, TypesKept, Constants DEF Typing
<1>2. Phases'  BY <1>0, <1>t, <1>e1, <1>e2, <1>e3 DEF Typing, Phases
<1>3. Mutexes'  BY <1>0, <1>t, <1>e1, <1>e2, <1>e3, PoolAssumption DEF Typing, Mutexes, Phases
<1>4. (Active(c)' <=> Active(c)) /\ (Early(c)' <=> Early(c))  BY <1>0, <1>t, <1>e1, <1>e2,
      <1>e3 DEF Typing, Active, Early, IsKeyCall, Division, DivisionOf
<1>5. DivisionOf(c)'
  BY <1>0, <1>t, <1>4, <1>e1, <1>e2, <1>e3 DEF Typing, Division, DivisionOf, Divided, IsKeyCall,
        Mutexes, Active, Early
<1>6. GroupOf(c)'
  BY <1>0, <1>t, <1>4, <1>e1, <1>e2, <1>e3 DEF Typing, Groups, GroupOf, OwnsFirst, Opened, IsFree,
        Mutexes, Division, DivisionOf, Active, IsKeyCall
<1>7. ExceptionOf(c)'
  BY <1>0, <1>t, <1>4, <1>e1, <1>e2, <1>e3 DEF Typing, Exceptions, ExceptionOf, IsKeyCall
<1>8. /\ IsKeyCall(c) /\ cPc'[c] # "idle" => DOMAIN times[c] = {}
      /\ cPc'[c] \in {"free", "signal", "idle"} => AllOnce(c)
  BY <1>0, <1>e1, <1>e2, <1>e3 DEF Units, AllOnce, IsKeyCall
<1> QED  BY <1>1, <1>2, <1>3, <1>4, <1>5, <1>6, <1>7, <1>8, <1>e1, <1>e3, CallerMoves DEF ring

LEMMA CompletedSlotKept ==
  ASSUME NEW c \in Callers, PoolInv, Completed(c), cPc[c] = "slotWait"
  PROVE  PoolInv'
<1>0. TypeOK /\ Phases /\ Mutexes /\ Division /\ Groups /\ Members /\ Holding /\ Counted
      /\ Completion /\ Units /\ Fragments /\ Exceptions  BY DEF PoolInv
<1>t. Typing  BY <1>0, Typed
<1>e1. cPc' \in [Callers -> CallStates]
      /\ \A x \in Callers : cPc'[x] = (IF x = c THEN "next" ELSE cPc[x])
  BY <1>t, CallerGoes DEF Typing, CallStates, Completed, CGoto
<1>e2. doneEvt' = FALSE
  BY DEF Completed
<1>e3. portable' = portable /\ running' = running /\ stopPending' = stopPending
      /\ threadCount' = threadCount /\ enq' = enq /\ deq' = deq /\ enqOwner' = enqOwner
      /\ deqOwner' = deqOwner /\ readyEvt' = readyEvt /\ slot' = slot /\ call' = call /\ wPc' = wPc
      /\ wSlot' = wSlot /\ sPc' = sPc /\ joined' = joined /\ wGroup' = wGroup /\ times' = times
      /\ broken' = broken /\ calls' = calls
  BY DEF Completed, flags, events, stop, history, CGoto
<1>1. TypeOK'  BY <1>0, <1>t, <1>e1, <1>e2, <1>e3, Flags, TypesKept, Constants DEF Typing
<1>2. Phases'  BY <1>0, <1>t, <1>e1, <1>e2, <1>e3 DEF Typing, Phases
<1>3. Mutexes'  BY <1>0, <1>t, <1>e1, <1>e2, <1>e3, PoolAssumption DEF Typing, Mutexes, Phases
<1>4. (Active(c)' <=> Active(c)) /\ (Early(c)' <=> Early(c))  BY <1>0, <1>t, <1>e1, <1>e2,
      <1>e3 DEF Typing, Active, Early, IsKeyCall, Division, DivisionOf
<1>5. DivisionOf(c)'
  BY <1>0, <1>t, <1>4, <1>e1, <1>e2, <1>e3 DEF Typing, Division, DivisionOf, Divided, IsKeyCall,
        Mutexes, Active, Early
<1>6. GroupOf(c)'
  BY <1>0, <1>t, <1>4, <1>e1, <1>e2, <1>e3 DEF Typing, Groups, GroupOf, OwnsFirst, Opened, IsFree,
        Mutexes, Division, DivisionOf, Active, IsKeyCall
<1>7. ExceptionOf(c)'
  BY <1>0, <1>t, <1>4, <1>e1, <1>e2, <1>e3 DEF Typing, Exceptions, ExceptionOf, IsKeyCall
<1>8. /\ IsKeyCall(c) /\ cPc'[c] # "idle" => DOMAIN times[c] = {}
      /\ cPc'[c] \in {"free", "signal", "idle"} => AllOnce(c)
  BY <1>0, <1>e1, <1>e2, <1>e3 DEF Units, AllOnce, IsKeyCall
<1> QED  BY <1>1, <1>2, <1>3, <1>4, <1>5, <1>6, <1>7, <1>8, <1>e1, <1>e3, CallerMoves DEF ring

LEMMA FillWaitKept ==
  ASSUME NEW c \in Callers, PoolInv, Fill(c), ~SlotFree(enq)
  PROVE  PoolInv'
<1>0. TypeOK /\ Phases /\ Mutexes /\ Division /\ Groups /\ Members /\ Holding /\ Counted
      /\ Completion /\ Units /\ Fragments /\ Exceptions  BY DEF PoolInv
<1>t. Typing  BY <1>0, Typed
<1>e1. cPc' \in [Callers -> CallStates]
      /\ \A x \in Callers : cPc'[x] = (IF x = c THEN "slotWait" ELSE cPc[x])
  BY <1>t, CallerGoes DEF Typing, CallStates, Fill, CGoto
<1>e2. cPc[c] = "next"
  BY DEF Fill
<1>e3. portable' = portable /\ running' = running /\ stopPending' = stopPending
      /\ threadCount' = threadCount /\ enq' = enq /\ deq' = deq /\ enqOwner' = enqOwner
      /\ deqOwner' = deqOwner /\ readyEvt' = readyEvt /\ doneEvt' = doneEvt /\ slot' = slot
      /\ call' = call /\ wPc' = wPc /\ wSlot' = wSlot /\ sPc' = sPc /\ joined' = joined
      /\ wGroup' = wGroup /\ times' = times /\ broken' = broken /\ calls' = calls
  BY DEF Fill, flags, events, stop, history, CGoto
<1>1. TypeOK'  BY <1>0, <1>t, <1>e1, <1>e2, <1>e3, Flags, TypesKept, Constants DEF Typing
<1>2. Phases'  BY <1>0, <1>t, <1>e1, <1>e2, <1>e3 DEF Typing, Phases
<1>3. Mutexes'  BY <1>0, <1>t, <1>e1, <1>e2, <1>e3, PoolAssumption DEF Typing, Mutexes, Phases
<1>4. (Active(c)' <=> Active(c)) /\ (Early(c)' <=> Early(c))  BY <1>0, <1>t, <1>e1, <1>e2,
      <1>e3 DEF Typing, Active, Early, IsKeyCall, Division, DivisionOf
<1>5. DivisionOf(c)'
  BY <1>0, <1>t, <1>4, <1>e1, <1>e2, <1>e3 DEF Typing, Division, DivisionOf, Divided, IsKeyCall,
        Mutexes, Active, Early
<1>6. GroupOf(c)'
  BY <1>0, <1>t, <1>4, <1>e1, <1>e2, <1>e3 DEF Typing, Groups, GroupOf, OwnsFirst, Opened, IsFree,
        Mutexes, Division, DivisionOf, Active, IsKeyCall
<1>7. ExceptionOf(c)'
  BY <1>0, <1>t, <1>4, <1>e1, <1>e2, <1>e3 DEF Typing, Exceptions, ExceptionOf, IsKeyCall
<1>8. /\ IsKeyCall(c) /\ cPc'[c] # "idle" => DOMAIN times[c] = {}
      /\ cPc'[c] \in {"free", "signal", "idle"} => AllOnce(c)
  BY <1>0, <1>e1, <1>e2, <1>e3 DEF Units, AllOnce, IsKeyCall
<1> QED  BY <1>1, <1>2, <1>3, <1>4, <1>5, <1>6, <1>7, <1>8, <1>e1, <1>e3, CallerMoves DEF ring

LEMMA SignalReadyKept ==
  ASSUME NEW c \in Callers, PoolInv, SignalReady(c)
  PROVE  PoolInv'
<1>0. TypeOK /\ Phases /\ Mutexes /\ Division /\ Groups /\ Members /\ Holding /\ Counted
      /\ Completion /\ Units /\ Fragments /\ Exceptions  BY DEF PoolInv
<1>t. Typing  BY <1>0, Typed
<1>e1. cPc' \in [Callers -> CallStates]
      /\ \A x \in Callers : cPc'[x] = (IF x = c THEN IF call[c].left > 0 THEN "next" ELSE "unlock" ELSE cPc[x])
  BY <1>t, CallerGoes DEF Typing, CallStates, SignalReady, CGoto
<1>e2. readyEvt' = TRUE /\ cPc[c] = "ready"
  BY DEF SignalReady
<1>e3. portable' = portable /\ running' = running /\ stopPending' = stopPending
      /\ threadCount' = threadCount /\ enq' = enq /\ deq' = deq /\ enqOwner' = enqOwner
      /\ deqOwner' = deqOwner /\ doneEvt' = doneEvt /\ slot' = slot /\ call' = call /\ wPc' = wPc
      /\ wSlot' = wSlot /\ sPc' = sPc /\ joined' = joined /\ wGroup' = wGroup /\ times' = times
      /\ broken' = broken /\ calls' = calls
  BY DEF SignalReady, flags, events, stop, history, CGoto
<1>1. TypeOK'  BY <1>0, <1>t, <1>e1, <1>e2, <1>e3, Flags, TypesKept, Constants DEF Typing
<1>2. Phases'  BY <1>0, <1>t, <1>e1, <1>e2, <1>e3 DEF Typing, Phases
<1>3. Mutexes'  BY <1>0, <1>t, <1>e1, <1>e2, <1>e3, PoolAssumption DEF Typing, Mutexes, Phases
<1>4. (Active(c)' <=> Active(c)) /\ (Early(c)' <=> Early(c))  BY <1>0, <1>t, <1>e1, <1>e2,
      <1>e3 DEF Typing, Active, Early, IsKeyCall, Division, DivisionOf
<1>5. DivisionOf(c)'
  BY <1>0, <1>t, <1>4, <1>e1, <1>e2, <1>e3 DEF Typing, Division, DivisionOf, Divided, IsKeyCall,
        Mutexes, Active, Early
<1>6. GroupOf(c)'
  BY <1>0, <1>t, <1>4, <1>e1, <1>e2, <1>e3 DEF Typing, Groups, GroupOf, OwnsFirst, Opened, IsFree,
        Mutexes, Division, DivisionOf, Active, IsKeyCall
<1>7. ExceptionOf(c)'
  BY <1>0, <1>t, <1>4, <1>e1, <1>e2, <1>e3 DEF Typing, Exceptions, ExceptionOf, IsKeyCall
<1>8. /\ IsKeyCall(c) /\ cPc'[c] # "idle" => DOMAIN times[c] = {}
      /\ cPc'[c] \in {"free", "signal", "idle"} => AllOnce(c)
  BY <1>0, <1>e1, <1>e2, <1>e3 DEF Units, AllOnce, IsKeyCall
<1> QED  BY <1>1, <1>2, <1>3, <1>4, <1>5, <1>6, <1>7, <1>8, <1>e1, <1>e3, CallerMoves DEF ring

LEMMA UnlockKept ==
  ASSUME NEW c \in Callers, PoolInv, Unlock(c)
  PROVE  PoolInv'
<1>0. TypeOK /\ Phases /\ Mutexes /\ Division /\ Groups /\ Members /\ Holding /\ Counted
      /\ Completion /\ Units /\ Fragments /\ Exceptions  BY DEF PoolInv
<1>t. Typing  BY <1>0, Typed
<1>e1. cPc' \in [Callers -> CallStates]
      /\ \A x \in Callers : cPc'[x] = (IF x = c THEN IF call[c].size = 0 THEN "idle" ELSE "await" ELSE cPc[x])
  BY <1>t, CallerGoes DEF Typing, CallStates, Unlock, CGoto, IsKeyCall
<1>e2. enqOwner' = NoOne /\ cPc[c] = "unlock"
  BY DEF Unlock
<1>e3. portable' = portable /\ running' = running /\ stopPending' = stopPending
      /\ threadCount' = threadCount /\ enq' = enq /\ deq' = deq /\ deqOwner' = deqOwner
      /\ readyEvt' = readyEvt /\ doneEvt' = doneEvt /\ slot' = slot /\ call' = call /\ wPc' = wPc
      /\ wSlot' = wSlot /\ sPc' = sPc /\ joined' = joined /\ wGroup' = wGroup /\ times' = times
      /\ broken' = broken /\ calls' = calls
  BY DEF Unlock, flags, events, stop, history, CGoto, IsKeyCall
<1>1. TypeOK'  BY <1>0, <1>t, <1>e1, <1>e2, <1>e3, Flags, TypesKept, Constants DEF Typing
<1>2. Phases'  BY <1>0, <1>t, <1>e1, <1>e2, <1>e3 DEF Typing, Phases
<1>3. Mutexes'  BY <1>0, <1>t, <1>e1, <1>e2, <1>e3, PoolAssumption DEF Typing, Mutexes, Phases
<1>4. (Active(c)' <=> Active(c)) /\ (Early(c)' <=> Early(c))  BY <1>0, <1>t, <1>e1, <1>e2,
      <1>e3 DEF Typing, Active, Early, IsKeyCall, Division, DivisionOf
<1>5. DivisionOf(c)'
  BY <1>0, <1>t, <1>4, <1>e1, <1>e2, <1>e3 DEF Typing, Division, DivisionOf, Divided, IsKeyCall,
        Mutexes, Active, Early
<1>6. GroupOf(c)'
  BY <1>0, <1>t, <1>4, <1>e1, <1>e2, <1>e3 DEF Typing, Groups, GroupOf, OwnsFirst, Opened, IsFree,
        Mutexes, Division, DivisionOf, Active, IsKeyCall
<1>7. ExceptionOf(c)'
  BY <1>0, <1>t, <1>4, <1>e1, <1>e2, <1>e3 DEF Typing, Exceptions, ExceptionOf, IsKeyCall
<1>8. /\ IsKeyCall(c) /\ cPc'[c] # "idle" => DOMAIN times[c] = {}
      /\ cPc'[c] \in {"free", "signal", "idle"} => AllOnce(c)
  BY <1>0, <1>e1, <1>e2, <1>e3 DEF Units, AllOnce, IsKeyCall
<1> QED  BY <1>1, <1>2, <1>3, <1>4, <1>5, <1>6, <1>7, <1>8, <1>e1, <1>e3, CallerMoves DEF ring

LEMMA SignalFreedKept ==
  ASSUME NEW c \in Callers, PoolInv, SignalFreed(c)
  PROVE  PoolInv'
<1>0. TypeOK /\ Phases /\ Mutexes /\ Division /\ Groups /\ Members /\ Holding /\ Counted
      /\ Completion /\ Units /\ Fragments /\ Exceptions  BY DEF PoolInv
<1>t. Typing  BY <1>0, Typed
<1>e1. cPc' \in [Callers -> CallStates]
      /\ \A x \in Callers : cPc'[x] = (IF x = c THEN "idle" ELSE cPc[x])
  BY <1>t, CallerGoes DEF Typing, CallStates, SignalFreed, CGoto
<1>e2. doneEvt' = TRUE /\ cPc[c] = "signal"
  BY DEF SignalFreed
<1>e3. portable' = portable /\ running' = running /\ stopPending' = stopPending
      /\ threadCount' = threadCount /\ enq' = enq /\ deq' = deq /\ enqOwner' = enqOwner
      /\ deqOwner' = deqOwner /\ readyEvt' = readyEvt /\ slot' = slot /\ call' = call /\ wPc' = wPc
      /\ wSlot' = wSlot /\ sPc' = sPc /\ joined' = joined /\ wGroup' = wGroup /\ times' = times
      /\ broken' = broken /\ calls' = calls
  BY DEF SignalFreed, flags, events, stop, history, CGoto
<1>1. TypeOK'  BY <1>0, <1>t, <1>e1, <1>e2, <1>e3, Flags, TypesKept, Constants DEF Typing
<1>2. Phases'  BY <1>0, <1>t, <1>e1, <1>e2, <1>e3 DEF Typing, Phases
<1>3. Mutexes'  BY <1>0, <1>t, <1>e1, <1>e2, <1>e3, PoolAssumption DEF Typing, Mutexes, Phases
<1>4. (Active(c)' <=> Active(c)) /\ (Early(c)' <=> Early(c))  BY <1>0, <1>t, <1>e1, <1>e2,
      <1>e3 DEF Typing, Active, Early, IsKeyCall, Division, DivisionOf
<1>5. DivisionOf(c)'
  BY <1>0, <1>t, <1>4, <1>e1, <1>e2, <1>e3 DEF Typing, Division, DivisionOf, Divided, IsKeyCall,
        Mutexes, Active, Early
<1>6. GroupOf(c)'
  BY <1>0, <1>t, <1>4, <1>e1, <1>e2, <1>e3 DEF Typing, Groups, GroupOf, OwnsFirst, Opened, IsFree,
        Mutexes, Division, DivisionOf, Active, IsKeyCall
<1>7. ExceptionOf(c)'
  BY <1>0, <1>t, <1>4, <1>e1, <1>e2, <1>e3 DEF Typing, Exceptions, ExceptionOf, IsKeyCall
<1>8. /\ IsKeyCall(c) /\ cPc'[c] # "idle" => DOMAIN times[c] = {}
      /\ cPc'[c] \in {"free", "signal", "idle"} => AllOnce(c)
  BY <1>0, <1>e1, <1>e2, <1>e3 DEF Units, AllOnce, IsKeyCall
<1> QED  BY <1>1, <1>2, <1>3, <1>4, <1>5, <1>6, <1>7, <1>8, <1>e1, <1>e3, CallerMoves DEF ring

LEMMA LoopKept ==
  ASSUME NEW w \in Workers, PoolInv, Loop(w)
  PROVE  PoolInv'
<1>0. TypeOK /\ Phases /\ Mutexes /\ Division /\ Groups /\ Members /\ Holding /\ Counted
      /\ Completion /\ Units /\ Fragments /\ Exceptions  BY DEF PoolInv
<1>t. Typing  BY <1>0, Typed
<1>e1. wPc' \in [Workers -> WorkStates]
      /\ \A x \in Workers : wPc'[x] = (IF x = w THEN IF stopPending THEN "exit" ELSE "lock" ELSE wPc[x])
  BY <1>t, WorkerGoes DEF Typing, WorkStates, Loop, WGoto
<1>e2. wPc[w] = "loop"
  BY DEF Loop
<1>e3. portable' = portable /\ running' = running /\ stopPending' = stopPending
      /\ threadCount' = threadCount /\ enq' = enq /\ deq' = deq /\ enqOwner' = enqOwner
      /\ deqOwner' = deqOwner /\ readyEvt' = readyEvt /\ doneEvt' = doneEvt /\ slot' = slot
      /\ cPc' = cPc /\ call' = call /\ wSlot' = wSlot /\ sPc' = sPc /\ joined' = joined
      /\ wGroup' = wGroup /\ times' = times /\ broken' = broken /\ calls' = calls
  BY DEF Loop, flags, events, stop, history, WGoto
<1>1. TypeOK'  BY <1>0, <1>t, <1>e1, <1>e2, <1>e3, Flags, TypesKept, Constants DEF Typing
<1>2. Phases'  BY <1>0, <1>t, <1>e1, <1>e2, <1>e3 DEF Typing, Phases
<1>3. Mutexes'  BY <1>0, <1>t, <1>e1, <1>e2, <1>e3, PoolAssumption DEF Typing, Mutexes, Phases
<1>4. ~Working(w) /\ ~Working(w)'  BY <1>t, <1>e1, <1>e2, <1>e3 DEF Typing, Working
<1> QED  BY <1>1, <1>2, <1>3, <1>4, <1>e1, <1>e2, <1>e3, IdleWorkerMoves

LEMMA DequeueKept ==
  ASSUME NEW w \in Workers, PoolInv, Dequeue(w)
  PROVE  PoolInv'
<1>0. TypeOK /\ Phases /\ Mutexes /\ Division /\ Groups /\ Members /\ Holding /\ Counted
      /\ Completion /\ Units /\ Fragments /\ Exceptions  BY DEF PoolInv
<1>t. Typing  BY <1>0, Typed
<1>p1. wPc[w] = "lock"
  BY <1>0, <1>t DEF Dequeue
<1>e1. wPc' \in [Workers -> WorkStates]
      /\ \A x \in Workers : wPc'[x] = (IF x = w THEN "check" ELSE wPc[x])
  BY <1>t, WorkerGoes DEF Typing, WorkStates, Dequeue, WGoto
<1>e2. wSlot' \in [Workers -> Slots] /\ \A x \in Workers : wSlot'[x] = IF x = w THEN deq ELSE wSlot[x]
  BY <1>t DEF Typing, Dequeue
<1>e3. wPc[w] = "lock" /\ deqOwner = NoOne /\ deqOwner' = w /\ deq' \in Slots
  BY <1>t, AfterSlot DEF Typing, Dequeue
<1>e4. portable' = portable /\ running' = running /\ stopPending' = stopPending
      /\ threadCount' = threadCount /\ enq' = enq /\ enqOwner' = enqOwner /\ readyEvt' = readyEvt
      /\ doneEvt' = doneEvt /\ slot' = slot /\ cPc' = cPc /\ call' = call /\ sPc' = sPc
      /\ joined' = joined /\ wGroup' = wGroup /\ times' = times /\ broken' = broken /\ calls' = calls
  BY DEF Dequeue, flags, events, stop, history, WGoto
<1>1. TypeOK'  BY <1>0, <1>t, <1>e1, <1>e2, <1>e3, <1>e4, <1>p1, Flags, TypesKept, Constants DEF Typing
<1>2. Phases'  BY <1>0, <1>t, <1>e1, <1>e2, <1>e3, <1>e4, <1>p1 DEF Typing, Phases
<1>3. Mutexes'  BY <1>0, <1>t, <1>e1, <1>e2, <1>e3, <1>e4, <1>p1, PoolAssumption DEF Typing, Mutexes,
      Phases
<1>4. ~Working(w) /\ ~Working(w)'  BY <1>t, <1>e1, <1>e2, <1>e3, <1>e4, <1>p1 DEF Typing, Working
<1> QED  BY <1>1, <1>2, <1>3, <1>4, <1>e1, <1>e2, <1>e3, <1>e4, <1>p1, IdleWorkerMoves

LEMMA CheckKept ==
  ASSUME NEW w \in Workers, PoolInv, Check(w)
  PROVE  PoolInv'
<1>0. TypeOK /\ Phases /\ Mutexes /\ Division /\ Groups /\ Members /\ Holding /\ Counted
      /\ Completion /\ Units /\ Fragments /\ Exceptions  BY DEF PoolInv
<1>t. Typing  BY <1>0, Typed
<1>e1. wPc' \in [Workers -> WorkStates]
      /\ \A x \in Workers : wPc'[x] = (IF x = w THEN IF stopPending \/ slot[wSlot[w]].state = "ready" THEN "take" ELSE "wait" ELSE wPc[x])
  BY <1>t, WorkerGoes DEF Typing, WorkStates, Check, WGoto
<1>e2. wPc[w] = "check"
  BY DEF Check
<1>e3. portable' = portable /\ running' = running /\ stopPending' = stopPending
      /\ threadCount' = threadCount /\ enq' = enq /\ deq' = deq /\ enqOwner' = enqOwner
      /\ deqOwner' = deqOwner /\ readyEvt' = readyEvt /\ doneEvt' = doneEvt /\ slot' = slot
      /\ cPc' = cPc /\ call' = call /\ wSlot' = wSlot /\ sPc' = sPc /\ joined' = joined
      /\ wGroup' = wGroup /\ times' = times /\ broken' = broken /\ calls' = calls
  BY DEF Check, flags, events, stop, history, WGoto
<1>1. TypeOK'  BY <1>0, <1>t, <1>e1, <1>e2, <1>e3, Flags, TypesKept, Constants DEF Typing
<1>2. Phases'  BY <1>0, <1>t, <1>e1, <1>e2, <1>e3 DEF Typing, Phases
<1>3. Mutexes'  BY <1>0, <1>t, <1>e1, <1>e2, <1>e3, PoolAssumption DEF Typing, Mutexes, Phases
<1>4. ~Working(w) /\ ~Working(w)'  BY <1>t, <1>e1, <1>e2, <1>e3 DEF Typing, Working
<1> QED  BY <1>1, <1>2, <1>3, <1>4, <1>e1, <1>e2, <1>e3, IdleWorkerMoves

LEMMA ReadyKept ==
  ASSUME NEW w \in Workers, PoolInv, Ready(w)
  PROVE  PoolInv'
<1>0. TypeOK /\ Phases /\ Mutexes /\ Division /\ Groups /\ Members /\ Holding /\ Counted
      /\ Completion /\ Units /\ Fragments /\ Exceptions  BY DEF PoolInv
<1>t. Typing  BY <1>0, Typed
<1>e1. wPc' \in [Workers -> WorkStates]
      /\ \A x \in Workers : wPc'[x] = (IF x = w THEN "check" ELSE wPc[x])
  BY <1>t, WorkerGoes DEF Typing, WorkStates, Ready, WGoto
<1>e2. wPc[w] = "wait" /\ readyEvt' = FALSE
  BY DEF Ready
<1>e3. portable' = portable /\ running' = running /\ stopPending' = stopPending
      /\ threadCount' = threadCount /\ enq' = enq /\ deq' = deq /\ enqOwner' = enqOwner
      /\ deqOwner' = deqOwner /\ doneEvt' = doneEvt /\ slot' = slot /\ cPc' = cPc /\ call' = call
      /\ wSlot' = wSlot /\ sPc' = sPc /\ joined' = joined /\ wGroup' = wGroup /\ times' = times
      /\ broken' = broken /\ calls' = calls
  BY DEF Ready, flags, events, stop, history, WGoto
<1>1. TypeOK'  BY <1>0, <1>t, <1>e1, <1>e2, <1>e3, Flags, TypesKept, Constants DEF Typing
<1>2. Phases'  BY <1>0, <1>t, <1>e1, <1>e2, <1>e3 DEF Typing, Phases
<1>3. Mutexes'  BY <1>0, <1>t, <1>e1, <1>e2, <1>e3, PoolAssumption DEF Typing, Mutexes, Phases
<1>4. ~Working(w) /\ ~Working(w)'  BY <1>t, <1>e1, <1>e2, <1>e3 DEF Typing, Working
<1> QED  BY <1>1, <1>2, <1>3, <1>4, <1>e1, <1>e2, <1>e3, IdleWorkerMoves

LEMMA RunDropKept ==
  ASSUME NEW w \in Workers, PoolInv, Run(w), stopPending
  PROVE  PoolInv'
<1>0. TypeOK /\ Phases /\ Mutexes /\ Division /\ Groups /\ Members /\ Holding /\ Counted
      /\ Completion /\ Units /\ Fragments /\ Exceptions  BY DEF PoolInv
<1>t. Typing  BY <1>0, Typed
<1>e1. wPc' \in [Workers -> WorkStates]
      /\ \A x \in Workers : wPc'[x] = (IF x = w THEN "exit" ELSE wPc[x])
  BY <1>t, WorkerGoes DEF Typing, WorkStates, Run, WGoto
<1>e2. wPc[w] = "run"
  BY DEF Run
<1>e3. portable' = portable /\ running' = running /\ stopPending' = stopPending
      /\ threadCount' = threadCount /\ enq' = enq /\ deq' = deq /\ enqOwner' = enqOwner
      /\ deqOwner' = deqOwner /\ readyEvt' = readyEvt /\ doneEvt' = doneEvt /\ slot' = slot
      /\ cPc' = cPc /\ call' = call /\ wSlot' = wSlot /\ sPc' = sPc /\ joined' = joined
      /\ wGroup' = wGroup /\ times' = times /\ broken' = broken /\ calls' = calls
  BY DEF Run, flags, events, stop, history, WGoto
<1>1. TypeOK'  BY <1>0, <1>t, <1>e1, <1>e2, <1>e3, Flags, TypesKept, Constants DEF Typing
<1>2. Phases'  BY <1>0, <1>t, <1>e1, <1>e2, <1>e3 DEF Typing, Phases
<1>3. Mutexes'  BY <1>0, <1>t, <1>e1, <1>e2, <1>e3, PoolAssumption DEF Typing, Mutexes, Phases
<1>4. ~Working(w) /\ ~Working(w)'  BY <1>t, <1>e1, <1>e2, <1>e3 DEF Typing, Working
<1> QED  BY <1>1, <1>2, <1>3, <1>4, <1>e1, <1>e2, <1>e3, IdleWorkerMoves

LEMMA SignalSlotKeyKept ==
  ASSUME NEW w \in Workers, PoolInv, SignalSlot(w), wPc[w] = "signalKey"
  PROVE  PoolInv'
<1>0. TypeOK /\ Phases /\ Mutexes /\ Division /\ Groups /\ Members /\ Holding /\ Counted
      /\ Completion /\ Units /\ Fragments /\ Exceptions  BY DEF PoolInv
<1>t. Typing  BY <1>0, Typed
<1>e1. wPc' \in [Workers -> WorkStates]
      /\ \A x \in Workers : wPc'[x] = (IF x = w THEN "loop" ELSE wPc[x])
  BY <1>t, WorkerGoes DEF Typing, WorkStates, SignalSlot, WGoto
<1>e2. doneEvt' = TRUE
  BY DEF SignalSlot
<1>e3. portable' = portable /\ running' = running /\ stopPending' = stopPending
      /\ threadCount' = threadCount /\ enq' = enq /\ deq' = deq /\ enqOwner' = enqOwner
      /\ deqOwner' = deqOwner /\ readyEvt' = readyEvt /\ slot' = slot /\ cPc' = cPc /\ call' = call
      /\ wSlot' = wSlot /\ sPc' = sPc /\ joined' = joined /\ wGroup' = wGroup /\ times' = times
      /\ broken' = broken /\ calls' = calls
  BY DEF SignalSlot, flags, events, stop, history, WGoto
<1>1. TypeOK'  BY <1>0, <1>t, <1>e1, <1>e2, <1>e3, Flags, TypesKept, Constants DEF Typing
<1>2. Phases'  BY <1>0, <1>t, <1>e1, <1>e2, <1>e3 DEF Typing, Phases
<1>3. Mutexes'  BY <1>0, <1>t, <1>e1, <1>e2, <1>e3, PoolAssumption DEF Typing, Mutexes, Phases
<1>4. ~Working(w) /\ ~Working(w)'  BY <1>t, <1>e1, <1>e2, <1>e3 DEF Typing, Working
<1> QED  BY <1>1, <1>2, <1>3, <1>4, <1>e1, <1>e2, <1>e3, IdleWorkerMoves

LEMMA StopWakeKept ==
  ASSUME PoolInv, StopWake
  PROVE  PoolInv'
<1>0. TypeOK /\ Phases /\ Mutexes /\ Division /\ Groups /\ Members /\ Holding /\ Counted
      /\ Completion /\ Units /\ Fragments /\ Exceptions  BY DEF PoolInv
<1>t. Typing  BY <1>0, Typed
<1>e1. readyEvt' = TRUE /\ sPc' = "join" /\ sPc = "wake"
  BY DEF StopWake
<1>e2. portable' = portable /\ running' = running /\ stopPending' = stopPending
      /\ threadCount' = threadCount /\ enq' = enq /\ deq' = deq /\ enqOwner' = enqOwner
      /\ deqOwner' = deqOwner /\ doneEvt' = doneEvt /\ slot' = slot /\ cPc' = cPc /\ call' = call
      /\ wPc' = wPc /\ wSlot' = wSlot /\ joined' = joined /\ wGroup' = wGroup /\ times' = times
      /\ broken' = broken /\ calls' = calls
  BY DEF StopWake, flags, events, stop, history
<1>1. TypeOK'  BY <1>0, <1>t, <1>e1, <1>e2, Flags, TypesKept, Constants DEF Typing
<1>2. Phases'  BY <1>0, <1>t, <1>e1, <1>e2 DEF Typing, Phases
<1>3. Mutexes'  BY <1>0, <1>t, <1>e1, <1>e2, PoolAssumption DEF Typing, Mutexes, Phases
<1> QED  BY <1>1, <1>2, <1>3, <1>e2, NobodyMoves DEF ring

LEMMA StopJoinKept ==
  ASSUME PoolInv, StopJoin
  PROVE  PoolInv'
<1>0. TypeOK /\ Phases /\ Mutexes /\ Division /\ Groups /\ Members /\ Holding /\ Counted
      /\ Completion /\ Units /\ Fragments /\ Exceptions  BY DEF PoolInv
<1>t. Typing  BY <1>0, Typed
<1>e1. (sPc' = "reset" \/ sPc' = "join") /\ joined' \subseteq Workers /\ sPc = "join"
  BY <1>0, Flags DEF StopJoin
<1>e2. portable' = portable /\ running' = running /\ stopPending' = stopPending
      /\ threadCount' = threadCount /\ enq' = enq /\ deq' = deq /\ enqOwner' = enqOwner
      /\ deqOwner' = deqOwner /\ readyEvt' = readyEvt /\ doneEvt' = doneEvt /\ slot' = slot
      /\ cPc' = cPc /\ call' = call /\ wPc' = wPc /\ wSlot' = wSlot /\ wGroup' = wGroup
      /\ times' = times /\ broken' = broken /\ calls' = calls
  BY DEF StopJoin, flags, events, stop, history
<1>1. TypeOK'  BY <1>0, <1>t, <1>e1, <1>e2, Flags, TypesKept, Constants DEF Typing
<1>2. Phases'  BY <1>0, <1>t, <1>e1, <1>e2 DEF Typing, Phases
<1>3. Mutexes'  BY <1>0, <1>t, <1>e1, <1>e2, PoolAssumption DEF Typing, Mutexes, Phases
<1> QED  BY <1>1, <1>2, <1>3, <1>e2, NobodyMoves DEF ring

LEMMA StopResetKept ==
  ASSUME PoolInv, StopReset
  PROVE  PoolInv'
<1>0. TypeOK /\ Phases /\ Mutexes /\ Division /\ Groups /\ Members /\ Holding /\ Counted
      /\ Completion /\ Units /\ Fragments /\ Exceptions  BY DEF PoolInv
<1>t. Typing  BY <1>0, Typed
<1>e1. threadCount' = 0 /\ running' = FALSE /\ sPc' = "stopped" /\ sPc = "reset"
  BY DEF StopReset
<1>e2. portable' = portable /\ stopPending' = stopPending /\ enq' = enq /\ deq' = deq
      /\ enqOwner' = enqOwner /\ deqOwner' = deqOwner /\ readyEvt' = readyEvt /\ doneEvt' = doneEvt
      /\ slot' = slot /\ cPc' = cPc /\ call' = call /\ wPc' = wPc /\ wSlot' = wSlot
      /\ joined' = joined /\ wGroup' = wGroup /\ times' = times /\ broken' = broken /\ calls' = calls
  BY DEF StopReset, flags, events, stop, history
<1>1. TypeOK'  BY <1>0, <1>t, <1>e1, <1>e2, Flags, TypesKept, Constants DEF Typing
<1>2. Phases'  BY <1>0, <1>t, <1>e1, <1>e2 DEF Typing, Phases
<1>3. Mutexes'  BY <1>0, <1>t, <1>e1, <1>e2, PoolAssumption DEF Typing, Mutexes, Phases
<1> QED  BY <1>1, <1>2, <1>3, <1>e2, NobodyMoves DEF ring

\* DoWork is called: it does the work itself.
LEMMA CallDoWorkDirectKept ==
  ASSUME NEW c \in Callers, NEW n \in UnitCounts, PoolInv, CallDoWork(c, n), ~running \/ n = 1
  PROVE  PoolInv'
<1>0. TypeOK /\ Phases /\ Mutexes /\ Division /\ Groups /\ Members /\ Holding /\ Counted
      /\ Completion /\ Units /\ Fragments /\ Exceptions  BY DEF PoolInv
<1>t. Typing  BY <1>0, Typed
<1>p1. cPc[c] = "idle" /\ ~Active(c) /\ ~Early(c) /\ sPc \in {"idle", "stopped"}
  BY <1>0, <1>t DEF CallDoWork, Active, Early
<1>e1. call' \in [Callers -> CallRecord]
      /\ \A x \in Callers : call'[x].size = (IF x = c THEN 0 ELSE call[x].size)
      /\ call'[x].first = (IF x = c THEN 0 ELSE call[x].first)
      /\ call'[x].left = (IF x = c THEN 0 ELSE call[x].left)
      /\ call'[x].next = (IF x = c THEN 1 ELSE call[x].next)
      /\ call'[x].per = (IF x = c THEN 0 ELSE call[x].per)
      /\ call'[x].rem = (IF x = c THEN 0 ELSE call[x].rem) /\ (x = c => call'[x].threw = FALSE)
      /\ (x # c => call'[x].threw = call[x].threw)
  <2>1. call' = [call EXCEPT ![c] = IdleCall]  BY DEF CallDoWork
  <2>2. /\ IdleCall \in CallRecord /\ IdleCall.size = 0 /\ IdleCall.first = 0 /\ IdleCall.left = 0
        /\ IdleCall.next = 1
        /\ IdleCall.per = 0 /\ IdleCall.rem = 0 /\ IdleCall.threw = FALSE
    BY Constants DEF IdleCall, CallRecord
  <2> QED  BY <1>t, <2>1, <2>2 DEF Typing
<1>e2. broken' \in [Callers -> BOOLEAN] /\ \A x \in Callers : (x = c => broken'[x] = FALSE)
      /\ (x # c => broken'[x] = broken[x])
  BY <1>t DEF Typing, CallDoWork
<1>e3. DOMAIN times' = Callers
      /\ \A x \in Callers : times'[x] = IF x = c THEN [u \in 1 .. n |-> 1] ELSE times[x]
  BY <1>0, <1>t DEF Typing, CallDoWork, Units
<1>e4. calls' \in [Callers -> 0 .. MaxCalls]
  BY <1>t, PoolAssumption DEF Typing, CallDoWork
<1>e5. portable' = portable /\ running' = running /\ stopPending' = stopPending
      /\ threadCount' = threadCount /\ enq' = enq /\ deq' = deq /\ enqOwner' = enqOwner
      /\ deqOwner' = deqOwner /\ readyEvt' = readyEvt /\ doneEvt' = doneEvt /\ slot' = slot
      /\ cPc' = cPc /\ wPc' = wPc /\ wSlot' = wSlot /\ sPc' = sPc /\ joined' = joined
      /\ wGroup' = wGroup
  BY DEF CallDoWork, flags, events, stop, history
<1>fA. \A x \in Callers : Active(x)' <=> Active(x)
  BY <1>0, <1>t, <1>e1, <1>e2, <1>e3, <1>e4, <1>e5, <1>p1 DEF Typing, Active, IsKeyCall
<1>fE. \A x \in Callers : Early(x)' <=> Early(x)
  BY <1>0, <1>t, <1>e1, <1>e2, <1>e3, <1>e4, <1>e5, <1>p1 DEF Typing, Early, IsKeyCall
<1>fW. \A y \in Workers : Working(y)' <=> Working(y)
  BY <1>0, <1>t, <1>e1, <1>e2, <1>e3, <1>e4, <1>e5, <1>p1 DEF Typing, Working
<1>fS. \A f, s \in Slots : Since(f, s)' <=> Since(f, s)
  BY <1>0, <1>t, <1>e1, <1>e2, <1>e3, <1>e4, <1>e5, <1>p1 DEF Typing, Since
<1>fR. \A s \in Slots : InRun(s)' <=> InRun(s)
  BY <1>0, <1>t, <1>e1, <1>e2, <1>e3, <1>e4, <1>e5, <1>p1 DEF Typing, InRun
<1>fT. \A x \in Callers : Waiting(x)' = Waiting(x)
  BY <1>0, <1>t, <1>e1, <1>e2, <1>e3, <1>e4, <1>e5, <1>p1 DEF Typing, Waiting
<1>fH. \A x \in Callers : Hands(x)' = Hands(x)
  <2>1. ASSUME NEW x \in Callers, NEW y \in Workers PROVE y \in Hands(x)' <=> y \in Hands(x)
    BY <1>0, <1>t, <2>1, <1>e1, <1>e2, <1>e3, <1>e4, <1>e5, <1>p1, <1>fW DEF Typing, Hands
  <2>2. \A x \in Callers : Hands(x)' \subseteq Workers /\ Hands(x) \subseteq Workers  BY DEF Hands
  <2> QED  BY <2>1, <2>2
<1>fU. \A s \in Slots, x \in Callers : Unprocessed(s, x)' <=> Unprocessed(s, x)
  BY <1>0, <1>t, <1>e1, <1>e2, <1>e3, <1>e4, <1>e5, <1>p1, <1>fW, <1>fR DEF Typing, Unprocessed
<1>x. \A x \in Callers : x # c => cPc'[x] = cPc[x] /\ broken'[x] = broken[x]
      /\ call'[x].size = call[x].size /\ call'[x].first = call[x].first
      /\ call'[x].left = call[x].left /\ call'[x].next = call[x].next /\ call'[x].per = call[x].per
      /\ call'[x].rem = call[x].rem /\ call'[x].threw = call[x].threw
  BY <1>t, <1>e1, <1>e2, <1>e3, <1>e4, <1>e5, <1>p1 DEF Typing
<1>g. \A x \in Callers : Opened(x) => Opened(x)' /\ call'[x].first = call[x].first
  BY <1>t, <1>e1, <1>e2, <1>e3, <1>e4, <1>e5, <1>p1, <1>fA DEF Typing, Opened, Active, IsKeyCall
<1>s. \A s \in Slots : (slot'[s].kind = slot[s].kind /\ slot'[s].owner = slot[s].owner
      /\ slot'[s].first = slot[s].first)
  BY <1>e1, <1>e2, <1>e3, <1>e4, <1>e5, <1>p1
<1>1. TypeOK'
  BY <1>0, <1>t, <1>e1, <1>e2, <1>e3, <1>e4, <1>e5, <1>p1, Flags, TypesKept, Constants DEF Typing
<1>2. Phases'
  BY <1>0, <1>t, <1>e1, <1>e2, <1>e3, <1>e4, <1>e5, <1>p1 DEF Typing, Phases
<1>3. Mutexes'
  BY <1>0, <1>t, <1>e1, <1>e2, <1>e3, <1>e4, <1>e5, <1>p1, PoolAssumption DEF Typing, Mutexes, Phases
<1>4. Division'
  <2>1. ASSUME NEW x \in Callers, x # c PROVE DivisionOf(x)'
    <3>1. Divided(call[x]) => Divided(call'[x])  BY <1>x, <2>1 DEF Divided
    <3> QED  BY <1>0, <1>x, <2>1, <3>1, <1>e5, <1>fA, <1>fE DEF Division, DivisionOf, IsKeyCall
  <2>2. DivisionOf(c)'
    BY <1>0, <1>t, <1>e1, <1>e2, <1>e3, <1>e4, <1>e5, <1>p1, <1>fA, <1>fE DEF Typing, Division,
          DivisionOf, Divided, IsKeyCall, Mutexes, Active, Early
  <2> QED  BY <2>1, <2>2 DEF Division
<1>5. Groups'
  <2>1. ASSUME NEW x \in Callers, x # c PROVE GroupOf(x)'
    BY <1>0, <1>t, <1>x, <2>1, <1>e5, <1>p1, <1>fA, <1>fE DEF Typing, Groups, GroupOf, OwnsFirst,
          Opened, IsFree, Mutexes, Division, DivisionOf, Active, IsKeyCall
  <2>2. GroupOf(c)'
    BY <1>0, <1>t, <1>e1, <1>e2, <1>e3, <1>e4, <1>e5, <1>p1, <1>fA, <1>fE DEF Typing, Groups, GroupOf,
          OwnsFirst, Opened, IsFree, Mutexes, Division, DivisionOf, Active, IsKeyCall
  <2> QED  BY <2>1, <2>2 DEF Groups
<1>6. Members'
  <2>1. ASSUME NEW s \in Slots, OfGroup(s) PROVE OfGroup(s)'
    BY <1>t, <2>1, <1>g, <1>s, <1>fS DEF Typing, OfGroup
  <2>2. \A s \in Slots : slot'[s].state = "ready" => slot[s].state = "ready"  BY <1>t, <1>e1, <1>e2,
        <1>e3, <1>e4, <1>e5, <1>p1 DEF Typing
  <2>3. \A y \in Workers : Working(y)' => wSlot'[y] = wSlot[y] /\ OfGroup(wSlot[y])
    BY <1>0, <1>t, <1>fW, <1>e1, <1>e2, <1>e3, <1>e4, <1>e5, <1>p1 DEF Typing, Members
  <2>4. \A s \in Slots : slot'[s].state = "ready" => OfGroup(s)'  BY <1>0, <2>1, <2>2 DEF Members
  <2>5. \A y \in Workers : Working(y)' => OfGroup(wSlot[y])'  BY <1>t, <1>fW, <2>1, <2>3 DEF Typing
  <2> QED  BY <2>4, <2>5 DEF Members
<1>7. Holding'
  <2>1. ASSUME NEW y \in Workers, Working(y)' PROVE Held(y)'
    BY <1>0, <1>t, <2>1, <1>e1, <1>e2, <1>e3, <1>e4, <1>e5, <1>p1, <1>fW DEF Typing, Holding, Held,
          Mutexes
  <2>2. \A y, z \in Workers : Working(y)' /\ Working(z)' /\ wSlot'[y] = wSlot'[z] => y = z
    BY <1>0, <1>t, <1>e1, <1>e2, <1>e3, <1>e4, <1>e5, <1>p1, <1>fW DEF Typing, Holding
  <2> QED  BY <2>1, <2>2 DEF Holding
<1>8. Counted'
  <2>1. ASSUME NEW x \in Callers, Active(x)' PROVE CountOf(x)'
    <3>1. Active(x)  BY <2>1, <1>fA
    <3>2. call'[x].left = call[x].left /\ call'[x].first = call[x].first  BY <1>t, <2>1, <3>1, <1>e1,
          <1>e2, <1>e3, <1>e4, <1>e5, <1>p1, <1>fA DEF Typing
    <3>3. slot'[call[x].first].count = slot[call[x].first].count  BY <1>t, <1>e1, <1>e2, <1>e3, <1>e4,
          <1>e5, <1>p1 DEF Typing
    <3> QED  BY <1>0, <3>1, <3>2, <3>3, <1>fT, <1>fH DEF Counted, CountOf
  <2> QED  BY <2>1 DEF Counted
<1>9. Completion'
  <2>1. ASSUME NEW s \in Slots, slot'[s].completed PROVE EventOf(s)'
    BY <1>0, <1>t, <2>1, <1>g, <1>s, <1>e5, <1>p1 DEF Typing, Completion, EventOf
  <2>2. ASSUME NEW y \in Workers, wPc'[y] = "signalItem" PROVE slot'[wGroup'[y]].count = 0
        /\ ~slot'[wGroup'[y]].completed
    BY <1>0, <1>t, <2>2, <1>e5, <1>p1 DEF Typing, Completion
  <2>3. \A y, z \in Workers : wPc'[y] = "signalItem" /\ wPc'[z] = "signalItem"
        /\ wGroup'[y] = wGroup'[z] => y = z
    BY <1>0, <1>t, <1>e5, <1>p1 DEF Typing, Completion
  <2> QED  BY <2>1, <2>2, <2>3 DEF Completion
<1>10. Units'
  <2>1. DOMAIN times' = Callers  BY <1>0, <1>e1, <1>e2, <1>e3, <1>e4, <1>e5, <1>p1 DEF Units
  <2>2. ASSUME NEW x \in Callers, x # c, Early(x)' \/ Active(x)' PROVE UnitsOf(x)'
    <3>1. (Early(x) \/ Active(x)) /\ x # c BY <2>2, <1>t, <1>e1, <1>e2, <1>e3, <1>e4, <1>e5, <1>p1,
          <1>fA, <1>fE DEF Typing
    <3>2. call'[x].size = call[x].size /\ call'[x].next = call[x].next /\ times'[x] = times[x]
          BY <1>e1, <1>e2, <1>e3, <1>e4, <1>e5, <1>p1, <3>1 DEF Early, Active, IsKeyCall
    <3>3. \A s \in Slots : Unprocessed(s, x) => Unprocessed(s, x)' /\ slot'[s].lo = slot[s].lo
          /\ slot'[s].hi = slot[s].hi
      BY <1>e1, <1>e2, <1>e3, <1>e4, <1>e5, <1>p1, <1>fU
    <3>4. UnitsOf(x)  BY <1>0, <3>1 DEF Units
    <3>5. \A u \in 1 .. call[x].size : Pending(x, u) => Pending(x, u)'  BY <3>3 DEF Pending
    <3> QED  BY <3>2, <3>4, <3>5 DEF UnitsOf
  <2>3. ASSUME NEW x \in Callers, IsKeyCall(x)', cPc'[x] # "idle" PROVE DOMAIN times'[x] = {}
    BY <1>0, <1>e1, <1>e2, <1>e3, <1>e4, <1>e5, <1>p1, <2>3 DEF Units, IsKeyCall
  <2>4. ASSUME NEW x \in Callers, cPc'[x] \in {"free", "signal", "idle"} PROVE AllOnce(x)'
    <3>1. CASE x = c  BY <1>e3, <3>1 DEF AllOnce
    <3>2. CASE x # c
      <4>1. AllOnce(x) /\ times'[x] = times[x]  BY <1>0, <1>e3, <1>e5, <2>4, <3>2 DEF Units
      <4> QED  BY <4>1 DEF AllOnce
    <3> QED  BY <3>1, <3>2
  <2>5. Early(c)' \/ Active(c)' => UnitsOf(c)'
    BY <1>e1, <1>e2, <1>e3, <1>e4, <1>e5, <1>p1, <1>fA, <1>fE DEF UnitsOf
  <2>6. \A x \in Callers : Early(x)' \/ Active(x)' => UnitsOf(x)'  BY <2>2, <2>5
  <2> QED  BY <2>1, <2>3, <2>4, <2>6 DEF Units
<1>11. Fragments'
  <2>1. ASSUME NEW x \in Callers, Active(x)'
        PROVE  /\ \A s \in Slots : Unprocessed(s, x)' => FragmentOfCall(s, x)'
               /\ \A s, t \in Slots : Unprocessed(s, x)' /\ Unprocessed(t, x)' /\ s # t => Apart(s, t)'
    <3>0. Active(x) \/ Early(x)  BY <2>1, <1>fA, <1>e1, <1>e2, <1>e3, <1>e4, <1>e5, <1>p1 DEF Early
    <3>1. \A s \in Slots : Unprocessed(s, x) => Active(x)
      BY <1>0, <1>t DEF Typing, Unprocessed, InRun, Working, Members, OfGroup, Opened
    <3>2. call'[x].next = call[x].next /\ times'[x] = times[x]  BY <2>1, <3>0, <1>fA, <1>e1, <1>e2,
          <1>e3, <1>e4, <1>e5, <1>p1
    <3>3. \A s \in Slots : Unprocessed(s, x) => slot'[s].lo = slot[s].lo
          /\ slot'[s].hi = slot[s].hi  BY <1>e1, <1>e2, <1>e3, <1>e4, <1>e5, <1>p1
    <3>4. \A s \in Slots : Unprocessed(s, x)' => Unprocessed(s, x)  BY <1>fU
    <3>5. \A s \in Slots : Unprocessed(s, x) => FragmentOfCall(s, x)  BY <1>0, <3>1 DEF Fragments
    <3>6. \A s, t \in Slots : Unprocessed(s, x) /\ Unprocessed(t, x) /\ s # t => Apart(s, t)  BY <1>0,
          <3>1 DEF Fragments
    <3>7. \A s \in Slots : Unprocessed(s, x)' => FragmentOfCall(s, x)'  BY <3>2, <3>3, <3>4,
          <3>5 DEF FragmentOfCall
    <3>8. \A s, t \in Slots : Unprocessed(s, x)' /\ Unprocessed(t, x)' /\ s # t => Apart(s, t)'
          BY <3>3, <3>4, <3>6 DEF Apart
    <3> QED  BY <3>7, <3>8
  <2> QED  BY <2>1 DEF Fragments
<1>12. Exceptions'
  <2>1. ASSUME NEW x \in Callers, x # c PROVE ExceptionOf(x)'
    <3>1. ExceptionOf(x) /\ (Active(x)' <=> Active(x)) /\ (Early(x)' <=> Early(x))  BY <1>0, <1>fA,
          <1>fE DEF Exceptions
    <3>2. call'[x].size = call[x].size /\ call'[x].first = call[x].first
          /\ call'[x].threw = call[x].threw
          /\ broken'[x] = broken[x] /\ cPc' = cPc /\ slot' = slot
      BY <1>x, <2>1, <1>e5
    <3> HIDE DEF Active, Early
    <3> QED  BY <3>1, <3>2 DEF ExceptionOf, IsKeyCall
  <2>2. ExceptionOf(c)'
    <3>1. ~Active(c)' /\ ~Early(c)' /\ cPc'[c] = "idle"  BY <1>e5, <1>p1, <1>fA, <1>fE
    <3>2. call'[c].threw = FALSE  BY <1>e1
    <3>3. broken'[c] = FALSE  BY <1>e2
    <3>4. call'[c].threw = broken'[c]  BY <3>2, <3>3, Zenon
    <3> QED  BY <3>1, <3>4, Zenon DEF ExceptionOf
  <2> QED  BY <2>1, <2>2 DEF Exceptions
<1> QED  BY <1>1, <1>2, <1>3, <1>4, <1>5, <1>6, <1>7, <1>8, <1>9, <1>10, <1>11, <1>12 DEF PoolInv

\* DoWork is called: its units are divided.
LEMMA CallDoWorkPoolKept ==
  ASSUME NEW c \in Callers, NEW n \in UnitCounts, PoolInv, CallDoWork(c, n), running, n # 1
  PROVE  PoolInv'
<1>0. TypeOK /\ Phases /\ Mutexes /\ Division /\ Groups /\ Members /\ Holding /\ Counted
      /\ Completion /\ Units /\ Fragments /\ Exceptions  BY DEF PoolInv
<1>t. Typing  BY <1>0, Typed
<1> DEFINE K == [size |-> n, first |-> 0, left |-> FragmentCount(n), next |-> 1,
                 per |-> UnitsPerFragment(n), rem |-> Remainder(n), threw |-> FALSE]
<1>p1. cPc[c] = "idle" /\ ~Active(c) /\ ~Early(c) /\ sPc \in {"idle", "stopped"}
  BY <1>0, <1>t DEF CallDoWork, Active, Early
<1>p2. n \in Nat /\ n > 1 /\ threadCount \in Nat /\ threadCount > 1
  BY <1>0, PoolAssumption, Constants DEF Phases
<1>p3. FragmentCount(n) \in Nat /\ FragmentCount(n) > 0 /\ UnitsPerFragment(n) \in Nat
      /\ Remainder(n) \in Nat /\ Divided(K)
  BY <1>p2, DivisionBegins
<1>e1. cPc' \in [Callers -> CallStates]
      /\ \A x \in Callers : cPc'[x] = (IF x = c THEN "lock" ELSE cPc[x])
  BY <1>t, CallerGoes DEF Typing, CallStates, CallDoWork, CGoto
<1>e2. call'[c] = K /\ call' = [call EXCEPT ![c] = K]
  BY <1>t, CallerGoes DEF Typing, CallDoWork
<1>e3. call' \in [Callers -> CallRecord]
      /\ \A x \in Callers : call'[x].size = (IF x = c THEN n ELSE call[x].size)
      /\ call'[x].first = (IF x = c THEN 0 ELSE call[x].first)
      /\ call'[x].left = (IF x = c THEN FragmentCount(n) ELSE call[x].left)
      /\ call'[x].next = (IF x = c THEN 1 ELSE call[x].next)
      /\ call'[x].per = (IF x = c THEN UnitsPerFragment(n) ELSE call[x].per)
      /\ call'[x].rem = (IF x = c THEN Remainder(n) ELSE call[x].rem)
      /\ (x = c => call'[x].threw = FALSE) /\ (x # c => call'[x].threw = call[x].threw)
  <2>1. K \in CallRecord  BY <1>p2, <1>p3, Constants DEF CallRecord
  <2>2. K.size = n /\ K.first = 0 /\ K.left = FragmentCount(n) /\ K.next = 1
        /\ K.per = UnitsPerFragment(n)
        /\ K.rem = Remainder(n) /\ K.threw = FALSE  OBVIOUS
  <2> HIDE DEF K
  <2> QED  BY <1>t, <1>e2, <2>1, <2>2 DEF Typing
<1>e4. broken' \in [Callers -> BOOLEAN] /\ \A x \in Callers : (x = c => broken'[x] = FALSE)
      /\ (x # c => broken'[x] = broken[x])
  BY <1>t DEF Typing, CallDoWork
<1>e5. DOMAIN times' = Callers
      /\ \A x \in Callers : times'[x] = IF x = c THEN [u \in 1 .. n |-> 0] ELSE times[x]
  BY <1>0, <1>t DEF Typing, CallDoWork, Units
<1>e6. calls' \in [Callers -> 0 .. MaxCalls]
  BY <1>t, PoolAssumption DEF Typing, CallDoWork
<1>e7. portable' = portable /\ running' = running /\ stopPending' = stopPending
      /\ threadCount' = threadCount /\ enq' = enq /\ deq' = deq /\ enqOwner' = enqOwner
      /\ deqOwner' = deqOwner /\ readyEvt' = readyEvt /\ doneEvt' = doneEvt /\ slot' = slot
      /\ wPc' = wPc /\ wSlot' = wSlot /\ sPc' = sPc /\ joined' = joined /\ wGroup' = wGroup
  BY DEF CallDoWork, flags, events, stop, history, CGoto
<1>fA. \A x \in Callers : Active(x)' <=> Active(x)
  BY <1>0, <1>t, <1>e1, <1>e2, <1>e3, <1>e4, <1>e5, <1>e6, <1>e7, <1>p1, <1>p2, <1>p3 DEF Typing,
        Active, IsKeyCall
<1>fE. \A x \in Callers : Early(x)' <=> (Early(x) \/ x = c)
  BY <1>0, <1>t, <1>e1, <1>e2, <1>e3, <1>e4, <1>e5, <1>e6, <1>e7, <1>p1, <1>p2, <1>p3 DEF Typing,
        Early, IsKeyCall
<1>fW. \A y \in Workers : Working(y)' <=> Working(y)
  BY <1>0, <1>t, <1>e1, <1>e2, <1>e3, <1>e4, <1>e5, <1>e6, <1>e7, <1>p1, <1>p2, <1>p3 DEF Typing,
        Working
<1>fS. \A f, s \in Slots : Since(f, s)' <=> Since(f, s)
  BY <1>0, <1>t, <1>e1, <1>e2, <1>e3, <1>e4, <1>e5, <1>e6, <1>e7, <1>p1, <1>p2, <1>p3 DEF Typing, Since
<1>fR. \A s \in Slots : InRun(s)' <=> InRun(s)
  BY <1>0, <1>t, <1>e1, <1>e2, <1>e3, <1>e4, <1>e5, <1>e6, <1>e7, <1>p1, <1>p2, <1>p3 DEF Typing, InRun
<1>fT. \A x \in Callers : Waiting(x)' = Waiting(x)
  BY <1>0, <1>t, <1>e1, <1>e2, <1>e3, <1>e4, <1>e5, <1>e6, <1>e7, <1>p1, <1>p2, <1>p3 DEF Typing,
        Waiting
<1>fH. \A x \in Callers : Hands(x)' = Hands(x)
  <2>1. ASSUME NEW x \in Callers, NEW y \in Workers PROVE y \in Hands(x)' <=> y \in Hands(x)
    BY <1>0, <1>t, <2>1, <1>e1, <1>e2, <1>e3, <1>e4, <1>e5, <1>e6, <1>e7, <1>p1, <1>p2, <1>p3,
          <1>fW DEF Typing, Hands
  <2>2. \A x \in Callers : Hands(x)' \subseteq Workers /\ Hands(x) \subseteq Workers  BY DEF Hands
  <2> QED  BY <2>1, <2>2
<1>fU. \A s \in Slots, x \in Callers : Unprocessed(s, x)' <=> Unprocessed(s, x)
  BY <1>0, <1>t, <1>e1, <1>e2, <1>e3, <1>e4, <1>e5, <1>e6, <1>e7, <1>p1, <1>p2, <1>p3, <1>fW,
        <1>fR DEF Typing, Unprocessed
<1>x. \A x \in Callers : x # c => cPc'[x] = cPc[x] /\ broken'[x] = broken[x]
      /\ call'[x].size = call[x].size /\ call'[x].first = call[x].first
      /\ call'[x].left = call[x].left /\ call'[x].next = call[x].next /\ call'[x].per = call[x].per
      /\ call'[x].rem = call[x].rem /\ call'[x].threw = call[x].threw
  BY <1>t, <1>e1, <1>e2, <1>e3, <1>e4, <1>e5, <1>e6, <1>e7, <1>p1, <1>p2, <1>p3 DEF Typing
<1>g. \A x \in Callers : Opened(x) => Opened(x)' /\ call'[x].first = call[x].first
  BY <1>t, <1>e1, <1>e2, <1>e3, <1>e4, <1>e5, <1>e6, <1>e7, <1>p1, <1>p2, <1>p3, <1>fA DEF Typing,
        Opened, Active, IsKeyCall
<1>s. \A s \in Slots : (slot'[s].kind = slot[s].kind /\ slot'[s].owner = slot[s].owner
      /\ slot'[s].first = slot[s].first)
  BY <1>e1, <1>e2, <1>e3, <1>e4, <1>e5, <1>e6, <1>e7, <1>p1, <1>p2, <1>p3
<1>1. TypeOK'
  BY <1>0, <1>t, <1>e1, <1>e2, <1>e3, <1>e4, <1>e5, <1>e6, <1>e7, <1>p1, <1>p2, <1>p3, Flags,
        TypesKept, Constants DEF Typing
<1>2. Phases'
  BY <1>0, <1>t, <1>e1, <1>e2, <1>e3, <1>e4, <1>e5, <1>e6, <1>e7, <1>p1, <1>p2, <1>p3 DEF Typing, Phases
<1>3. Mutexes'
  BY <1>0, <1>t, <1>e1, <1>e2, <1>e3, <1>e4, <1>e5, <1>e6, <1>e7, <1>p1, <1>p2, <1>p3,
        PoolAssumption DEF Typing, Mutexes, Phases
<1>4. Division'
  <2>1. ASSUME NEW x \in Callers, x # c PROVE DivisionOf(x)'
    <3>1. Divided(call[x]) => Divided(call'[x])  BY <1>x, <2>1 DEF Divided
    <3> QED  BY <1>0, <1>x, <2>1, <3>1, <1>e7, <1>fA, <1>fE DEF Division, DivisionOf, IsKeyCall
  <2>2. DivisionOf(c)'
    <3>1. Divided(call[c])'  BY <1>p3, <1>e2
    <3> HIDE DEF K
    <3> QED  BY <1>0, <1>t, <3>1, <1>e1, <1>e2, <1>e3, <1>e4, <1>e5, <1>e6, <1>e7, <1>p1, <1>p2, <1>p3,
          <1>fA, <1>fE DEF DivisionOf, IsKeyCall
  <2> QED  BY <2>1, <2>2 DEF Division
<1>5. Groups'
  <2>1. ASSUME NEW x \in Callers, x # c PROVE GroupOf(x)'
    BY <1>0, <1>t, <1>x, <2>1, <1>e2, <1>e7, <1>p1, <1>p2, <1>p3, <1>fA, <1>fE DEF Typing, Groups,
          GroupOf, OwnsFirst, Opened, IsFree, Mutexes, Division, DivisionOf, Active, IsKeyCall
  <2>2. GroupOf(c)'
    BY <1>0, <1>t, <1>e1, <1>e2, <1>e3, <1>e4, <1>e5, <1>e6, <1>e7, <1>p1, <1>p2, <1>p3, <1>fA,
          <1>fE DEF Typing, Groups, GroupOf, OwnsFirst, Opened, IsFree, Mutexes, Division, DivisionOf,
          Active, IsKeyCall
  <2> QED  BY <2>1, <2>2 DEF Groups
<1>6. Members'
  <2>1. ASSUME NEW s \in Slots, OfGroup(s) PROVE OfGroup(s)'
    BY <1>t, <2>1, <1>g, <1>s, <1>fS DEF Typing, OfGroup
  <2>2. \A s \in Slots : slot'[s].state = "ready" => slot[s].state = "ready"  BY <1>t, <1>e1, <1>e2,
        <1>e3, <1>e4, <1>e5, <1>e6, <1>e7, <1>p1, <1>p2, <1>p3 DEF Typing
  <2>3. \A y \in Workers : Working(y)' => wSlot'[y] = wSlot[y] /\ OfGroup(wSlot[y])
    BY <1>0, <1>t, <1>fW, <1>e1, <1>e2, <1>e3, <1>e4, <1>e5, <1>e6, <1>e7, <1>p1, <1>p2,
          <1>p3 DEF Typing, Members
  <2>4. \A s \in Slots : slot'[s].state = "ready" => OfGroup(s)'  BY <1>0, <2>1, <2>2 DEF Members
  <2>5. \A y \in Workers : Working(y)' => OfGroup(wSlot[y])'  BY <1>t, <1>fW, <2>1, <2>3 DEF Typing
  <2> QED  BY <2>4, <2>5 DEF Members
<1>7. Holding'
  <2>1. ASSUME NEW y \in Workers, Working(y)' PROVE Held(y)'
    BY <1>0, <1>t, <2>1, <1>e1, <1>e2, <1>e3, <1>e4, <1>e5, <1>e6, <1>e7, <1>p1, <1>p2, <1>p3,
          <1>fW DEF Typing, Holding, Held, Mutexes
  <2>2. \A y, z \in Workers : Working(y)' /\ Working(z)' /\ wSlot'[y] = wSlot'[z] => y = z
    BY <1>0, <1>t, <1>e1, <1>e2, <1>e3, <1>e4, <1>e5, <1>e6, <1>e7, <1>p1, <1>p2, <1>p3,
          <1>fW DEF Typing, Holding
  <2> QED  BY <2>1, <2>2 DEF Holding
<1>8. Counted'
  <2>1. ASSUME NEW x \in Callers, Active(x)' PROVE CountOf(x)'
    <3>1. Active(x)  BY <2>1, <1>fA
    <3>2. call'[x].left = call[x].left /\ call'[x].first = call[x].first  BY <1>t, <2>1, <3>1, <1>e1,
          <1>e2, <1>e3, <1>e4, <1>e5, <1>e6, <1>e7, <1>p1, <1>p2, <1>p3, <1>fA DEF Typing
    <3>3. slot'[call[x].first].count = slot[call[x].first].count  BY <1>t, <1>e1, <1>e2, <1>e3, <1>e4,
          <1>e5, <1>e6, <1>e7, <1>p1, <1>p2, <1>p3 DEF Typing
    <3> QED  BY <1>0, <3>1, <3>2, <3>3, <1>fT, <1>fH DEF Counted, CountOf
  <2> QED  BY <2>1 DEF Counted
<1>9. Completion'
  <2>1. ASSUME NEW s \in Slots, slot'[s].completed PROVE EventOf(s)'
    BY <1>0, <1>t, <2>1, <1>g, <1>s, <1>e2, <1>e7, <1>p1, <1>p2, <1>p3 DEF Typing, Completion, EventOf
  <2>2. ASSUME NEW y \in Workers, wPc'[y] = "signalItem" PROVE slot'[wGroup'[y]].count = 0
        /\ ~slot'[wGroup'[y]].completed
    BY <1>0, <1>t, <2>2, <1>e2, <1>e7, <1>p1, <1>p2, <1>p3 DEF Typing, Completion
  <2>3. \A y, z \in Workers : wPc'[y] = "signalItem" /\ wPc'[z] = "signalItem"
        /\ wGroup'[y] = wGroup'[z] => y = z
    BY <1>0, <1>t, <1>e2, <1>e7, <1>p1, <1>p2, <1>p3 DEF Typing, Completion
  <2> QED  BY <2>1, <2>2, <2>3 DEF Completion
<1>10. Units'
  <2>1. DOMAIN times' = Callers  BY <1>0, <1>e1, <1>e2, <1>e3, <1>e4, <1>e5, <1>e6, <1>e7, <1>p1,
        <1>p2, <1>p3 DEF Units
  <2>2. ASSUME NEW x \in Callers, x # c, Early(x)' \/ Active(x)' PROVE UnitsOf(x)'
    <3>1. (Early(x) \/ Active(x)) /\ x # c BY <2>2, <1>t, <1>e1, <1>e2, <1>e3, <1>e4, <1>e5, <1>e6,
          <1>e7, <1>p1, <1>p2, <1>p3, <1>fA, <1>fE DEF Typing
    <3>2. call'[x].size = call[x].size /\ call'[x].next = call[x].next /\ times'[x] = times[x]
          BY <1>e1, <1>e2, <1>e3, <1>e4, <1>e5, <1>e6, <1>e7, <1>p1, <1>p2, <1>p3, <3>1 DEF Early,
          Active, IsKeyCall
    <3>3. \A s \in Slots : Unprocessed(s, x) => Unprocessed(s, x)' /\ slot'[s].lo = slot[s].lo
          /\ slot'[s].hi = slot[s].hi
      BY <1>e1, <1>e2, <1>e3, <1>e4, <1>e5, <1>e6, <1>e7, <1>p1, <1>p2, <1>p3, <1>fU
    <3>4. UnitsOf(x)  BY <1>0, <3>1 DEF Units
    <3>5. \A u \in 1 .. call[x].size : Pending(x, u) => Pending(x, u)'  BY <3>3 DEF Pending
    <3> QED  BY <3>2, <3>4, <3>5 DEF UnitsOf
  <2>3. ASSUME NEW x \in Callers, IsKeyCall(x)', cPc'[x] # "idle" PROVE DOMAIN times'[x] = {}
    <3>1. x # c  BY <1>e3, <1>p2, <2>3 DEF IsKeyCall
    <3> QED  BY <1>0, <1>x, <1>e5, <2>3, <3>1 DEF Units, IsKeyCall
  <2>4. ASSUME NEW x \in Callers, cPc'[x] \in {"free", "signal", "idle"} PROVE AllOnce(x)'
    <3>1. x # c  BY <1>t, <1>e1, <2>4 DEF Typing
    <3>2. AllOnce(x) /\ times'[x] = times[x]  BY <1>0, <1>x, <1>e5, <2>4, <3>1 DEF Units
    <3> QED  BY <3>2 DEF AllOnce
  <2>5. Early(c)' \/ Active(c)' => UnitsOf(c)'
    BY <1>e1, <1>e2, <1>e3, <1>e4, <1>e5, <1>e6, <1>e7, <1>p1, <1>p2, <1>p3, <1>fA, <1>fE DEF UnitsOf
  <2>6. \A x \in Callers : Early(x)' \/ Active(x)' => UnitsOf(x)'  BY <2>2, <2>5
  <2> QED  BY <2>1, <2>3, <2>4, <2>6 DEF Units
<1>11. Fragments'
  <2>1. ASSUME NEW x \in Callers, Active(x)'
        PROVE  /\ \A s \in Slots : Unprocessed(s, x)' => FragmentOfCall(s, x)'
               /\ \A s, t \in Slots : Unprocessed(s, x)' /\ Unprocessed(t, x)' /\ s # t => Apart(s, t)'
    <3>0. Active(x) \/ Early(x)  BY <2>1, <1>fA, <1>e1, <1>e2, <1>e3, <1>e4, <1>e5, <1>e6, <1>e7,
          <1>p1, <1>p2, <1>p3 DEF Early
    <3>1. \A s \in Slots : Unprocessed(s, x) => Active(x)
      BY <1>0, <1>t DEF Typing, Unprocessed, InRun, Working, Members, OfGroup, Opened
    <3>2. call'[x].next = call[x].next /\ times'[x] = times[x]  BY <2>1, <3>0, <1>fA, <1>e1, <1>e2,
          <1>e3, <1>e4, <1>e5, <1>e6, <1>e7, <1>p1, <1>p2, <1>p3
    <3>3. \A s \in Slots : Unprocessed(s, x) => slot'[s].lo = slot[s].lo
          /\ slot'[s].hi = slot[s].hi  BY <1>e1, <1>e2, <1>e3, <1>e4, <1>e5, <1>e6, <1>e7, <1>p1,
          <1>p2, <1>p3
    <3>4. \A s \in Slots : Unprocessed(s, x)' => Unprocessed(s, x)  BY <1>fU
    <3>5. \A s \in Slots : Unprocessed(s, x) => FragmentOfCall(s, x)  BY <1>0, <3>1 DEF Fragments
    <3>6. \A s, t \in Slots : Unprocessed(s, x) /\ Unprocessed(t, x) /\ s # t => Apart(s, t)  BY <1>0,
          <3>1 DEF Fragments
    <3>7. \A s \in Slots : Unprocessed(s, x)' => FragmentOfCall(s, x)'  BY <3>2, <3>3, <3>4,
          <3>5 DEF FragmentOfCall
    <3>8. \A s, t \in Slots : Unprocessed(s, x)' /\ Unprocessed(t, x)' /\ s # t => Apart(s, t)'
          BY <3>3, <3>4, <3>6 DEF Apart
    <3> QED  BY <3>7, <3>8
  <2> QED  BY <2>1 DEF Fragments
<1>12. Exceptions'
  <2>1. ASSUME NEW x \in Callers, x # c PROVE ExceptionOf(x)'
    BY <1>0, <1>t, <1>x, <2>1, <1>e2, <1>e7, <1>p1, <1>p2, <1>p3, <1>fA, <1>fE DEF Typing, Exceptions,
          ExceptionOf, IsKeyCall
  <2>2. ExceptionOf(c)'
    BY <1>0, <1>t, <1>e1, <1>e2, <1>e3, <1>e4, <1>e5, <1>e6, <1>e7, <1>p1, <1>p2, <1>p3, <1>fA,
          <1>fE DEF Typing, Exceptions, ExceptionOf, IsKeyCall
  <2> QED  BY <2>1, <2>2 DEF Exceptions
<1> QED  BY <1>1, <1>2, <1>3, <1>4, <1>5, <1>6, <1>7, <1>8, <1>9, <1>10, <1>11, <1>12 DEF PoolInv

\* BeginKeyDerivation is called.
LEMMA CallBeginKept ==
  ASSUME NEW c \in Callers, PoolInv, CallBegin(c)
  PROVE  PoolInv'
<1>0. TypeOK /\ Phases /\ Mutexes /\ Division /\ Groups /\ Members /\ Holding /\ Counted
      /\ Completion /\ Units /\ Fragments /\ Exceptions  BY DEF PoolInv
<1>t. Typing  BY <1>0, Typed
<1>p1. cPc[c] = "idle" /\ ~Active(c) /\ ~Early(c)
  BY <1>0, <1>t DEF CallBegin, Active, Early
<1>e1. cPc' \in [Callers -> CallStates]
      /\ \A x \in Callers : cPc'[x] = (IF x = c THEN "lock" ELSE cPc[x])
  BY <1>t, CallerGoes DEF Typing, CallStates, CallBegin
<1>e2. call' \in [Callers -> CallRecord]
      /\ \A x \in Callers : call'[x].size = (IF x = c THEN 0 ELSE call[x].size)
      /\ call'[x].first = (IF x = c THEN 0 ELSE call[x].first)
      /\ call'[x].left = (IF x = c THEN 0 ELSE call[x].left)
      /\ call'[x].next = (IF x = c THEN 1 ELSE call[x].next)
      /\ call'[x].per = (IF x = c THEN 0 ELSE call[x].per)
      /\ call'[x].rem = (IF x = c THEN 0 ELSE call[x].rem) /\ (x = c => call'[x].threw = FALSE)
      /\ (x # c => call'[x].threw = call[x].threw)
  BY <1>t, Constants DEF Typing, CallBegin, IdleCall, CallRecord
<1>e3. broken' \in [Callers -> BOOLEAN] /\ \A x \in Callers : (x = c => broken'[x] = FALSE)
      /\ (x # c => broken'[x] = broken[x])
  BY <1>t DEF Typing, CallBegin
<1>e4. DOMAIN times' = Callers /\ \A x \in Callers : times'[x] = IF x = c THEN <<>> ELSE times[x]
  BY <1>0, <1>t DEF Typing, CallBegin, Units
<1>e5. calls' \in [Callers -> 0 .. MaxCalls] /\ cPc[c] = "idle" /\ sPc = "idle"
  BY <1>t, PoolAssumption DEF Typing, CallBegin
<1>e6. portable' = portable /\ running' = running /\ stopPending' = stopPending
      /\ threadCount' = threadCount /\ enq' = enq /\ deq' = deq /\ enqOwner' = enqOwner
      /\ deqOwner' = deqOwner /\ readyEvt' = readyEvt /\ doneEvt' = doneEvt /\ slot' = slot
      /\ wPc' = wPc /\ wSlot' = wSlot /\ sPc' = sPc /\ joined' = joined /\ wGroup' = wGroup
  BY DEF CallBegin, flags, events, stop, history
<1>fA. \A x \in Callers : Active(x)' <=> Active(x)
  BY <1>0, <1>t, <1>e1, <1>e2, <1>e3, <1>e4, <1>e5, <1>e6, <1>p1 DEF Typing, Active, IsKeyCall
<1>fE. \A x \in Callers : Early(x)' <=> Early(x)
  BY <1>0, <1>t, <1>e1, <1>e2, <1>e3, <1>e4, <1>e5, <1>e6, <1>p1 DEF Typing, Early, IsKeyCall
<1>fW. \A y \in Workers : Working(y)' <=> Working(y)
  BY <1>0, <1>t, <1>e1, <1>e2, <1>e3, <1>e4, <1>e5, <1>e6, <1>p1 DEF Typing, Working
<1>fS. \A f, s \in Slots : Since(f, s)' <=> Since(f, s)
  BY <1>0, <1>t, <1>e1, <1>e2, <1>e3, <1>e4, <1>e5, <1>e6, <1>p1 DEF Typing, Since
<1>fR. \A s \in Slots : InRun(s)' <=> InRun(s)
  BY <1>0, <1>t, <1>e1, <1>e2, <1>e3, <1>e4, <1>e5, <1>e6, <1>p1 DEF Typing, InRun
<1>fT. \A x \in Callers : Waiting(x)' = Waiting(x)
  BY <1>0, <1>t, <1>e1, <1>e2, <1>e3, <1>e4, <1>e5, <1>e6, <1>p1 DEF Typing, Waiting
<1>fH. \A x \in Callers : Hands(x)' = Hands(x)
  <2>1. ASSUME NEW x \in Callers, NEW y \in Workers PROVE y \in Hands(x)' <=> y \in Hands(x)
    BY <1>0, <1>t, <2>1, <1>e1, <1>e2, <1>e3, <1>e4, <1>e5, <1>e6, <1>p1, <1>fW DEF Typing, Hands
  <2>2. \A x \in Callers : Hands(x)' \subseteq Workers /\ Hands(x) \subseteq Workers  BY DEF Hands
  <2> QED  BY <2>1, <2>2
<1>fU. \A s \in Slots, x \in Callers : Unprocessed(s, x)' <=> Unprocessed(s, x)
  BY <1>0, <1>t, <1>e1, <1>e2, <1>e3, <1>e4, <1>e5, <1>e6, <1>p1, <1>fW, <1>fR DEF Typing, Unprocessed
<1>x. \A x \in Callers : x # c => cPc'[x] = cPc[x] /\ broken'[x] = broken[x]
      /\ call'[x].size = call[x].size /\ call'[x].first = call[x].first
      /\ call'[x].left = call[x].left /\ call'[x].next = call[x].next /\ call'[x].per = call[x].per
      /\ call'[x].rem = call[x].rem /\ call'[x].threw = call[x].threw
  BY <1>t, <1>e1, <1>e2, <1>e3, <1>e4, <1>e5, <1>e6, <1>p1 DEF Typing
<1>g. \A x \in Callers : Opened(x) => Opened(x)' /\ call'[x].first = call[x].first
  BY <1>t, <1>e1, <1>e2, <1>e3, <1>e4, <1>e5, <1>e6, <1>p1, <1>fA DEF Typing, Opened, Active, IsKeyCall
<1>s. \A s \in Slots : (slot'[s].kind = slot[s].kind /\ slot'[s].owner = slot[s].owner
      /\ slot'[s].first = slot[s].first)
  BY <1>e1, <1>e2, <1>e3, <1>e4, <1>e5, <1>e6, <1>p1
<1>1. TypeOK'
  BY <1>0, <1>t, <1>e1, <1>e2, <1>e3, <1>e4, <1>e5, <1>e6, <1>p1, Flags, TypesKept, Constants DEF Typing
<1>2. Phases'
  BY <1>0, <1>t, <1>e1, <1>e2, <1>e3, <1>e4, <1>e5, <1>e6, <1>p1 DEF Typing, Phases
<1>3. Mutexes'
  BY <1>0, <1>t, <1>e1, <1>e2, <1>e3, <1>e4, <1>e5, <1>e6, <1>p1, PoolAssumption DEF Typing, Mutexes,
        Phases
<1>4. Division'
  <2>1. ASSUME NEW x \in Callers, x # c PROVE DivisionOf(x)'
    <3>1. Divided(call[x]) => Divided(call'[x])  BY <1>x, <2>1 DEF Divided
    <3> QED  BY <1>0, <1>x, <2>1, <3>1, <1>e6, <1>fA, <1>fE DEF Division, DivisionOf, IsKeyCall
  <2>2. DivisionOf(c)'
    BY <1>0, <1>t, <1>e1, <1>e2, <1>e3, <1>e4, <1>e5, <1>e6, <1>p1, <1>fA, <1>fE DEF Typing, Division,
          DivisionOf, Divided, IsKeyCall, Mutexes, Active, Early
  <2> QED  BY <2>1, <2>2 DEF Division
<1>5. Groups'
  <2>1. ASSUME NEW x \in Callers, x # c PROVE GroupOf(x)'
    BY <1>0, <1>t, <1>x, <2>1, <1>e6, <1>p1, <1>fA, <1>fE DEF Typing, Groups, GroupOf, OwnsFirst,
          Opened, IsFree, Mutexes, Division, DivisionOf, Active, IsKeyCall
  <2>2. GroupOf(c)'
    BY <1>0, <1>t, <1>e1, <1>e2, <1>e3, <1>e4, <1>e5, <1>e6, <1>p1, <1>fA, <1>fE DEF Typing, Groups,
          GroupOf, OwnsFirst, Opened, IsFree, Mutexes, Division, DivisionOf, Active, IsKeyCall
  <2> QED  BY <2>1, <2>2 DEF Groups
<1>6. Members'
  <2>1. ASSUME NEW s \in Slots, OfGroup(s) PROVE OfGroup(s)'
    BY <1>t, <2>1, <1>g, <1>s, <1>fS DEF Typing, OfGroup
  <2>2. \A s \in Slots : slot'[s].state = "ready" => slot[s].state = "ready"  BY <1>t, <1>e1, <1>e2,
        <1>e3, <1>e4, <1>e5, <1>e6, <1>p1 DEF Typing
  <2>3. \A y \in Workers : Working(y)' => wSlot'[y] = wSlot[y] /\ OfGroup(wSlot[y])
    BY <1>0, <1>t, <1>fW, <1>e1, <1>e2, <1>e3, <1>e4, <1>e5, <1>e6, <1>p1 DEF Typing, Members
  <2>4. \A s \in Slots : slot'[s].state = "ready" => OfGroup(s)'  BY <1>0, <2>1, <2>2 DEF Members
  <2>5. \A y \in Workers : Working(y)' => OfGroup(wSlot[y])'  BY <1>t, <1>fW, <2>1, <2>3 DEF Typing
  <2> QED  BY <2>4, <2>5 DEF Members
<1>7. Holding'
  <2>1. ASSUME NEW y \in Workers, Working(y)' PROVE Held(y)'
    BY <1>0, <1>t, <2>1, <1>e1, <1>e2, <1>e3, <1>e4, <1>e5, <1>e6, <1>p1, <1>fW DEF Typing, Holding,
          Held, Mutexes
  <2>2. \A y, z \in Workers : Working(y)' /\ Working(z)' /\ wSlot'[y] = wSlot'[z] => y = z
    BY <1>0, <1>t, <1>e1, <1>e2, <1>e3, <1>e4, <1>e5, <1>e6, <1>p1, <1>fW DEF Typing, Holding
  <2> QED  BY <2>1, <2>2 DEF Holding
<1>8. Counted'
  <2>1. ASSUME NEW x \in Callers, Active(x)' PROVE CountOf(x)'
    <3>1. Active(x)  BY <2>1, <1>fA
    <3>2. call'[x].left = call[x].left /\ call'[x].first = call[x].first  BY <1>t, <2>1, <3>1, <1>e1,
          <1>e2, <1>e3, <1>e4, <1>e5, <1>e6, <1>p1, <1>fA DEF Typing
    <3>3. slot'[call[x].first].count = slot[call[x].first].count  BY <1>t, <1>e1, <1>e2, <1>e3, <1>e4,
          <1>e5, <1>e6, <1>p1 DEF Typing
    <3> QED  BY <1>0, <3>1, <3>2, <3>3, <1>fT, <1>fH DEF Counted, CountOf
  <2> QED  BY <2>1 DEF Counted
<1>9. Completion'
  <2>1. ASSUME NEW s \in Slots, slot'[s].completed PROVE EventOf(s)'
    BY <1>0, <1>t, <2>1, <1>g, <1>s, <1>e6, <1>p1 DEF Typing, Completion, EventOf
  <2>2. ASSUME NEW y \in Workers, wPc'[y] = "signalItem" PROVE slot'[wGroup'[y]].count = 0
        /\ ~slot'[wGroup'[y]].completed
    BY <1>0, <1>t, <2>2, <1>e6, <1>p1 DEF Typing, Completion
  <2>3. \A y, z \in Workers : wPc'[y] = "signalItem" /\ wPc'[z] = "signalItem"
        /\ wGroup'[y] = wGroup'[z] => y = z
    BY <1>0, <1>t, <1>e6, <1>p1 DEF Typing, Completion
  <2> QED  BY <2>1, <2>2, <2>3 DEF Completion
<1>10. Units'
  <2>1. DOMAIN times' = Callers  BY <1>0, <1>e1, <1>e2, <1>e3, <1>e4, <1>e5, <1>e6, <1>p1 DEF Units
  <2>2. ASSUME NEW x \in Callers, Early(x)' \/ Active(x)' PROVE UnitsOf(x)'
    <3>1. (Early(x) \/ Active(x))  BY <2>2, <1>t, <1>e1, <1>e2, <1>e3, <1>e4, <1>e5, <1>e6, <1>p1,
          <1>fA, <1>fE DEF Typing
    <3>2. call'[x].size = call[x].size /\ call'[x].next = call[x].next /\ times'[x] = times[x]
          BY <1>e1, <1>e2, <1>e3, <1>e4, <1>e5, <1>e6, <1>p1, <3>1 DEF Early, Active, IsKeyCall
    <3>3. \A s \in Slots : Unprocessed(s, x) => Unprocessed(s, x)' /\ slot'[s].lo = slot[s].lo
          /\ slot'[s].hi = slot[s].hi
      BY <1>e1, <1>e2, <1>e3, <1>e4, <1>e5, <1>e6, <1>p1, <1>fU
    <3>4. UnitsOf(x)  BY <1>0, <3>1 DEF Units
    <3>5. \A u \in 1 .. call[x].size : Pending(x, u) => Pending(x, u)'  BY <3>3 DEF Pending
    <3> QED  BY <3>2, <3>4, <3>5 DEF UnitsOf
  <2>3. ASSUME NEW x \in Callers, IsKeyCall(x)', cPc'[x] # "idle" PROVE DOMAIN times'[x] = {}
    BY <1>0, <1>e1, <1>e2, <1>e3, <1>e4, <1>e5, <1>e6, <1>p1, <2>3 DEF Units, IsKeyCall
  <2>4. ASSUME NEW x \in Callers, cPc'[x] \in {"free", "signal", "idle"} PROVE AllOnce(x)'
    BY <1>0, <1>e1, <1>e2, <1>e3, <1>e4, <1>e5, <1>e6, <1>p1, <2>4 DEF Units, IsKeyCall, AllOnce
  <2> QED  BY <2>1, <2>2, <2>3, <2>4 DEF Units
<1>11. Fragments'
  <2>1. ASSUME NEW x \in Callers, Active(x)'
        PROVE  /\ \A s \in Slots : Unprocessed(s, x)' => FragmentOfCall(s, x)'
               /\ \A s, t \in Slots : Unprocessed(s, x)' /\ Unprocessed(t, x)' /\ s # t => Apart(s, t)'
    <3>0. Active(x) \/ Early(x)  BY <2>1, <1>fA, <1>e1, <1>e2, <1>e3, <1>e4, <1>e5, <1>e6,
          <1>p1 DEF Early
    <3>1. \A s \in Slots : Unprocessed(s, x) => Active(x)
      BY <1>0, <1>t DEF Typing, Unprocessed, InRun, Working, Members, OfGroup, Opened
    <3>2. call'[x].next = call[x].next /\ times'[x] = times[x]  BY <2>1, <3>0, <1>fA, <1>e1, <1>e2,
          <1>e3, <1>e4, <1>e5, <1>e6, <1>p1
    <3>3. \A s \in Slots : Unprocessed(s, x) => slot'[s].lo = slot[s].lo
          /\ slot'[s].hi = slot[s].hi  BY <1>e1, <1>e2, <1>e3, <1>e4, <1>e5, <1>e6, <1>p1
    <3>4. \A s \in Slots : Unprocessed(s, x)' => Unprocessed(s, x)  BY <1>fU
    <3>5. \A s \in Slots : Unprocessed(s, x) => FragmentOfCall(s, x)  BY <1>0, <3>1 DEF Fragments
    <3>6. \A s, t \in Slots : Unprocessed(s, x) /\ Unprocessed(t, x) /\ s # t => Apart(s, t)  BY <1>0,
          <3>1 DEF Fragments
    <3>7. \A s \in Slots : Unprocessed(s, x)' => FragmentOfCall(s, x)'  BY <3>2, <3>3, <3>4,
          <3>5 DEF FragmentOfCall
    <3>8. \A s, t \in Slots : Unprocessed(s, x)' /\ Unprocessed(t, x)' /\ s # t => Apart(s, t)'
          BY <3>3, <3>4, <3>6 DEF Apart
    <3> QED  BY <3>7, <3>8
  <2> QED  BY <2>1 DEF Fragments
<1>12. Exceptions'
  <2>1. ASSUME NEW x \in Callers, x # c PROVE ExceptionOf(x)'
    BY <1>0, <1>t, <1>x, <2>1, <1>e6, <1>p1, <1>fA, <1>fE DEF Typing, Exceptions, ExceptionOf, IsKeyCall
  <2>2. ExceptionOf(c)'
    <3>1. Early(c)' \/ (IsKeyCall(c)' /\ cPc'[c] # "idle") => broken'[c] = FALSE
          /\ call'[c].threw = FALSE
      BY <1>0, <1>t, <1>e1, <1>e2, <1>e3, <1>e4, <1>e5, <1>e6, <1>p1, <1>fE DEF Typing, Exceptions,
            ExceptionOf, IsKeyCall
    <3>2. Active(c)' => slot'[call'[c].first].exception = broken'[c]
      BY <1>0, <1>t, <1>e1, <1>e2, <1>e3, <1>e4, <1>e5, <1>e6, <1>p1, <1>fA DEF Typing, Exceptions,
            ExceptionOf, IsKeyCall
    <3>3. cPc'[c] \in {"free", "signal", "idle"} => call'[c].threw = broken'[c]
      BY <1>0, <1>t, <1>e1, <1>e2, <1>e3, <1>e4, <1>e5, <1>e6, <1>p1 DEF Typing, Exceptions,
            ExceptionOf, IsKeyCall
    <3> QED  BY <3>1, <3>2, <3>3 DEF ExceptionOf
  <2> QED  BY <2>1, <2>2 DEF Exceptions
<1> QED  BY <1>1, <1>2, <1>3, <1>4, <1>5, <1>6, <1>7, <1>8, <1>9, <1>10, <1>11, <1>12 DEF PoolInv

\* EnqueueMutex is taken.
LEMMA LockKept ==
  ASSUME NEW c \in Callers, PoolInv, Lock(c)
  PROVE  PoolInv'
<1>0. TypeOK /\ Phases /\ Mutexes /\ Division /\ Groups /\ Members /\ Holding /\ Counted
      /\ Completion /\ Units /\ Fragments /\ Exceptions  BY DEF PoolInv
<1>t. Typing  BY <1>0, Typed
<1>p1. cPc[c] = "lock" /\ ~Active(c)
  BY <1>0, <1>t DEF Lock, Active
<1>e1. cPc' \in [Callers -> CallStates]
      /\ \A x \in Callers : cPc'[x] = (IF x = c THEN IF call[c].size = 0 THEN "next" ELSE "first" ELSE cPc[x])
  BY <1>t, CallerGoes DEF Typing, CallStates, Lock, CGoto, IsKeyCall
<1>e2. call' \in [Callers -> CallRecord] /\ \A x \in Callers : call'[x].size = call[x].size
      /\ call'[x].first = (IF x = c THEN enq ELSE call[x].first) /\ call'[x].left = call[x].left
      /\ call'[x].next = call[x].next /\ call'[x].per = call[x].per /\ call'[x].rem = call[x].rem
      /\ call'[x].threw = call[x].threw
  BY <1>t DEF Typing, Lock, CallRecord
<1>e3. enqOwner = NoOne /\ enqOwner' = c /\ cPc[c] = "lock"
  BY DEF Lock
<1>e4. portable' = portable /\ running' = running /\ stopPending' = stopPending
      /\ threadCount' = threadCount /\ enq' = enq /\ deq' = deq /\ deqOwner' = deqOwner
      /\ readyEvt' = readyEvt /\ doneEvt' = doneEvt /\ slot' = slot /\ wPc' = wPc /\ wSlot' = wSlot
      /\ sPc' = sPc /\ joined' = joined /\ wGroup' = wGroup /\ times' = times /\ broken' = broken
      /\ calls' = calls
  BY DEF Lock, flags, events, stop, history, CGoto, IsKeyCall
<1>fA. \A x \in Callers : Active(x)' <=> Active(x)
  BY <1>0, <1>t, <1>e1, <1>e2, <1>e3, <1>e4, <1>p1 DEF Typing, Active, IsKeyCall
<1>fE. \A x \in Callers : Early(x)' <=> Early(x)
  BY <1>0, <1>t, <1>e1, <1>e2, <1>e3, <1>e4, <1>p1 DEF Typing, Early, IsKeyCall
<1>fW. \A y \in Workers : Working(y)' <=> Working(y)
  BY <1>0, <1>t, <1>e1, <1>e2, <1>e3, <1>e4, <1>p1 DEF Typing, Working
<1>fS. \A f, s \in Slots : Since(f, s)' <=> Since(f, s)
  BY <1>0, <1>t, <1>e1, <1>e2, <1>e3, <1>e4, <1>p1 DEF Typing, Since
<1>fR. \A s \in Slots : InRun(s)' <=> InRun(s)
  BY <1>0, <1>t, <1>e1, <1>e2, <1>e3, <1>e4, <1>p1 DEF Typing, InRun
<1>fT. \A x \in Callers : Waiting(x)' = Waiting(x)
  BY <1>0, <1>t, <1>e1, <1>e2, <1>e3, <1>e4, <1>p1 DEF Typing, Waiting
<1>fH. \A x \in Callers : Hands(x)' = Hands(x)
  <2>1. ASSUME NEW x \in Callers, NEW y \in Workers PROVE y \in Hands(x)' <=> y \in Hands(x)
    BY <1>0, <1>t, <2>1, <1>e1, <1>e2, <1>e3, <1>e4, <1>p1, <1>fW DEF Typing, Hands
  <2>2. \A x \in Callers : Hands(x)' \subseteq Workers /\ Hands(x) \subseteq Workers  BY DEF Hands
  <2> QED  BY <2>1, <2>2
<1>fU. \A s \in Slots, x \in Callers : Unprocessed(s, x)' <=> Unprocessed(s, x)
  BY <1>0, <1>t, <1>e1, <1>e2, <1>e3, <1>e4, <1>p1, <1>fW, <1>fR DEF Typing, Unprocessed
<1>x. \A x \in Callers : x # c => cPc'[x] = cPc[x] /\ broken'[x] = broken[x]
      /\ call'[x].size = call[x].size /\ call'[x].first = call[x].first
      /\ call'[x].left = call[x].left /\ call'[x].next = call[x].next /\ call'[x].per = call[x].per
      /\ call'[x].rem = call[x].rem /\ call'[x].threw = call[x].threw
  BY <1>t, <1>e1, <1>e2, <1>e3, <1>e4, <1>p1 DEF Typing
<1>g. \A x \in Callers : Opened(x) => Opened(x)' /\ call'[x].first = call[x].first
  BY <1>t, <1>e1, <1>e2, <1>e3, <1>e4, <1>p1, <1>fA DEF Typing, Opened, Active, IsKeyCall
<1>s. \A s \in Slots : (slot'[s].kind = slot[s].kind /\ slot'[s].owner = slot[s].owner
      /\ slot'[s].first = slot[s].first)
  BY <1>e1, <1>e2, <1>e3, <1>e4, <1>p1
<1>1. TypeOK'
  BY <1>0, <1>t, <1>e1, <1>e2, <1>e3, <1>e4, <1>p1, Flags, TypesKept, Constants DEF Typing
<1>2. Phases'
  BY <1>0, <1>t, <1>e1, <1>e2, <1>e3, <1>e4, <1>p1 DEF Typing, Phases
<1>3. Mutexes'
  BY <1>0, <1>t, <1>e1, <1>e2, <1>e3, <1>e4, <1>p1, PoolAssumption DEF Typing, Mutexes, Phases
<1>4. Division'
  <2>1. ASSUME NEW x \in Callers, x # c PROVE DivisionOf(x)'
    <3>1. Divided(call[x]) => Divided(call'[x])  BY <1>x, <2>1 DEF Divided
    <3> QED  BY <1>0, <1>x, <2>1, <3>1, <1>e4, <1>fA, <1>fE DEF Division, DivisionOf, IsKeyCall
  <2>2. DivisionOf(c)'
    BY <1>0, <1>t, <1>e1, <1>e2, <1>e3, <1>e4, <1>p1, <1>fA, <1>fE DEF Typing, Division, DivisionOf,
          Divided, IsKeyCall, Mutexes, Active, Early
  <2> QED  BY <2>1, <2>2 DEF Division
<1>5. Groups'
  <2>1. ASSUME NEW x \in Callers, x # c PROVE GroupOf(x)'
    BY <1>0, <1>t, <1>x, <2>1, <1>e3, <1>e4, <1>p1, <1>fA, <1>fE DEF Typing, Groups, GroupOf,
          OwnsFirst, Opened, IsFree, Mutexes, Division, DivisionOf, Active, IsKeyCall
  <2>2. GroupOf(c)'
    BY <1>0, <1>t, <1>e1, <1>e2, <1>e3, <1>e4, <1>p1, <1>fA, <1>fE DEF Typing, Groups, GroupOf,
          OwnsFirst, Opened, IsFree, Mutexes, Division, DivisionOf, Active, IsKeyCall
  <2> QED  BY <2>1, <2>2 DEF Groups
<1>6. Members'
  <2>1. ASSUME NEW s \in Slots, OfGroup(s) PROVE OfGroup(s)'
    BY <1>t, <2>1, <1>g, <1>s, <1>fS DEF Typing, OfGroup
  <2>2. \A s \in Slots : slot'[s].state = "ready" => slot[s].state = "ready"  BY <1>t, <1>e1, <1>e2,
        <1>e3, <1>e4, <1>p1 DEF Typing
  <2>3. \A y \in Workers : Working(y)' => wSlot'[y] = wSlot[y] /\ OfGroup(wSlot[y])
    BY <1>0, <1>t, <1>fW, <1>e1, <1>e2, <1>e3, <1>e4, <1>p1 DEF Typing, Members
  <2>4. \A s \in Slots : slot'[s].state = "ready" => OfGroup(s)'  BY <1>0, <2>1, <2>2 DEF Members
  <2>5. \A y \in Workers : Working(y)' => OfGroup(wSlot[y])'  BY <1>t, <1>fW, <2>1, <2>3 DEF Typing
  <2> QED  BY <2>4, <2>5 DEF Members
<1>7. Holding'
  <2>1. ASSUME NEW y \in Workers, Working(y)' PROVE Held(y)'
    BY <1>0, <1>t, <2>1, <1>e1, <1>e2, <1>e3, <1>e4, <1>p1, <1>fW DEF Typing, Holding, Held, Mutexes
  <2>2. \A y, z \in Workers : Working(y)' /\ Working(z)' /\ wSlot'[y] = wSlot'[z] => y = z
    BY <1>0, <1>t, <1>e1, <1>e2, <1>e3, <1>e4, <1>p1, <1>fW DEF Typing, Holding
  <2> QED  BY <2>1, <2>2 DEF Holding
<1>8. Counted'
  <2>1. ASSUME NEW x \in Callers, Active(x)' PROVE CountOf(x)'
    <3>1. Active(x)  BY <2>1, <1>fA
    <3>2. call'[x].left = call[x].left /\ call'[x].first = call[x].first  BY <1>t, <2>1, <3>1, <1>e1,
          <1>e2, <1>e3, <1>e4, <1>p1, <1>fA DEF Typing
    <3>3. slot'[call[x].first].count = slot[call[x].first].count  BY <1>t, <1>e1, <1>e2, <1>e3, <1>e4,
          <1>p1 DEF Typing
    <3> QED  BY <1>0, <3>1, <3>2, <3>3, <1>fT, <1>fH DEF Counted, CountOf
  <2> QED  BY <2>1 DEF Counted
<1>9. Completion'
  <2>1. ASSUME NEW s \in Slots, slot'[s].completed PROVE EventOf(s)'
    BY <1>0, <1>t, <2>1, <1>g, <1>s, <1>e3, <1>e4, <1>p1 DEF Typing, Completion, EventOf
  <2>2. ASSUME NEW y \in Workers, wPc'[y] = "signalItem" PROVE slot'[wGroup'[y]].count = 0
        /\ ~slot'[wGroup'[y]].completed
    BY <1>0, <1>t, <2>2, <1>e3, <1>e4, <1>p1 DEF Typing, Completion
  <2>3. \A y, z \in Workers : wPc'[y] = "signalItem" /\ wPc'[z] = "signalItem"
        /\ wGroup'[y] = wGroup'[z] => y = z
    BY <1>0, <1>t, <1>e3, <1>e4, <1>p1 DEF Typing, Completion
  <2> QED  BY <2>1, <2>2, <2>3 DEF Completion
<1>10. Units'
  <2>1. DOMAIN times' = Callers  BY <1>0, <1>e1, <1>e2, <1>e3, <1>e4, <1>p1 DEF Units
  <2>2. ASSUME NEW x \in Callers, Early(x)' \/ Active(x)' PROVE UnitsOf(x)'
    <3>1. (Early(x) \/ Active(x))  BY <2>2, <1>t, <1>e1, <1>e2, <1>e3, <1>e4, <1>p1, <1>fA,
          <1>fE DEF Typing
    <3>2. call'[x].size = call[x].size /\ call'[x].next = call[x].next /\ times'[x] = times[x]
          BY <1>e1, <1>e2, <1>e3, <1>e4, <1>p1, <3>1 DEF Early, Active, IsKeyCall
    <3>3. \A s \in Slots : Unprocessed(s, x) => Unprocessed(s, x)' /\ slot'[s].lo = slot[s].lo
          /\ slot'[s].hi = slot[s].hi
      BY <1>e1, <1>e2, <1>e3, <1>e4, <1>p1, <1>fU
    <3>4. UnitsOf(x)  BY <1>0, <3>1 DEF Units
    <3>5. \A u \in 1 .. call[x].size : Pending(x, u) => Pending(x, u)'  BY <3>3 DEF Pending
    <3> QED  BY <3>2, <3>4, <3>5 DEF UnitsOf
  <2>3. ASSUME NEW x \in Callers, IsKeyCall(x)', cPc'[x] # "idle" PROVE DOMAIN times'[x] = {}
    BY <1>0, <1>e1, <1>e2, <1>e3, <1>e4, <1>p1, <2>3 DEF Units, IsKeyCall
  <2>4. ASSUME NEW x \in Callers, cPc'[x] \in {"free", "signal", "idle"} PROVE AllOnce(x)'
    BY <1>0, <1>e1, <1>e2, <1>e3, <1>e4, <1>p1, <2>4 DEF Units, IsKeyCall, AllOnce
  <2> QED  BY <2>1, <2>2, <2>3, <2>4 DEF Units
<1>11. Fragments'
  <2>1. ASSUME NEW x \in Callers, Active(x)'
        PROVE  /\ \A s \in Slots : Unprocessed(s, x)' => FragmentOfCall(s, x)'
               /\ \A s, t \in Slots : Unprocessed(s, x)' /\ Unprocessed(t, x)' /\ s # t => Apart(s, t)'
    <3>0. Active(x) \/ Early(x)  BY <2>1, <1>fA, <1>e1, <1>e2, <1>e3, <1>e4, <1>p1 DEF Early
    <3>1. \A s \in Slots : Unprocessed(s, x) => Active(x)
      BY <1>0, <1>t DEF Typing, Unprocessed, InRun, Working, Members, OfGroup, Opened
    <3>2. call'[x].next = call[x].next /\ times'[x] = times[x]  BY <2>1, <3>0, <1>fA, <1>e1, <1>e2,
          <1>e3, <1>e4, <1>p1
    <3>3. \A s \in Slots : Unprocessed(s, x) => slot'[s].lo = slot[s].lo
          /\ slot'[s].hi = slot[s].hi  BY <1>e1, <1>e2, <1>e3, <1>e4, <1>p1
    <3>4. \A s \in Slots : Unprocessed(s, x)' => Unprocessed(s, x)  BY <1>fU
    <3>5. \A s \in Slots : Unprocessed(s, x) => FragmentOfCall(s, x)  BY <1>0, <3>1 DEF Fragments
    <3>6. \A s, t \in Slots : Unprocessed(s, x) /\ Unprocessed(t, x) /\ s # t => Apart(s, t)  BY <1>0,
          <3>1 DEF Fragments
    <3>7. \A s \in Slots : Unprocessed(s, x)' => FragmentOfCall(s, x)'  BY <3>2, <3>3, <3>4,
          <3>5 DEF FragmentOfCall
    <3>8. \A s, t \in Slots : Unprocessed(s, x)' /\ Unprocessed(t, x)' /\ s # t => Apart(s, t)'
          BY <3>3, <3>4, <3>6 DEF Apart
    <3> QED  BY <3>7, <3>8
  <2> QED  BY <2>1 DEF Fragments
<1>12. Exceptions'
  <2>1. ASSUME NEW x \in Callers, x # c PROVE ExceptionOf(x)'
    BY <1>0, <1>t, <1>x, <2>1, <1>e3, <1>e4, <1>p1, <1>fA, <1>fE DEF Typing, Exceptions, ExceptionOf,
          IsKeyCall
  <2>2. ExceptionOf(c)'
    <3>1. Early(c)' \/ (IsKeyCall(c)' /\ cPc'[c] # "idle") => broken'[c] = FALSE
          /\ call'[c].threw = FALSE
      BY <1>0, <1>t, <1>e1, <1>e2, <1>e3, <1>e4, <1>p1, <1>fE DEF Typing, Exceptions, ExceptionOf,
            IsKeyCall
    <3>2. Active(c)' => slot'[call'[c].first].exception = broken'[c]
      BY <1>0, <1>t, <1>e1, <1>e2, <1>e3, <1>e4, <1>p1, <1>fA DEF Typing, Exceptions, ExceptionOf,
            IsKeyCall
    <3>3. cPc'[c] \in {"free", "signal", "idle"} => call'[c].threw = broken'[c]
      BY <1>0, <1>t, <1>e1, <1>e2, <1>e3, <1>e4, <1>p1 DEF Typing, Exceptions, ExceptionOf, IsKeyCall
    <3> QED  BY <3>1, <3>2, <3>3 DEF ExceptionOf
  <2> QED  BY <2>1, <2>2 DEF Exceptions
<1> QED  BY <1>1, <1>2, <1>3, <1>4, <1>5, <1>6, <1>7, <1>8, <1>9, <1>10, <1>11, <1>12 DEF PoolInv

\* The count of a group is set.
LEMMA FirstFreeKept ==
  ASSUME NEW c \in Callers, PoolInv, First(c), IsFree(call[c].first)
  PROVE  PoolInv'
<1>0. TypeOK /\ Phases /\ Mutexes /\ Division /\ Groups /\ Members /\ Holding /\ Counted
      /\ Completion /\ Units /\ Fragments /\ Exceptions  BY DEF PoolInv
<1>t. Typing  BY <1>0, Typed
<1>p1. cPc[c] = "first" /\ ~IsKeyCall(c) /\ Early(c) /\ ~Active(c)
  BY <1>0, <1>t DEF First, Division, DivisionOf, Early, Active
<1>p2. slot[call[c].first].state = "free" /\ call[c].first = enq /\ call[c].next = 1
  BY <1>0, <1>t, <1>p1 DEF IsFree, Groups, GroupOf, Division, DivisionOf
<1>p3. broken[c] = FALSE
  BY <1>0, <1>t, <1>p1, <1>p2 DEF Exceptions, ExceptionOf
<1>p4. slot[call[c].first].completed => FALSE
  BY <1>0, <1>t, <1>p1, <1>p2, <1>p3 DEF Typing, Completion, EventOf, Opened, Groups, GroupOf, OwnsFirst
<1>p5. \A y \in Workers : wPc[y] = "signalItem" => wGroup[y] # call[c].first
  BY <1>0, <1>t, <1>p1, <1>p2, <1>p3, <1>p4 DEF Typing, Holding, Held, Working, Members, OfGroup,
        Groups, GroupOf, OwnsFirst
<1>p6. \A x \in Callers : Active(x) => x # c /\ call[x].next > 1 /\ call[x].first # call[c].first
  BY <1>0, <1>t, <1>p1, <1>p2, <1>p3, <1>p4, <1>p5 DEF Typing, Active, Opened, Groups, GroupOf,
        OwnsFirst, Mutexes, Division, DivisionOf, Divided
<1>p7. \A s \in Slots : slot[s].state = "ready" /\ slot[s].kind = "units" => slot[s].owner # c
  BY <1>0, <1>t, <1>p1, <1>p2, <1>p3, <1>p4, <1>p5, <1>p6 DEF Members, OfGroup, Opened
<1>p8. \A y \in Workers : Working(y) /\ slot[wSlot[y]].kind = "units" => slot[wSlot[y]].owner # c
  BY <1>0, <1>t, <1>p1, <1>p2, <1>p3, <1>p4, <1>p5, <1>p6, <1>p7 DEF Members, OfGroup, Opened
<1>e1. cPc' \in [Callers -> CallStates]
      /\ \A x \in Callers : cPc'[x] = (IF x = c THEN "next" ELSE cPc[x])
  BY <1>t, CallerGoes DEF Typing, CallStates, First, CGoto
<1>e2. slot' \in [Slots -> SlotRecord] /\ \A s \in Slots : slot'[s].kind = slot[s].kind
      /\ slot'[s].owner = slot[s].owner /\ slot'[s].first = slot[s].first
      /\ slot'[s].lo = slot[s].lo /\ slot'[s].hi = slot[s].hi
      /\ slot'[s].count = (IF s = call[c].first THEN call[c].left ELSE slot[s].count)
      /\ (s = call[c].first => slot'[s].exception = FALSE)
      /\ (~(s = call[c].first) => slot'[s].exception = slot[s].exception)
      /\ slot'[s].completed = slot[s].completed /\ slot'[s].state = slot[s].state
  <2>1. CountOpenedAt(call[c].first, call[c].left)  BY Zenon DEF First, CountOpenedAt
  <2>2. slot \in [Slots -> SlotRecord]  BY <1>t, Zenon DEF Typing
  <2>3. call[c].first \in Slots  BY <1>t, Zenon DEF Typing
  <2>4. call[c].left \in Nat  BY <1>t, Zenon DEF Typing
  <2> QED  BY <2>1, <2>2, <2>3, <2>4, CountOpened
<1>e3. portable' = portable /\ running' = running /\ stopPending' = stopPending
      /\ threadCount' = threadCount /\ enq' = enq /\ deq' = deq /\ enqOwner' = enqOwner
      /\ deqOwner' = deqOwner /\ readyEvt' = readyEvt /\ doneEvt' = doneEvt /\ call' = call
      /\ wPc' = wPc /\ wSlot' = wSlot /\ sPc' = sPc /\ joined' = joined /\ wGroup' = wGroup
      /\ times' = times /\ broken' = broken /\ calls' = calls
  BY DEF First, flags, events, stop, history, CGoto
<1>fA. \A x \in Callers : Active(x)' <=> (Active(x) \/ x = c)
  BY <1>0, <1>t, <1>e1, <1>e2, <1>e3, <1>p1, <1>p2, <1>p3, <1>p4, <1>p5, <1>p6, <1>p7,
        <1>p8 DEF Typing, Active, IsKeyCall
<1>fE. \A x \in Callers : Early(x)' <=> (Early(x) /\ x # c)
  BY <1>0, <1>t, <1>e1, <1>e2, <1>e3, <1>p1, <1>p2, <1>p3, <1>p4, <1>p5, <1>p6, <1>p7,
        <1>p8 DEF Typing, Early, IsKeyCall
<1>fW. \A y \in Workers : Working(y)' <=> Working(y)
  BY <1>0, <1>t, <1>e1, <1>e2, <1>e3, <1>p1, <1>p2, <1>p3, <1>p4, <1>p5, <1>p6, <1>p7,
        <1>p8 DEF Typing, Working
<1>fS. \A f, s \in Slots : Since(f, s)' <=> Since(f, s)
  BY <1>0, <1>t, <1>e1, <1>e2, <1>e3, <1>p1, <1>p2, <1>p3, <1>p4, <1>p5, <1>p6, <1>p7,
        <1>p8 DEF Typing, Since
<1>fR. \A s \in Slots : InRun(s)' <=> InRun(s)
  BY <1>0, <1>t, <1>e1, <1>e2, <1>e3, <1>p1, <1>p2, <1>p3, <1>p4, <1>p5, <1>p6, <1>p7,
        <1>p8 DEF Typing, InRun
<1>fT. \A x \in Callers : Waiting(x)' = Waiting(x)
  <2>1. ASSUME NEW x \in Callers, NEW s \in Slots PROVE s \in Waiting(x)' <=> s \in Waiting(x)
    BY <1>0, <1>t, <2>1, <1>e1, <1>e2, <1>e3, <1>p1, <1>p2, <1>p3, <1>p4, <1>p5, <1>p6, <1>p7,
          <1>p8 DEF Typing, Waiting
  <2>2. \A x \in Callers : Waiting(x)' \subseteq Slots /\ Waiting(x) \subseteq Slots  BY <1>t, <1>e1,
        <1>e2, <1>e3, <1>p1, <1>p2, <1>p3, <1>p4, <1>p5, <1>p6, <1>p7, <1>p8 DEF Waiting, Slots
  <2> QED  BY <2>1, <2>2
<1>fH. \A x \in Callers : Hands(x)' = Hands(x)
  <2>1. ASSUME NEW x \in Callers, NEW y \in Workers PROVE y \in Hands(x)' <=> y \in Hands(x)
    BY <1>0, <1>t, <2>1, <1>e1, <1>e2, <1>e3, <1>p1, <1>p2, <1>p3, <1>p4, <1>p5, <1>p6, <1>p7, <1>p8,
          <1>fW DEF Typing, Hands
  <2>2. \A x \in Callers : Hands(x)' \subseteq Workers /\ Hands(x) \subseteq Workers  BY DEF Hands
  <2> QED  BY <2>1, <2>2
<1>fU. \A s \in Slots, x \in Callers : Unprocessed(s, x)' <=> Unprocessed(s, x)
  BY <1>0, <1>t, <1>e1, <1>e2, <1>e3, <1>p1, <1>p2, <1>p3, <1>p4, <1>p5, <1>p6, <1>p7, <1>p8, <1>fW,
        <1>fR DEF Typing, Unprocessed
<1>x. \A x \in Callers : x # c => cPc'[x] = cPc[x] /\ broken'[x] = broken[x]
      /\ call'[x].size = call[x].size /\ call'[x].first = call[x].first
      /\ call'[x].left = call[x].left /\ call'[x].next = call[x].next /\ call'[x].per = call[x].per
      /\ call'[x].rem = call[x].rem /\ call'[x].threw = call[x].threw
  BY <1>t, <1>e1, <1>e2, <1>e3, <1>p1, <1>p2, <1>p3, <1>p4, <1>p5, <1>p6, <1>p7, <1>p8 DEF Typing
<1>g. \A x \in Callers : Opened(x) => Opened(x)' /\ call'[x].first = call[x].first
  BY <1>t, <1>e1, <1>e2, <1>e3, <1>p1, <1>p2, <1>p3, <1>p4, <1>p5, <1>p6, <1>p7, <1>p8,
        <1>fA DEF Typing, Opened, Active, IsKeyCall
<1>s. \A s \in Slots : (slot'[s].kind = slot[s].kind /\ slot'[s].owner = slot[s].owner
      /\ slot'[s].first = slot[s].first)
  BY <1>e1, <1>e2, <1>e3, <1>p1, <1>p2, <1>p3, <1>p4, <1>p5, <1>p6, <1>p7, <1>p8
<1>1. TypeOK'
  BY <1>0, <1>t, <1>e1, <1>e2, <1>e3, <1>p1, <1>p2, <1>p3, <1>p4, <1>p5, <1>p6, <1>p7, <1>p8, Flags,
        TypesKept, Constants DEF Typing
<1>2. Phases'
  BY <1>0, <1>t, <1>e1, <1>e2, <1>e3, <1>p1, <1>p2, <1>p3, <1>p4, <1>p5, <1>p6, <1>p7,
        <1>p8 DEF Typing, Phases
<1>3. Mutexes'
  BY <1>0, <1>t, <1>e1, <1>e2, <1>e3, <1>p1, <1>p2, <1>p3, <1>p4, <1>p5, <1>p6, <1>p7, <1>p8,
        PoolAssumption DEF Typing, Mutexes, Phases
<1>4. Division'
  <2>1. ASSUME NEW x \in Callers, x # c PROVE DivisionOf(x)'
    <3>1. Divided(call[x]) => Divided(call'[x])  BY <1>x, <2>1 DEF Divided
    <3> QED  BY <1>0, <1>x, <2>1, <3>1, <1>e3, <1>fA, <1>fE DEF Division, DivisionOf, IsKeyCall
  <2>2. DivisionOf(c)'
    BY <1>0, <1>t, <1>e1, <1>e2, <1>e3, <1>p1, <1>p2, <1>p3, <1>p4, <1>p5, <1>p6, <1>p7, <1>p8, <1>fA,
          <1>fE DEF Typing, Division, DivisionOf, Divided, IsKeyCall, Mutexes, Active, Early
  <2> QED  BY <2>1, <2>2 DEF Division
<1>5. Groups'
  <2>1. ASSUME NEW x \in Callers, x # c PROVE GroupOf(x)'
    BY <1>0, <1>t, <1>x, <2>1, <1>e2, <1>e3, <1>p1, <1>p2, <1>p3, <1>p4, <1>p5, <1>p6, <1>p7, <1>p8,
          <1>fA, <1>fE DEF Typing, Groups, GroupOf, OwnsFirst, Opened, IsFree, Mutexes, Division,
          DivisionOf, Active, IsKeyCall
  <2>2. GroupOf(c)'
    BY <1>0, <1>t, <1>e1, <1>e2, <1>e3, <1>p1, <1>p2, <1>p3, <1>p4, <1>p5, <1>p6, <1>p7, <1>p8, <1>fA,
          <1>fE DEF Typing, Groups, GroupOf, OwnsFirst, Opened, IsFree, Mutexes, Division, DivisionOf,
          Active, IsKeyCall
  <2> QED  BY <2>1, <2>2 DEF Groups
<1>6. Members'
  <2>1. ASSUME NEW s \in Slots, OfGroup(s) PROVE OfGroup(s)'
    BY <1>t, <2>1, <1>g, <1>s, <1>fS DEF Typing, OfGroup
  <2>2. \A s \in Slots : slot'[s].state = "ready" => slot[s].state = "ready"  BY <1>t, <1>e1, <1>e2,
        <1>e3, <1>p1, <1>p2, <1>p3, <1>p4, <1>p5, <1>p6, <1>p7, <1>p8 DEF Typing
  <2>3. \A y \in Workers : Working(y)' => wSlot'[y] = wSlot[y] /\ OfGroup(wSlot[y])
    BY <1>0, <1>t, <1>fW, <1>e1, <1>e2, <1>e3, <1>p1, <1>p2, <1>p3, <1>p4, <1>p5, <1>p6, <1>p7,
          <1>p8 DEF Typing, Members
  <2>4. \A s \in Slots : slot'[s].state = "ready" => OfGroup(s)'  BY <1>0, <2>1, <2>2 DEF Members
  <2>5. \A y \in Workers : Working(y)' => OfGroup(wSlot[y])'  BY <1>t, <1>fW, <2>1, <2>3 DEF Typing
  <2> QED  BY <2>4, <2>5 DEF Members
<1>7. Holding'
  <2>1. ASSUME NEW y \in Workers, Working(y)' PROVE Held(y)'
    BY <1>0, <1>t, <2>1, <1>e1, <1>e2, <1>e3, <1>p1, <1>p2, <1>p3, <1>p4, <1>p5, <1>p6, <1>p7, <1>p8,
          <1>fW DEF Typing, Holding, Held, Mutexes
  <2>2. \A y, z \in Workers : Working(y)' /\ Working(z)' /\ wSlot'[y] = wSlot'[z] => y = z
    BY <1>0, <1>t, <1>e1, <1>e2, <1>e3, <1>p1, <1>p2, <1>p3, <1>p4, <1>p5, <1>p6, <1>p7, <1>p8,
          <1>fW DEF Typing, Holding
  <2> QED  BY <2>1, <2>2 DEF Holding
<1>8. Counted'
  <2>1. ASSUME NEW x \in Callers, x # c, Active(x)' PROVE CountOf(x)'
    <3>1. Active(x)  BY <2>1, <1>fA
    <3>2. call'[x].left = call[x].left /\ call'[x].first = call[x].first  BY <1>t, <2>1, <1>e1, <1>e2,
          <1>e3, <1>p1, <1>p2, <1>p3, <1>p4, <1>p5, <1>p6, <1>p7, <1>p8, <1>fA DEF Typing
    <3>3. slot'[call[x].first].count = slot[call[x].first].count  BY <3>1, <1>t, <1>e1, <1>e2, <1>e3,
          <1>p1, <1>p2, <1>p3, <1>p4, <1>p5, <1>p6, <1>p7, <1>p8 DEF Typing
    <3> QED  BY <1>0, <3>1, <3>2, <3>3, <1>fT, <1>fH DEF Counted, CountOf
  <2>2. CountOf(c)'
    <3>1. Waiting(c)' = {} /\ Hands(c)' = {}  BY <1>fT, <1>fH, <1>p7, <1>p8 DEF Waiting, Hands
    <3>2. call'[c].left = call[c].left /\ slot'[call'[c].first].count = call[c].left  BY <1>t, <1>e1,
          <1>e2, <1>e3, <1>p1, <1>p2, <1>p3, <1>p4, <1>p5, <1>p6, <1>p7, <1>p8 DEF Typing
    <3> QED  BY <1>t, <3>1, <3>2, FS_EmptySet DEF CountOf, Typing
  <2> QED  BY <2>1, <2>2 DEF Counted
<1>9. Completion'
  <2>1. ASSUME NEW s \in Slots, slot'[s].completed PROVE EventOf(s)'
    BY <1>0, <1>t, <2>1, <1>g, <1>s, <1>e2, <1>e3, <1>p1, <1>p2, <1>p3, <1>p4, <1>p5, <1>p6, <1>p7,
          <1>p8 DEF Typing, Completion, EventOf
  <2>2. ASSUME NEW y \in Workers, wPc'[y] = "signalItem" PROVE slot'[wGroup'[y]].count = 0
        /\ ~slot'[wGroup'[y]].completed
    BY <1>0, <1>t, <2>2, <1>e2, <1>e3, <1>p1, <1>p2, <1>p3, <1>p4, <1>p5, <1>p6, <1>p7,
          <1>p8 DEF Typing, Completion
  <2>3. \A y, z \in Workers : wPc'[y] = "signalItem" /\ wPc'[z] = "signalItem"
        /\ wGroup'[y] = wGroup'[z] => y = z
    BY <1>0, <1>t, <1>e2, <1>e3, <1>p1, <1>p2, <1>p3, <1>p4, <1>p5, <1>p6, <1>p7, <1>p8 DEF Typing,
          Completion
  <2> QED  BY <2>1, <2>2, <2>3 DEF Completion
<1>10. Units'
  <2>1. DOMAIN times' = Callers  BY <1>0, <1>e1, <1>e2, <1>e3, <1>p1, <1>p2, <1>p3, <1>p4, <1>p5,
        <1>p6, <1>p7, <1>p8 DEF Units
  <2>2. ASSUME NEW x \in Callers, Early(x)' \/ Active(x)' PROVE UnitsOf(x)'
    <3>1. (Early(x) \/ Active(x))  BY <2>2, <1>t, <1>e1, <1>e2, <1>e3, <1>p1, <1>p2, <1>p3, <1>p4,
          <1>p5, <1>p6, <1>p7, <1>p8, <1>fA, <1>fE DEF Typing
    <3>2. call'[x].size = call[x].size /\ call'[x].next = call[x].next /\ times'[x] = times[x]
          BY <1>e1, <1>e2, <1>e3, <1>p1, <1>p2, <1>p3, <1>p4, <1>p5, <1>p6, <1>p7, <1>p8,
          <3>1 DEF Early, Active, IsKeyCall
    <3>3. \A s \in Slots : Unprocessed(s, x) => Unprocessed(s, x)' /\ slot'[s].lo = slot[s].lo
          /\ slot'[s].hi = slot[s].hi
      BY <1>e1, <1>e2, <1>e3, <1>p1, <1>p2, <1>p3, <1>p4, <1>p5, <1>p6, <1>p7, <1>p8, <1>fU
    <3>4. UnitsOf(x)  BY <1>0, <3>1 DEF Units
    <3>5. \A u \in 1 .. call[x].size : Pending(x, u) => Pending(x, u)'  BY <3>3 DEF Pending
    <3> QED  BY <3>2, <3>4, <3>5 DEF UnitsOf
  <2>3. ASSUME NEW x \in Callers, IsKeyCall(x)', cPc'[x] # "idle" PROVE DOMAIN times'[x] = {}
    BY <1>0, <1>e1, <1>e2, <1>e3, <1>p1, <1>p2, <1>p3, <1>p4, <1>p5, <1>p6, <1>p7, <1>p8,
          <2>3 DEF Units, IsKeyCall
  <2>4. ASSUME NEW x \in Callers, cPc'[x] \in {"free", "signal", "idle"} PROVE AllOnce(x)'
    BY <1>0, <1>e1, <1>e2, <1>e3, <1>p1, <1>p2, <1>p3, <1>p4, <1>p5, <1>p6, <1>p7, <1>p8,
          <2>4 DEF Units, IsKeyCall, AllOnce
  <2> QED  BY <2>1, <2>2, <2>3, <2>4 DEF Units
<1>11. Fragments'
  <2>1. ASSUME NEW x \in Callers, Active(x)'
        PROVE  /\ \A s \in Slots : Unprocessed(s, x)' => FragmentOfCall(s, x)'
               /\ \A s, t \in Slots : Unprocessed(s, x)' /\ Unprocessed(t, x)' /\ s # t => Apart(s, t)'
    <3>0. Active(x) \/ Early(x)  BY <2>1, <1>fA, <1>e1, <1>e2, <1>e3, <1>p1, <1>p2, <1>p3, <1>p4,
          <1>p5, <1>p6, <1>p7, <1>p8 DEF Early
    <3>1. \A s \in Slots : Unprocessed(s, x) => Active(x)
      BY <1>0, <1>t DEF Typing, Unprocessed, InRun, Working, Members, OfGroup, Opened
    <3>2. call'[x].next = call[x].next /\ times'[x] = times[x]  BY <2>1, <3>0, <1>fA, <1>e1, <1>e2,
          <1>e3, <1>p1, <1>p2, <1>p3, <1>p4, <1>p5, <1>p6, <1>p7, <1>p8
    <3>3. \A s \in Slots : Unprocessed(s, x) => slot'[s].lo = slot[s].lo
          /\ slot'[s].hi = slot[s].hi  BY <1>e1, <1>e2, <1>e3, <1>p1, <1>p2, <1>p3, <1>p4, <1>p5,
          <1>p6, <1>p7, <1>p8
    <3>4. \A s \in Slots : Unprocessed(s, x)' => Unprocessed(s, x)  BY <1>fU
    <3>5. \A s \in Slots : Unprocessed(s, x) => FragmentOfCall(s, x)  BY <1>0, <3>1 DEF Fragments
    <3>6. \A s, t \in Slots : Unprocessed(s, x) /\ Unprocessed(t, x) /\ s # t => Apart(s, t)  BY <1>0,
          <3>1 DEF Fragments
    <3>7. \A s \in Slots : Unprocessed(s, x)' => FragmentOfCall(s, x)'  BY <3>2, <3>3, <3>4,
          <3>5 DEF FragmentOfCall
    <3>8. \A s, t \in Slots : Unprocessed(s, x)' /\ Unprocessed(t, x)' /\ s # t => Apart(s, t)'
          BY <3>3, <3>4, <3>6 DEF Apart
    <3> QED  BY <3>7, <3>8
  <2> QED  BY <2>1 DEF Fragments
<1>12. Exceptions'
  <2>1. ASSUME NEW x \in Callers, x # c PROVE ExceptionOf(x)'
    BY <1>0, <1>t, <1>x, <2>1, <1>e2, <1>e3, <1>p1, <1>p2, <1>p3, <1>p4, <1>p5, <1>p6, <1>p7, <1>p8,
          <1>fA, <1>fE DEF Typing, Exceptions, ExceptionOf, IsKeyCall
  <2>2. ExceptionOf(c)'
    <3>1. Early(c)' \/ (IsKeyCall(c)' /\ cPc'[c] # "idle") => broken'[c] = FALSE
          /\ call'[c].threw = FALSE
      BY <1>0, <1>t, <1>e1, <1>e2, <1>e3, <1>p1, <1>p2, <1>p3, <1>p4, <1>p5, <1>p6, <1>p7, <1>p8,
            <1>fE DEF Typing, Exceptions, ExceptionOf, IsKeyCall
    <3>2. Active(c)' => slot'[call'[c].first].exception = broken'[c]
      BY <1>0, <1>t, <1>e1, <1>e2, <1>e3, <1>p1, <1>p2, <1>p3, <1>p4, <1>p5, <1>p6, <1>p7, <1>p8,
            <1>fA DEF Typing, Exceptions, ExceptionOf, IsKeyCall
    <3>3. cPc'[c] \in {"free", "signal", "idle"} => call'[c].threw = broken'[c]
      BY <1>0, <1>t, <1>e1, <1>e2, <1>e3, <1>p1, <1>p2, <1>p3, <1>p4, <1>p5, <1>p6, <1>p7,
            <1>p8 DEF Typing, Exceptions, ExceptionOf, IsKeyCall
    <3> QED  BY <3>1, <3>2, <3>3 DEF ExceptionOf
  <2> QED  BY <2>1, <2>2 DEF Exceptions
<1> QED  BY <1>1, <1>2, <1>3, <1>4, <1>5, <1>6, <1>7, <1>8, <1>9, <1>10, <1>11, <1>12 DEF PoolInv

\* A key derivation is put in the ring.
LEMMA FillKeyKept ==
  ASSUME NEW c \in Callers, PoolInv, Fill(c), SlotFree(enq), IsKeyCall(c)
  PROVE  PoolInv'
<1>0. TypeOK /\ Phases /\ Mutexes /\ Division /\ Groups /\ Members /\ Holding /\ Counted
      /\ Completion /\ Units /\ Fragments /\ Exceptions  BY DEF PoolInv
<1>t. Typing  BY <1>0, Typed
<1>p1. slot[enq].state = "free" /\ enqOwner = c /\ cPc[c] = "next"
  BY <1>0, <1>t DEF Fill, SlotFree, IsFree, Mutexes
<1>p2. \A x \in Callers : Opened(x) \/ cPc[x] = "free" => OwnsFirst(x) /\ call[x].first # enq
  BY <1>0, <1>t, <1>p1 DEF Groups, GroupOf, OwnsFirst
<1>p3. \A s \in Slots : OfGroup(s) /\ slot[s].kind = "units" => slot[s].first # enq /\ s # enq
  BY <1>0, <1>t, <1>p1, <1>p2, Constants DEF OfGroup, Since, Typing, Slots
<1>p4. \A y \in Workers : Working(y) => wSlot[y] # enq
  BY <1>0, <1>t, <1>p1, <1>p2, <1>p3 DEF Typing, Members, Holding, Held, Working
<1>p5. slot[enq].completed => FALSE
  BY <1>0, <1>t, <1>p1, <1>p2, <1>p3, <1>p4 DEF Typing, Completion, EventOf, OwnsFirst
<1>p6. \A y \in Workers : wPc[y] = "signalItem" => wGroup[y] # enq
  BY <1>0, <1>t, <1>p1, <1>p2, <1>p3, <1>p4, <1>p5 DEF Typing, Members, Holding, Held, Working, OfGroup
<1>p7. \A s \in Slots, x \in Callers : Unprocessed(s, x) => s # enq
  BY <1>0, <1>t, <1>p1, <1>p2, <1>p3, <1>p4, <1>p5, <1>p6 DEF Typing, Unprocessed, InRun, Working
<1>p8. \A x \in Callers : x # c /\ Active(x) => Opened(x)
  BY <1>0, <1>t, <1>p1, <1>p2, <1>p3, <1>p4, <1>p5, <1>p6, <1>p7 DEF Typing, Active, Opened, Mutexes,
        Division, DivisionOf, Divided
<1>p9. \A x \in Callers : x # c => cPc[x] \notin {"first", "firstWait"}
  BY <1>0, <1>t, <1>p1, <1>p2, <1>p3, <1>p4, <1>p5, <1>p6, <1>p7, <1>p8 DEF Mutexes
<1>p10. ~Active(c) /\ ~Early(c)
  BY <1>0, <1>t, <1>p1, <1>p2, <1>p3, <1>p4, <1>p5, <1>p6, <1>p7, <1>p8, <1>p9 DEF Active, Early
<1>e1. cPc' \in [Callers -> CallStates]
      /\ \A x \in Callers : cPc'[x] = (IF x = c THEN "ready" ELSE cPc[x])
  BY <1>t, CallerGoes DEF Typing, CallStates, Fill, CGoto
<1>e2. slot' \in [Slots -> SlotRecord]
      /\ \A s \in Slots : slot'[s].kind = (IF s = enq THEN "key" ELSE slot[s].kind)
      /\ slot'[s].owner = (IF s = enq THEN c ELSE slot[s].owner)
      /\ slot'[s].first = (IF s = enq THEN call[c].first ELSE slot[s].first)
      /\ slot'[s].lo = (IF s = enq THEN call[c].next ELSE slot[s].lo)
      /\ slot'[s].hi = (IF s = enq THEN call[c].next + call[c].per - 1 ELSE slot[s].hi)
      /\ slot'[s].count = slot[s].count /\ slot'[s].exception = slot[s].exception
      /\ slot'[s].completed = slot[s].completed
      /\ slot'[s].state = (IF s = enq THEN "ready" ELSE slot[s].state)
  <2>1. FragmentPutAt(enq, "key", c, call[c].first, call[c].next, call[c].next + call[c].per - 1)
    BY Zenon DEF Fill, FragmentOf, FragmentPutAt, IsKeyCall
  <2>2. slot \in [Slots -> SlotRecord] /\ enq \in Slots /\ call[c].first \in Slots
        /\ call[c].next \in Nat
        /\ call[c].next + call[c].per - 1 \in Nat
    BY <1>0, <1>t DEF Typing, Division, DivisionOf
  <2> QED  BY <2>1, <2>2, FragmentPut
<1>e3. call' = call
  BY <1>t DEF Fill, Typing
<1>e4. enq' = After(enq) /\ enq' \in Slots
  BY <1>t, AfterSlot DEF Fill, Typing
<1>e5. portable' = portable /\ running' = running /\ stopPending' = stopPending
      /\ threadCount' = threadCount /\ deq' = deq /\ enqOwner' = enqOwner /\ deqOwner' = deqOwner
      /\ readyEvt' = readyEvt /\ doneEvt' = doneEvt /\ wPc' = wPc /\ wSlot' = wSlot /\ sPc' = sPc
      /\ joined' = joined /\ wGroup' = wGroup /\ times' = times /\ broken' = broken /\ calls' = calls
  BY DEF Fill, flags, events, stop, history, CGoto
<1>fA. \A x \in Callers : Active(x)' <=> Active(x)
  BY <1>0, <1>t, <1>e1, <1>e2, <1>e3, <1>e4, <1>e5, <1>p1, <1>p2, <1>p3, <1>p4, <1>p5, <1>p6, <1>p7,
        <1>p8, <1>p9, <1>p10 DEF Typing, Active, IsKeyCall
<1>fE. \A x \in Callers : Early(x)' <=> Early(x)
  BY <1>0, <1>t, <1>e1, <1>e2, <1>e3, <1>e4, <1>e5, <1>p1, <1>p2, <1>p3, <1>p4, <1>p5, <1>p6, <1>p7,
        <1>p8, <1>p9, <1>p10 DEF Typing, Early, IsKeyCall
<1>fW. \A y \in Workers : Working(y)' <=> Working(y)
  BY <1>0, <1>t, <1>e1, <1>e2, <1>e3, <1>e4, <1>e5, <1>p1, <1>p2, <1>p3, <1>p4, <1>p5, <1>p6, <1>p7,
        <1>p8, <1>p9, <1>p10 DEF Typing, Working
<1>fS. \A f, s \in Slots : Since(f, s)' <=> (IF f = enq THEN s = enq ELSE Since(f, s) \/ s = enq)
  BY <1>t, <1>e4, SinceMoves DEF Typing
<1>fR. \A s \in Slots : InRun(s)' <=> InRun(s)
  BY <1>0, <1>t, <1>e1, <1>e2, <1>e3, <1>e4, <1>e5, <1>p1, <1>p2, <1>p3, <1>p4, <1>p5, <1>p6, <1>p7,
        <1>p8, <1>p9, <1>p10 DEF Typing, InRun
<1>fT. \A x \in Callers : Waiting(x)' = Waiting(x)
  <2>1. ASSUME NEW x \in Callers, NEW s \in Slots PROVE s \in Waiting(x)' <=> s \in Waiting(x)
    BY <1>0, <1>t, <2>1, <1>e1, <1>e2, <1>e3, <1>e4, <1>e5, <1>p1, <1>p2, <1>p3, <1>p4, <1>p5, <1>p6,
          <1>p7, <1>p8, <1>p9, <1>p10 DEF Typing, Waiting
  <2>2. \A x \in Callers : Waiting(x)' \subseteq Slots /\ Waiting(x) \subseteq Slots  BY <1>t, <1>e1,
        <1>e2, <1>e3, <1>e4, <1>e5, <1>p1, <1>p2, <1>p3, <1>p4, <1>p5, <1>p6, <1>p7, <1>p8, <1>p9,
        <1>p10 DEF Waiting, Slots
  <2> QED  BY <2>1, <2>2
<1>fH. \A x \in Callers : Hands(x)' = Hands(x)
  <2>1. ASSUME NEW x \in Callers, NEW y \in Workers PROVE y \in Hands(x)' <=> y \in Hands(x)
    BY <1>0, <1>t, <2>1, <1>e1, <1>e2, <1>e3, <1>e4, <1>e5, <1>p1, <1>p2, <1>p3, <1>p4, <1>p5, <1>p6,
          <1>p7, <1>p8, <1>p9, <1>p10, <1>fW DEF Typing, Hands
  <2>2. \A x \in Callers : Hands(x)' \subseteq Workers /\ Hands(x) \subseteq Workers  BY DEF Hands
  <2> QED  BY <2>1, <2>2
<1>fU. \A s \in Slots, x \in Callers : Unprocessed(s, x)' <=> Unprocessed(s, x)
  BY <1>0, <1>t, <1>e1, <1>e2, <1>e3, <1>e4, <1>e5, <1>p1, <1>p2, <1>p3, <1>p4, <1>p5, <1>p6, <1>p7,
        <1>p8, <1>p9, <1>p10, <1>fW, <1>fR DEF Typing, Unprocessed
<1>x. \A x \in Callers : x # c => cPc'[x] = cPc[x] /\ broken'[x] = broken[x]
      /\ call'[x].size = call[x].size /\ call'[x].first = call[x].first
      /\ call'[x].left = call[x].left /\ call'[x].next = call[x].next /\ call'[x].per = call[x].per
      /\ call'[x].rem = call[x].rem /\ call'[x].threw = call[x].threw
  BY <1>t, <1>e1, <1>e2, <1>e3, <1>e4, <1>e5, <1>p1, <1>p2, <1>p3, <1>p4, <1>p5, <1>p6, <1>p7, <1>p8,
        <1>p9, <1>p10 DEF Typing
<1>g. \A x \in Callers : Opened(x) => Opened(x)' /\ call'[x].first = call[x].first
  BY <1>t, <1>e1, <1>e2, <1>e3, <1>e4, <1>e5, <1>p1, <1>p2, <1>p3, <1>p4, <1>p5, <1>p6, <1>p7, <1>p8,
        <1>p9, <1>p10, <1>fA DEF Typing, Opened, Active, IsKeyCall
<1>s. \A s \in Slots : s # enq => (slot'[s].kind = slot[s].kind /\ slot'[s].owner = slot[s].owner
      /\ slot'[s].first = slot[s].first)
  BY <1>e1, <1>e2, <1>e3, <1>e4, <1>e5, <1>p1, <1>p2, <1>p3, <1>p4, <1>p5, <1>p6, <1>p7, <1>p8, <1>p9,
        <1>p10
<1>1. TypeOK'
  BY <1>0, <1>t, <1>e1, <1>e2, <1>e3, <1>e4, <1>e5, <1>p1, <1>p2, <1>p3, <1>p4, <1>p5, <1>p6, <1>p7,
        <1>p8, <1>p9, <1>p10, Flags, TypesKept, Constants DEF Typing
<1>2. Phases'
  BY <1>0, <1>t, <1>e1, <1>e2, <1>e3, <1>e4, <1>e5, <1>p1, <1>p2, <1>p3, <1>p4, <1>p5, <1>p6, <1>p7,
        <1>p8, <1>p9, <1>p10 DEF Typing, Phases
<1>3. Mutexes'
  BY <1>0, <1>t, <1>e1, <1>e2, <1>e3, <1>e4, <1>e5, <1>p1, <1>p2, <1>p3, <1>p4, <1>p5, <1>p6, <1>p7,
        <1>p8, <1>p9, <1>p10, PoolAssumption DEF Typing, Mutexes, Phases
<1>4. Division'
  <2>1. ASSUME NEW x \in Callers, x # c PROVE DivisionOf(x)'
    <3>1. Divided(call[x]) => Divided(call'[x])  BY <1>x, <2>1 DEF Divided
    <3> QED  BY <1>0, <1>x, <2>1, <3>1, <1>e5, <1>fA, <1>fE DEF Division, DivisionOf, IsKeyCall
  <2>2. DivisionOf(c)'
    BY <1>0, <1>t, <1>e1, <1>e2, <1>e3, <1>e4, <1>e5, <1>p1, <1>p2, <1>p3, <1>p4, <1>p5, <1>p6, <1>p7,
          <1>p8, <1>p9, <1>p10, <1>fA, <1>fE DEF Typing, Division, DivisionOf, Divided, IsKeyCall,
          Mutexes, Active, Early
  <2> QED  BY <2>1, <2>2 DEF Division
<1>5. Groups'
  <2>1. ASSUME NEW x \in Callers, x # c PROVE GroupOf(x)'
    <3>1. cPc'[x] = cPc[x] /\ call'[x].first = call[x].first /\ call'[x].next = call[x].next
          /\ (Active(x)' <=> Active(x)) /\ (Opened(x)' <=> Opened(x))
      BY <1>x, <1>fA, <2>1 DEF Opened
    <3>2. Active(x) => Opened(x) /\ call[x].next # 1  BY <1>p8, <2>1 DEF Opened
    <3>3. cPc[x] \notin {"first", "firstWait"}  BY <1>p9, <2>1
    <3>4. ASSUME OwnsFirst(x), call[x].first # enq PROVE OwnsFirst(x)'
      <4>1. call[x].first \in Slots  BY <1>t DEF Typing
      <4> QED  BY <1>e2, <3>1, <3>4, <4>1 DEF OwnsFirst
    <3> QED  BY <1>p2, <3>1, <3>2, <3>3, <3>4 DEF GroupOf
  <2>2. GroupOf(c)'
    <3>1. cPc'[c] = "ready" /\ ~Active(c)' /\ ~Opened(c)'  BY <1>e1, <1>fA, <1>p10 DEF Opened
    <3> QED  BY <3>1 DEF GroupOf
  <2> QED  BY <2>1, <2>2 DEF Groups
<1>6. Members'
  <2>1. ASSUME NEW s \in Slots, s # enq, OfGroup(s) PROVE OfGroup(s)'
    BY <1>t, <1>p3, <2>1, <1>g, <1>s, <1>fS DEF Typing, OfGroup
  <2>2. ASSUME NEW s \in Slots, s = enq PROVE OfGroup(s)'
    BY <2>2, <1>e2 DEF OfGroup
  <2>3. \A s \in Slots : s # enq /\ slot'[s].state = "ready" => slot[s].state = "ready"  BY <1>t,
        <1>e2 DEF Typing
  <2>4. \A s \in Slots : slot'[s].state = "ready" => OfGroup(s)'  BY <1>0, <2>1, <2>2, <2>3 DEF Members
  <2>5. \A y \in Workers : Working(y)' => wSlot'[y] = wSlot[y] /\ wSlot[y] # enq /\ OfGroup(wSlot[y])
    BY <1>0, <1>p4, <1>fW, <1>e1, <1>e2, <1>e3, <1>e4, <1>e5, <1>p1, <1>p2, <1>p3, <1>p4, <1>p5, <1>p6,
          <1>p7, <1>p8, <1>p9, <1>p10 DEF Members
  <2>6. \A y \in Workers : Working(y)' => OfGroup(wSlot[y])'  BY <1>t, <2>1, <2>5 DEF Typing
  <2> QED  BY <2>4, <2>6 DEF Members
<1>7. Holding'
  <2>1. ASSUME NEW y \in Workers, Working(y)' PROVE Held(y)'
    BY <1>0, <1>t, <2>1, <1>e1, <1>e2, <1>e3, <1>e4, <1>e5, <1>p1, <1>p2, <1>p3, <1>p4, <1>p5, <1>p6,
          <1>p7, <1>p8, <1>p9, <1>p10, <1>fW DEF Typing, Holding, Held, Mutexes
  <2>2. \A y, z \in Workers : Working(y)' /\ Working(z)' /\ wSlot'[y] = wSlot'[z] => y = z
    BY <1>0, <1>t, <1>e1, <1>e2, <1>e3, <1>e4, <1>e5, <1>p1, <1>p2, <1>p3, <1>p4, <1>p5, <1>p6, <1>p7,
          <1>p8, <1>p9, <1>p10, <1>fW DEF Typing, Holding
  <2> QED  BY <2>1, <2>2 DEF Holding
<1>8. Counted'
  <2>1. ASSUME NEW x \in Callers, Active(x)' PROVE CountOf(x)'
    <3>1. Active(x)  BY <2>1, <1>fA
    <3>2. call'[x].left = call[x].left /\ call'[x].first = call[x].first  BY <1>t, <2>1, <3>1, <1>e1,
          <1>e2, <1>e3, <1>e4, <1>e5, <1>p1, <1>p2, <1>p3, <1>p4, <1>p5, <1>p6, <1>p7, <1>p8, <1>p9,
          <1>p10, <1>fA DEF Typing
    <3>3. slot'[call[x].first].count = slot[call[x].first].count  BY <1>t, <1>e1, <1>e2, <1>e3, <1>e4,
          <1>e5, <1>p1, <1>p2, <1>p3, <1>p4, <1>p5, <1>p6, <1>p7, <1>p8, <1>p9, <1>p10 DEF Typing
    <3> QED  BY <1>0, <3>1, <3>2, <3>3, <1>fT, <1>fH DEF Counted, CountOf
  <2> QED  BY <2>1 DEF Counted
<1>9. Completion'
  <2>1. ASSUME NEW s \in Slots, slot'[s].completed PROVE EventOf(s)'
    BY <1>0, <1>t, <2>1, <1>g, <1>s, <1>e2, <1>e4, <1>e5, <1>p1, <1>p2, <1>p3, <1>p4, <1>p5, <1>p6,
          <1>p7, <1>p8, <1>p9, <1>p10 DEF Typing, Completion, EventOf
  <2>2. ASSUME NEW y \in Workers, wPc'[y] = "signalItem" PROVE slot'[wGroup'[y]].count = 0
        /\ ~slot'[wGroup'[y]].completed
    BY <1>0, <1>t, <2>2, <1>e2, <1>e4, <1>e5, <1>p1, <1>p2, <1>p3, <1>p4, <1>p5, <1>p6, <1>p7, <1>p8,
          <1>p9, <1>p10 DEF Typing, Completion
  <2>3. \A y, z \in Workers : wPc'[y] = "signalItem" /\ wPc'[z] = "signalItem"
        /\ wGroup'[y] = wGroup'[z] => y = z
    BY <1>0, <1>t, <1>e2, <1>e4, <1>e5, <1>p1, <1>p2, <1>p3, <1>p4, <1>p5, <1>p6, <1>p7, <1>p8, <1>p9,
          <1>p10 DEF Typing, Completion
  <2> QED  BY <2>1, <2>2, <2>3 DEF Completion
<1>10. Units'
  <2>1. DOMAIN times' = Callers  BY <1>0, <1>e1, <1>e2, <1>e3, <1>e4, <1>e5, <1>p1, <1>p2, <1>p3,
        <1>p4, <1>p5, <1>p6, <1>p7, <1>p8, <1>p9, <1>p10 DEF Units
  <2>2. ASSUME NEW x \in Callers, Early(x)' \/ Active(x)' PROVE UnitsOf(x)'
    <3>1. (Early(x) \/ Active(x))  BY <2>2, <1>t, <1>e1, <1>e2, <1>e3, <1>e4, <1>e5, <1>p1, <1>p2,
          <1>p3, <1>p4, <1>p5, <1>p6, <1>p7, <1>p8, <1>p9, <1>p10, <1>fA, <1>fE DEF Typing
    <3>2. call'[x].size = call[x].size /\ call'[x].next = call[x].next /\ times'[x] = times[x]
          BY <1>e1, <1>e2, <1>e3, <1>e4, <1>e5, <1>p1, <1>p2, <1>p3, <1>p4, <1>p5, <1>p6, <1>p7, <1>p8,
          <1>p9, <1>p10, <3>1 DEF Early, Active, IsKeyCall
    <3>3. \A s \in Slots : Unprocessed(s, x) => Unprocessed(s, x)' /\ slot'[s].lo = slot[s].lo
          /\ slot'[s].hi = slot[s].hi
      BY <1>e1, <1>e2, <1>e3, <1>e4, <1>e5, <1>p1, <1>p2, <1>p3, <1>p4, <1>p5, <1>p6, <1>p7, <1>p8,
            <1>p9, <1>p10, <1>fU
    <3>4. UnitsOf(x)  BY <1>0, <3>1 DEF Units
    <3>5. \A u \in 1 .. call[x].size : Pending(x, u) => Pending(x, u)'  BY <3>3 DEF Pending
    <3> QED  BY <3>2, <3>4, <3>5 DEF UnitsOf
  <2>3. ASSUME NEW x \in Callers, IsKeyCall(x)', cPc'[x] # "idle" PROVE DOMAIN times'[x] = {}
    BY <1>0, <1>e1, <1>e2, <1>e3, <1>e4, <1>e5, <1>p1, <1>p2, <1>p3, <1>p4, <1>p5, <1>p6, <1>p7, <1>p8,
          <1>p9, <1>p10, <2>3 DEF Units, IsKeyCall
  <2>4. ASSUME NEW x \in Callers, cPc'[x] \in {"free", "signal", "idle"} PROVE AllOnce(x)'
    BY <1>0, <1>e1, <1>e2, <1>e3, <1>e4, <1>e5, <1>p1, <1>p2, <1>p3, <1>p4, <1>p5, <1>p6, <1>p7, <1>p8,
          <1>p9, <1>p10, <2>4 DEF Units, IsKeyCall, AllOnce
  <2> QED  BY <2>1, <2>2, <2>3, <2>4 DEF Units
<1>11. Fragments'
  <2>1. ASSUME NEW x \in Callers, Active(x)'
        PROVE  /\ \A s \in Slots : Unprocessed(s, x)' => FragmentOfCall(s, x)'
               /\ \A s, t \in Slots : Unprocessed(s, x)' /\ Unprocessed(t, x)' /\ s # t => Apart(s, t)'
    <3>0. Active(x) \/ Early(x)  BY <2>1, <1>fA, <1>e1, <1>e2, <1>e3, <1>e4, <1>e5, <1>p1, <1>p2,
          <1>p3, <1>p4, <1>p5, <1>p6, <1>p7, <1>p8, <1>p9, <1>p10 DEF Early
    <3>1. \A s \in Slots : Unprocessed(s, x) => Active(x)
      BY <1>0, <1>t DEF Typing, Unprocessed, InRun, Working, Members, OfGroup, Opened
    <3>2. call'[x].next = call[x].next /\ times'[x] = times[x]  BY <2>1, <3>0, <1>fA, <1>e1, <1>e2,
          <1>e3, <1>e4, <1>e5, <1>p1, <1>p2, <1>p3, <1>p4, <1>p5, <1>p6, <1>p7, <1>p8, <1>p9, <1>p10
    <3>3. \A s \in Slots : Unprocessed(s, x) => slot'[s].lo = slot[s].lo
          /\ slot'[s].hi = slot[s].hi  BY <1>e1, <1>e2, <1>e3, <1>e4, <1>e5, <1>p1, <1>p2, <1>p3,
          <1>p4, <1>p5, <1>p6, <1>p7, <1>p8, <1>p9, <1>p10
    <3>4. \A s \in Slots : Unprocessed(s, x)' => Unprocessed(s, x)  BY <1>fU
    <3>5. \A s \in Slots : Unprocessed(s, x) => FragmentOfCall(s, x)  BY <1>0, <3>1 DEF Fragments
    <3>6. \A s, t \in Slots : Unprocessed(s, x) /\ Unprocessed(t, x) /\ s # t => Apart(s, t)  BY <1>0,
          <3>1 DEF Fragments
    <3>7. \A s \in Slots : Unprocessed(s, x)' => FragmentOfCall(s, x)'  BY <3>2, <3>3, <3>4,
          <3>5 DEF FragmentOfCall
    <3>8. \A s, t \in Slots : Unprocessed(s, x)' /\ Unprocessed(t, x)' /\ s # t => Apart(s, t)'
          BY <3>3, <3>4, <3>6 DEF Apart
    <3> QED  BY <3>7, <3>8
  <2> QED  BY <2>1 DEF Fragments
<1>12. Exceptions'
  <2>1. ASSUME NEW x \in Callers, x # c PROVE ExceptionOf(x)'
    BY <1>0, <1>t, <1>x, <2>1, <1>e2, <1>e4, <1>e5, <1>p1, <1>p2, <1>p3, <1>p4, <1>p5, <1>p6, <1>p7,
          <1>p8, <1>p9, <1>p10, <1>fA, <1>fE DEF Typing, Exceptions, ExceptionOf, IsKeyCall
  <2>2. ExceptionOf(c)'
    <3>1. Early(c)' \/ (IsKeyCall(c)' /\ cPc'[c] # "idle") => broken'[c] = FALSE
          /\ call'[c].threw = FALSE
      BY <1>0, <1>t, <1>e1, <1>e2, <1>e3, <1>e4, <1>e5, <1>p1, <1>p2, <1>p3, <1>p4, <1>p5, <1>p6,
            <1>p7, <1>p8, <1>p9, <1>p10, <1>fE DEF Typing, Exceptions, ExceptionOf, IsKeyCall
    <3>2. Active(c)' => slot'[call'[c].first].exception = broken'[c]
      BY <1>0, <1>t, <1>e1, <1>e2, <1>e3, <1>e4, <1>e5, <1>p1, <1>p2, <1>p3, <1>p4, <1>p5, <1>p6,
            <1>p7, <1>p8, <1>p9, <1>p10, <1>fA DEF Typing, Exceptions, ExceptionOf, IsKeyCall
    <3>3. cPc'[c] \in {"free", "signal", "idle"} => call'[c].threw = broken'[c]
      BY <1>0, <1>t, <1>e1, <1>e2, <1>e3, <1>e4, <1>e5, <1>p1, <1>p2, <1>p3, <1>p4, <1>p5, <1>p6,
            <1>p7, <1>p8, <1>p9, <1>p10 DEF Typing, Exceptions, ExceptionOf, IsKeyCall
    <3> QED  BY <3>1, <3>2, <3>3 DEF ExceptionOf
  <2> QED  BY <2>1, <2>2 DEF Exceptions
<1> QED  BY <1>1, <1>2, <1>3, <1>4, <1>5, <1>6, <1>7, <1>8, <1>9, <1>10, <1>11, <1>12 DEF PoolInv

\* A fragment is put in the ring: it is counted from now on.
LEMMA FillUnitsKept ==
  ASSUME NEW c \in Callers, PoolInv, Fill(c), SlotFree(enq), ~IsKeyCall(c)
  PROVE  PoolInv'
<1>0. TypeOK /\ Phases /\ Mutexes /\ Division /\ Groups /\ Members /\ Holding /\ Counted
      /\ Completion /\ Units /\ Fragments /\ Exceptions  BY DEF PoolInv
<1>t. Typing  BY <1>0, Typed
<1>p1. slot[enq].state = "free" /\ enqOwner = c /\ cPc[c] = "next"
  BY <1>0, <1>t DEF Fill, SlotFree, IsFree, Mutexes
<1>p2. \A x \in Callers : Opened(x) \/ cPc[x] = "free" => OwnsFirst(x) /\ call[x].first # enq
  BY <1>0, <1>t, <1>p1 DEF Groups, GroupOf, OwnsFirst
<1>p3. \A s \in Slots : OfGroup(s) /\ slot[s].kind = "units" => slot[s].first # enq /\ s # enq
  BY <1>0, <1>t, <1>p1, <1>p2, Constants DEF OfGroup, Since, Typing, Slots
<1>p4. \A y \in Workers : Working(y) => wSlot[y] # enq
  BY <1>0, <1>t, <1>p1, <1>p2, <1>p3 DEF Typing, Members, Holding, Held, Working
<1>p5. slot[enq].completed => FALSE
  BY <1>0, <1>t, <1>p1, <1>p2, <1>p3, <1>p4 DEF Typing, Completion, EventOf, OwnsFirst
<1>p6. \A y \in Workers : wPc[y] = "signalItem" => wGroup[y] # enq
  BY <1>0, <1>t, <1>p1, <1>p2, <1>p3, <1>p4, <1>p5 DEF Typing, Members, Holding, Held, Working, OfGroup
<1>p7. \A s \in Slots, x \in Callers : Unprocessed(s, x) => s # enq
  BY <1>0, <1>t, <1>p1, <1>p2, <1>p3, <1>p4, <1>p5, <1>p6 DEF Typing, Unprocessed, InRun, Working
<1>p8. \A x \in Callers : x # c /\ Active(x) => Opened(x)
  BY <1>0, <1>t, <1>p1, <1>p2, <1>p3, <1>p4, <1>p5, <1>p6, <1>p7 DEF Typing, Active, Opened, Mutexes,
        Division, DivisionOf, Divided
<1>p9. \A x \in Callers : x # c => cPc[x] \notin {"first", "firstWait"}
  BY <1>0, <1>t, <1>p1, <1>p2, <1>p3, <1>p4, <1>p5, <1>p6, <1>p7, <1>p8 DEF Mutexes
<1>p10. Active(c) /\ ~Early(c) /\ call[c].left > 0 /\ Divided(call[c])
  BY <1>0, <1>t, <1>p1, <1>p2, <1>p3, <1>p4, <1>p5, <1>p6, <1>p7, <1>p8, <1>p9 DEF Active, Early,
        Division, DivisionOf
<1>p11. /\ AfterFragment(call[c]) \in CallRecord /\ Divided(AfterFragment(call[c]))
      /\ AfterFragment(call[c]).size = call[c].size /\ AfterFragment(call[c]).left = call[c].left - 1
      /\ AfterFragment(call[c]).next = call[c].next + call[c].per
            /\ AfterFragment(call[c]).first = call[c].first
      /\ AfterFragment(call[c]).threw = call[c].threw
      /\ call[c].per >= 1 /\ call[c].next + call[c].per - 1 <= call[c].size /\ call[c].next >= 1
  BY <1>t, <1>p10, DivisionKept DEF Typing, Divided
<1>e1. cPc' \in [Callers -> CallStates]
      /\ \A x \in Callers : cPc'[x] = (IF x = c THEN "ready" ELSE cPc[x])
  BY <1>t, CallerGoes DEF Typing, CallStates, Fill, CGoto
<1>e2. slot' \in [Slots -> SlotRecord]
      /\ \A s \in Slots : slot'[s].kind = (IF s = enq THEN "units" ELSE slot[s].kind)
      /\ slot'[s].owner = (IF s = enq THEN c ELSE slot[s].owner)
      /\ slot'[s].first = (IF s = enq THEN call[c].first ELSE slot[s].first)
      /\ slot'[s].lo = (IF s = enq THEN call[c].next ELSE slot[s].lo)
      /\ slot'[s].hi = (IF s = enq THEN call[c].next + call[c].per - 1 ELSE slot[s].hi)
      /\ slot'[s].count = slot[s].count /\ slot'[s].exception = slot[s].exception
      /\ slot'[s].completed = slot[s].completed
      /\ slot'[s].state = (IF s = enq THEN "ready" ELSE slot[s].state)
  <2>1. FragmentPutAt(enq, "units", c, call[c].first, call[c].next, call[c].next + call[c].per - 1)
    BY Zenon DEF Fill, FragmentOf, FragmentPutAt, IsKeyCall
  <2>2. slot \in [Slots -> SlotRecord] /\ enq \in Slots /\ call[c].first \in Slots
        /\ call[c].next \in Nat
        /\ call[c].next + call[c].per - 1 \in Nat
    BY <1>t, <1>p11 DEF Typing
  <2> QED  BY <2>1, <2>2, FragmentPut
<1>e3. call' \in [Callers -> CallRecord] /\ \A x \in Callers : call'[x].size = call[x].size
      /\ call'[x].first = call[x].first
      /\ call'[x].left = (IF x = c THEN call[c].left - 1 ELSE call[x].left)
      /\ call'[x].next = (IF x = c THEN call[c].next + call[c].per ELSE call[x].next)
      /\ call'[x].per = (IF x = c THEN AfterFragment(call[c]).per ELSE call[x].per)
      /\ call'[x].rem = (IF x = c THEN AfterFragment(call[c]).rem ELSE call[x].rem)
      /\ call'[x].threw = call[x].threw
  <2>1. call' = [call EXCEPT ![c] = AfterFragment(call[c])]  BY Zenon DEF Fill
  <2> QED  BY <1>t, <1>p11, <2>1 DEF Typing
<1>e4. enq' = After(enq) /\ enq' \in Slots
  BY <1>t, AfterSlot DEF Fill, Typing
<1>e5. portable' = portable /\ running' = running /\ stopPending' = stopPending
      /\ threadCount' = threadCount /\ deq' = deq /\ enqOwner' = enqOwner /\ deqOwner' = deqOwner
      /\ readyEvt' = readyEvt /\ doneEvt' = doneEvt /\ wPc' = wPc /\ wSlot' = wSlot /\ sPc' = sPc
      /\ joined' = joined /\ wGroup' = wGroup /\ times' = times /\ broken' = broken /\ calls' = calls
  BY DEF Fill, flags, events, stop, history, CGoto
<1>fA. \A x \in Callers : Active(x)' <=> Active(x)
  BY <1>0, <1>t, <1>e1, <1>e2, <1>e3, <1>e4, <1>e5, <1>p1, <1>p2, <1>p3, <1>p4, <1>p5, <1>p6, <1>p7,
        <1>p8, <1>p9, <1>p10, <1>p11 DEF Typing, Active, IsKeyCall
<1>fE. \A x \in Callers : Early(x)' <=> Early(x)
  BY <1>0, <1>t, <1>e1, <1>e2, <1>e3, <1>e4, <1>e5, <1>p1, <1>p2, <1>p3, <1>p4, <1>p5, <1>p6, <1>p7,
        <1>p8, <1>p9, <1>p10, <1>p11 DEF Typing, Early, IsKeyCall
<1>fW. \A y \in Workers : Working(y)' <=> Working(y)
  BY <1>0, <1>t, <1>e1, <1>e2, <1>e3, <1>e4, <1>e5, <1>p1, <1>p2, <1>p3, <1>p4, <1>p5, <1>p6, <1>p7,
        <1>p8, <1>p9, <1>p10, <1>p11 DEF Typing, Working
<1>fS. \A f, s \in Slots : Since(f, s)' <=> (IF f = enq THEN s = enq ELSE Since(f, s) \/ s = enq)
  BY <1>t, <1>e4, SinceMoves DEF Typing
<1>fR. \A s \in Slots : InRun(s)' <=> InRun(s)
  BY <1>0, <1>t, <1>e1, <1>e2, <1>e3, <1>e4, <1>e5, <1>p1, <1>p2, <1>p3, <1>p4, <1>p5, <1>p6, <1>p7,
        <1>p8, <1>p9, <1>p10, <1>p11 DEF Typing, InRun
<1>fT. \A x \in Callers : Waiting(x)' = (IF x = c THEN Waiting(x) \cup {enq} ELSE Waiting(x))
  <2>1. ASSUME NEW x \in Callers,
        NEW s \in Slots PROVE s \in Waiting(x)' <=> s \in (IF x = c THEN Waiting(x) \cup {enq} ELSE Waiting(x))
    BY <1>0, <1>t, <2>1, <1>e1, <1>e2, <1>e3, <1>e4, <1>e5, <1>p1, <1>p2, <1>p3, <1>p4, <1>p5, <1>p6,
          <1>p7, <1>p8, <1>p9, <1>p10, <1>p11 DEF Typing, Waiting
  <2>2. \A x \in Callers : Waiting(x)' \subseteq Slots /\ Waiting(x) \subseteq Slots
        /\ Waiting(x) \cup {enq} \subseteq Slots
    BY <1>t DEF Waiting, Typing
  <2>3. ASSUME NEW x \in Callers PROVE Waiting(x)' = (IF x = c THEN Waiting(x) \cup {enq} ELSE Waiting(x))
    <3>1. CASE x = c  BY <2>1, <2>2, <3>1
    <3>2. CASE x # c  BY <2>1, <2>2, <3>2
    <3> QED  BY <3>1, <3>2
  <2> QED  BY <2>3
<1>fH. \A x \in Callers : Hands(x)' = Hands(x)
  <2>1. ASSUME NEW x \in Callers, NEW y \in Workers PROVE y \in Hands(x)' <=> y \in Hands(x)
    BY <1>0, <1>t, <2>1, <1>e1, <1>e2, <1>e3, <1>e4, <1>e5, <1>p1, <1>p2, <1>p3, <1>p4, <1>p5, <1>p6,
          <1>p7, <1>p8, <1>p9, <1>p10, <1>p11, <1>fW DEF Typing, Hands
  <2>2. \A x \in Callers : Hands(x)' \subseteq Workers /\ Hands(x) \subseteq Workers  BY DEF Hands
  <2> QED  BY <2>1, <2>2
<1>fU. \A s \in Slots, x \in Callers : Unprocessed(s, x)' <=> (Unprocessed(s, x) \/ (s = enq /\ x = c))
  BY <1>0, <1>t, <1>e1, <1>e2, <1>e3, <1>e4, <1>e5, <1>p1, <1>p2, <1>p3, <1>p4, <1>p5, <1>p6, <1>p7,
        <1>p8, <1>p9, <1>p10, <1>p11, <1>fW, <1>fR DEF Typing, Unprocessed
<1>x. \A x \in Callers : x # c => cPc'[x] = cPc[x] /\ broken'[x] = broken[x]
      /\ call'[x].size = call[x].size /\ call'[x].first = call[x].first
      /\ call'[x].left = call[x].left /\ call'[x].next = call[x].next /\ call'[x].per = call[x].per
      /\ call'[x].rem = call[x].rem /\ call'[x].threw = call[x].threw
  BY <1>t, <1>e1, <1>e2, <1>e3, <1>e4, <1>e5, <1>p1, <1>p2, <1>p3, <1>p4, <1>p5, <1>p6, <1>p7, <1>p8,
        <1>p9, <1>p10, <1>p11 DEF Typing
<1>g. \A x \in Callers : Opened(x) => Opened(x)' /\ call'[x].first = call[x].first
  BY <1>t, <1>e1, <1>e2, <1>e3, <1>e4, <1>e5, <1>p1, <1>p2, <1>p3, <1>p4, <1>p5, <1>p6, <1>p7, <1>p8,
        <1>p9, <1>p10, <1>p11, <1>fA DEF Typing, Opened, Active, IsKeyCall
<1>s. \A s \in Slots : s # enq => (slot'[s].kind = slot[s].kind /\ slot'[s].owner = slot[s].owner
      /\ slot'[s].first = slot[s].first)
  BY <1>e1, <1>e2, <1>e3, <1>e4, <1>e5, <1>p1, <1>p2, <1>p3, <1>p4, <1>p5, <1>p6, <1>p7, <1>p8, <1>p9,
        <1>p10, <1>p11
<1>1. TypeOK'
  BY <1>0, <1>t, <1>e1, <1>e2, <1>e3, <1>e4, <1>e5, <1>p1, <1>p2, <1>p3, <1>p4, <1>p5, <1>p6, <1>p7,
        <1>p8, <1>p9, <1>p10, <1>p11, Flags, TypesKept, Constants DEF Typing
<1>2. Phases'
  BY <1>0, <1>t, <1>e1, <1>e2, <1>e3, <1>e4, <1>e5, <1>p1, <1>p2, <1>p3, <1>p4, <1>p5, <1>p6, <1>p7,
        <1>p8, <1>p9, <1>p10, <1>p11 DEF Typing, Phases
<1>3. Mutexes'
  BY <1>0, <1>t, <1>e1, <1>e2, <1>e3, <1>e4, <1>e5, <1>p1, <1>p2, <1>p3, <1>p4, <1>p5, <1>p6, <1>p7,
        <1>p8, <1>p9, <1>p10, <1>p11, PoolAssumption DEF Typing, Mutexes, Phases
<1>4. Division'
  <2>1. ASSUME NEW x \in Callers, x # c PROVE DivisionOf(x)'
    <3>1. Divided(call[x]) => Divided(call'[x])  BY <1>x, <2>1 DEF Divided
    <3> QED  BY <1>0, <1>x, <2>1, <3>1, <1>e5, <1>fA, <1>fE DEF Division, DivisionOf, IsKeyCall
  <2>2. DivisionOf(c)'
    <3>1. Divided(call[c])'
      <4>1. call'[c].next = AfterFragment(call[c]).next /\ call'[c].left = AfterFragment(call[c]).left
            /\ call'[c].per = AfterFragment(call[c]).per /\ call'[c].rem = AfterFragment(call[c]).rem
            /\ call'[c].size = AfterFragment(call[c]).size
        BY <1>e3, <1>p11
      <4> QED  BY <4>1, <1>p11 DEF Divided
    <3>2. call'[c].next > 1 /\ cPc'[c] = "ready"  BY <1>t, <1>e1, <1>e3, <1>p11 DEF Typing
    <3> QED  BY <1>p10, <3>1, <3>2, <1>fA, <1>fE, <1>e3 DEF DivisionOf, IsKeyCall
  <2> QED  BY <2>1, <2>2 DEF Division
<1>5. Groups'
  <2>1. ASSUME NEW x \in Callers, x # c PROVE GroupOf(x)'
    <3>1. cPc'[x] = cPc[x] /\ call'[x].first = call[x].first /\ call'[x].next = call[x].next
          /\ (Active(x)' <=> Active(x)) /\ (Opened(x)' <=> Opened(x))
      BY <1>x, <1>fA, <2>1 DEF Opened
    <3>2. Active(x) => Opened(x) /\ call[x].next # 1  BY <1>p8, <2>1 DEF Opened
    <3>3. cPc[x] \notin {"first", "firstWait"}  BY <1>p9, <2>1
    <3>4. ASSUME OwnsFirst(x), call[x].first # enq PROVE OwnsFirst(x)'
      <4>1. call[x].first \in Slots  BY <1>t DEF Typing
      <4> QED  BY <1>e2, <3>1, <3>4, <4>1 DEF OwnsFirst
    <3> QED  BY <1>p2, <3>1, <3>2, <3>3, <3>4 DEF GroupOf
  <2>2. GroupOf(c)'
    <3>1. OwnsFirst(c)'
      <4>1. call'[c].first = call[c].first /\ call[c].first \in Slots  BY <1>t, <1>e3 DEF Typing
      <4>2. CASE call[c].next > 1
        <5>1. OwnsFirst(c) /\ call[c].first # enq  BY <1>p2, <1>p10, <4>2 DEF Opened
        <5> QED  BY <1>e2, <4>1, <5>1 DEF OwnsFirst
      <4>3. CASE call[c].next = 1
        <5>1. call[c].first = enq  BY <1>0, <1>p10, <4>3 DEF Groups, GroupOf
        <5> QED  BY <1>e2, <4>1, <5>1 DEF OwnsFirst
      <4> QED  BY <1>t, <1>p11, <4>2, <4>3 DEF Typing
    <3>2. cPc'[c] = "ready" /\ call'[c].next > 1  BY <1>t, <1>e1, <1>e3, <1>p11 DEF Typing
    <3> QED  BY <3>1, <3>2 DEF GroupOf
  <2> QED  BY <2>1, <2>2 DEF Groups
<1>6. Members'
  <2>1. ASSUME NEW s \in Slots, s # enq, OfGroup(s) PROVE OfGroup(s)'
    BY <1>t, <1>p3, <2>1, <1>g, <1>s, <1>fS DEF Typing, OfGroup
  <2>2. ASSUME NEW s \in Slots, s = enq PROVE OfGroup(s)'
    <3>1. Opened(c)' /\ call'[c].first = call[c].first  BY <1>t, <1>e3, <1>p10, <1>p11,
          <1>fA DEF Opened, Typing
    <3>2. slot'[enq].owner = c /\ slot'[enq].first = call[c].first  BY <1>t, <1>e2 DEF Typing
    <3>3. Since(call[c].first, s)'
      <4>1. PICK f \in Slots : f = call[c].first  BY <1>t DEF Typing
      <4>2. Since(f, s)' <=> (IF f = enq THEN s = enq ELSE Since(f, s) \/ s = enq)  BY <1>fS, <4>1
      <4>3. Since(f, s)'  BY <2>2, <4>2
      <4>4. call'[c].first = f  BY <3>1, <4>1
      <4> QED  BY <4>3, <4>4 DEF Since
    <3> QED  BY <2>2, <3>1, <3>2, <3>3 DEF OfGroup
  <2>3. \A s \in Slots : s # enq /\ slot'[s].state = "ready" => slot[s].state = "ready"  BY <1>t,
        <1>e2 DEF Typing
  <2>4. \A s \in Slots : slot'[s].state = "ready" => OfGroup(s)'  BY <1>0, <2>1, <2>2, <2>3 DEF Members
  <2>5. \A y \in Workers : Working(y)' => wSlot'[y] = wSlot[y] /\ wSlot[y] # enq /\ OfGroup(wSlot[y])
    BY <1>0, <1>p4, <1>fW, <1>e1, <1>e2, <1>e3, <1>e4, <1>e5, <1>p1, <1>p2, <1>p3, <1>p4, <1>p5, <1>p6,
          <1>p7, <1>p8, <1>p9, <1>p10, <1>p11 DEF Members
  <2>6. \A y \in Workers : Working(y)' => OfGroup(wSlot[y])'  BY <1>t, <2>1, <2>5 DEF Typing
  <2> QED  BY <2>4, <2>6 DEF Members
<1>7. Holding'
  <2>1. ASSUME NEW y \in Workers, Working(y)' PROVE Held(y)'
    BY <1>0, <1>t, <2>1, <1>e1, <1>e2, <1>e3, <1>e4, <1>e5, <1>p1, <1>p2, <1>p3, <1>p4, <1>p5, <1>p6,
          <1>p7, <1>p8, <1>p9, <1>p10, <1>p11, <1>fW DEF Typing, Holding, Held, Mutexes
  <2>2. \A y, z \in Workers : Working(y)' /\ Working(z)' /\ wSlot'[y] = wSlot'[z] => y = z
    BY <1>0, <1>t, <1>e1, <1>e2, <1>e3, <1>e4, <1>e5, <1>p1, <1>p2, <1>p3, <1>p4, <1>p5, <1>p6, <1>p7,
          <1>p8, <1>p9, <1>p10, <1>p11, <1>fW DEF Typing, Holding
  <2> QED  BY <2>1, <2>2 DEF Holding
<1>8. Counted'
  <2>1. ASSUME NEW x \in Callers, x # c, Active(x)' PROVE CountOf(x)'
    <3>1. Active(x)  BY <2>1, <1>fA
    <3>2. call'[x].left = call[x].left /\ call'[x].first = call[x].first  BY <1>x, <2>1
    <3>3. slot'[call[x].first].count = slot[call[x].first].count  BY <1>t, <1>e2 DEF Typing
    <3>4. Waiting(x)' = Waiting(x)  BY <2>1, <1>fT
    <3> QED  BY <1>0, <3>1, <3>2, <3>3, <3>4, <1>fH DEF Counted, CountOf
  <2>2. CountOf(c)'
    <3>1. CountOf(c)  BY <1>0, <1>p10 DEF Counted
    <3>2. call'[c].left = call[c].left - 1 /\ call'[c].first = call[c].first /\ call[c].left \in Nat
          /\ call[c].left > 0
      BY <1>t, <1>e3, <1>p10, <1>p11 DEF Typing
    <3>3. slot'[call[c].first].count = slot[call[c].first].count  BY <1>t, <1>e2 DEF Typing
    <3>4. enq \notin Waiting(c) /\ Waiting(c)' = Waiting(c) \cup {enq}  BY <1>p1, <1>fT DEF Waiting
    <3>5. Cardinality(Waiting(c)') = Cardinality(Waiting(c)) + 1 /\ Cardinality(Waiting(c)) \in Nat
      BY <3>4, AddOne, Finite
    <3>6. Cardinality(Hands(c)) \in Nat /\ Hands(c)' = Hands(c)  BY Finite, FS_CardinalityType, <1>fH
    <3> QED  BY <3>1, <3>2, <3>3, <3>5, <3>6 DEF CountOf
  <2> QED  BY <2>1, <2>2 DEF Counted
<1>9. Completion'
  <2>1. ASSUME NEW s \in Slots, slot'[s].completed PROVE EventOf(s)'
    BY <1>0, <1>t, <2>1, <1>g, <1>s, <1>e2, <1>e4, <1>e5, <1>p1, <1>p2, <1>p3, <1>p4, <1>p5, <1>p6,
          <1>p7, <1>p8, <1>p9, <1>p10, <1>p11 DEF Typing, Completion, EventOf
  <2>2. ASSUME NEW y \in Workers, wPc'[y] = "signalItem" PROVE slot'[wGroup'[y]].count = 0
        /\ ~slot'[wGroup'[y]].completed
    BY <1>0, <1>t, <2>2, <1>e2, <1>e4, <1>e5, <1>p1, <1>p2, <1>p3, <1>p4, <1>p5, <1>p6, <1>p7, <1>p8,
          <1>p9, <1>p10, <1>p11 DEF Typing, Completion
  <2>3. \A y, z \in Workers : wPc'[y] = "signalItem" /\ wPc'[z] = "signalItem"
        /\ wGroup'[y] = wGroup'[z] => y = z
    BY <1>0, <1>t, <1>e2, <1>e4, <1>e5, <1>p1, <1>p2, <1>p3, <1>p4, <1>p5, <1>p6, <1>p7, <1>p8, <1>p9,
          <1>p10, <1>p11 DEF Typing, Completion
  <2> QED  BY <2>1, <2>2, <2>3 DEF Completion
<1>10. Units'
  <2>1. DOMAIN times' = Callers  BY <1>0, <1>e1, <1>e2, <1>e3, <1>e4, <1>e5, <1>p1, <1>p2, <1>p3,
        <1>p4, <1>p5, <1>p6, <1>p7, <1>p8, <1>p9, <1>p10, <1>p11 DEF Units
  <2>2. ASSUME NEW x \in Callers, x # c, Early(x)' \/ Active(x)' PROVE UnitsOf(x)'
    <3>1. (Early(x) \/ Active(x))  BY <2>2, <1>t, <1>e1, <1>e2, <1>e3, <1>e4, <1>e5, <1>p1, <1>p2,
          <1>p3, <1>p4, <1>p5, <1>p6, <1>p7, <1>p8, <1>p9, <1>p10, <1>p11, <1>fA, <1>fE DEF Typing
    <3>2. call'[x].size = call[x].size /\ call'[x].next = call[x].next /\ times'[x] = times[x]
          BY <1>e1, <1>e2, <1>e3, <1>e4, <1>e5, <1>p1, <1>p2, <1>p3, <1>p4, <1>p5, <1>p6, <1>p7, <1>p8,
          <1>p9, <1>p10, <1>p11, <1>x, <2>2
    <3>3. \A s \in Slots : Unprocessed(s, x) => Unprocessed(s, x)' /\ slot'[s].lo = slot[s].lo
          /\ slot'[s].hi = slot[s].hi
      BY <1>e1, <1>e2, <1>e3, <1>e4, <1>e5, <1>p1, <1>p2, <1>p3, <1>p4, <1>p5, <1>p6, <1>p7, <1>p8,
            <1>p9, <1>p10, <1>p11, <1>fU
    <3>4. UnitsOf(x)  BY <1>0, <3>1 DEF Units
    <3>5. \A u \in 1 .. call[x].size : Pending(x, u) => Pending(x, u)'  BY <3>3 DEF Pending
    <3> QED  BY <3>2, <3>4, <3>5 DEF UnitsOf
  <2>3. ASSUME NEW x \in Callers, IsKeyCall(x)', cPc'[x] # "idle" PROVE DOMAIN times'[x] = {}
    BY <1>0, <1>e1, <1>e2, <1>e3, <1>e4, <1>e5, <1>p1, <1>p2, <1>p3, <1>p4, <1>p5, <1>p6, <1>p7, <1>p8,
          <1>p9, <1>p10, <1>p11, <2>3 DEF Units, IsKeyCall
  <2>4. ASSUME NEW x \in Callers, cPc'[x] \in {"free", "signal", "idle"} PROVE AllOnce(x)'
    BY <1>0, <1>e1, <1>e2, <1>e3, <1>e4, <1>e5, <1>p1, <1>p2, <1>p3, <1>p4, <1>p5, <1>p6, <1>p7, <1>p8,
          <1>p9, <1>p10, <1>p11, <2>4 DEF Units, IsKeyCall, AllOnce
  <2>5. UnitsOf(c)'
    <3>1. UnitsOf(c) /\ call'[c].size = call[c].size /\ times'[c] = times[c]
          /\ call'[c].next = call[c].next + call[c].per
      BY <1>0, <1>p10, <1>e3, <1>e5 DEF Units
    <3>2. call[c].next \in Nat /\ call[c].per \in Nat /\ call[c].size \in Nat /\ call[c].per >= 1
          BY <1>t, <1>p11 DEF Typing
    <3>3. \A u \in 1 .. call[c].size : Pending(c, u) => Pending(c, u)'  BY <1>p7, <1>e2,
          <1>fU DEF Pending
    <3>4. \A u \in 1 .. call[c].size : u >= call[c].next /\ u < call'[c].next => Pending(c, u)'
      BY <1>t, <3>1, <3>2, <1>e2, <1>fU DEF Pending, Typing
    <3>5. \A u \in 1 .. call[c].size : u >= call'[c].next => u >= call[c].next  BY <3>1, <3>2
    <3>6. \A u \in 1 .. call[c].size : u < call[c].next \/ u >= call[c].next  BY <3>2
    <3> QED  BY <3>1, <3>3, <3>4, <3>5, <3>6 DEF UnitsOf
  <2>6. \A x \in Callers : Early(x)' \/ Active(x)' => UnitsOf(x)'  BY <2>2, <2>5
  <2> QED  BY <2>1, <2>3, <2>4, <2>6 DEF Units
<1>11. Fragments'
  <2>1. ASSUME NEW x \in Callers, x # c, Active(x)'
        PROVE  /\ \A s \in Slots : Unprocessed(s, x)' => FragmentOfCall(s, x)'
               /\ \A s, t \in Slots : Unprocessed(s, x)' /\ Unprocessed(t, x)' /\ s # t => Apart(s, t)'
    <3>0. Active(x) \/ Early(x)  BY <2>1, <1>fA, <1>e1, <1>e2, <1>e3, <1>e4, <1>e5, <1>p1, <1>p2,
          <1>p3, <1>p4, <1>p5, <1>p6, <1>p7, <1>p8, <1>p9, <1>p10, <1>p11 DEF Early
    <3>1. \A s \in Slots : Unprocessed(s, x) => Active(x)
      BY <1>0, <1>t DEF Typing, Unprocessed, InRun, Working, Members, OfGroup, Opened
    <3>2. call'[x].next = call[x].next /\ times'[x] = times[x]  BY <2>1, <1>x, <1>e1, <1>e2, <1>e3,
          <1>e4, <1>e5, <1>p1, <1>p2, <1>p3, <1>p4, <1>p5, <1>p6, <1>p7, <1>p8, <1>p9, <1>p10, <1>p11
    <3>3. \A s \in Slots : Unprocessed(s, x) => slot'[s].lo = slot[s].lo
          /\ slot'[s].hi = slot[s].hi  BY <1>e1, <1>e2, <1>e3, <1>e4, <1>e5, <1>p1, <1>p2, <1>p3,
          <1>p4, <1>p5, <1>p6, <1>p7, <1>p8, <1>p9, <1>p10, <1>p11
    <3>4. \A s \in Slots : Unprocessed(s, x)' => Unprocessed(s, x)  BY <2>1, <1>fU
    <3>5. \A s \in Slots : Unprocessed(s, x) => FragmentOfCall(s, x)  BY <1>0, <3>1 DEF Fragments
    <3>6. \A s, t \in Slots : Unprocessed(s, x) /\ Unprocessed(t, x) /\ s # t => Apart(s, t)  BY <1>0,
          <3>1 DEF Fragments
    <3>7. \A s \in Slots : Unprocessed(s, x)' => FragmentOfCall(s, x)'  BY <3>2, <3>3, <3>4,
          <3>5 DEF FragmentOfCall
    <3>8. \A s, t \in Slots : Unprocessed(s, x)' /\ Unprocessed(t, x)' /\ s # t => Apart(s, t)'
          BY <3>3, <3>4, <3>6 DEF Apart
    <3> QED  BY <3>7, <3>8
  <2>2. /\ \A s \in Slots : Unprocessed(s, c)' => FragmentOfCall(s, c)'
        /\ \A s, t \in Slots : Unprocessed(s, c)' /\ Unprocessed(t, c)' /\ s # t => Apart(s, t)'
    <3>1. /\ \A s \in Slots : Unprocessed(s, c) => FragmentOfCall(s, c)
          /\ \A s, t \in Slots : Unprocessed(s, c) /\ Unprocessed(t, c) /\ s # t => Apart(s, t)
      BY <1>0, <1>p10 DEF Fragments
    <3>2. call'[c].next = call[c].next + call[c].per /\ times'[c] = times[c] /\ call[c].next \in Nat
          /\ call[c].next >= 1
          /\ call[c].per \in Nat /\ call[c].per >= 1 /\ call[c].size \in Nat
                /\ call[c].next + call[c].per - 1 <= call[c].size
      BY <1>t, <1>e3, <1>e5, <1>p10, <1>p11 DEF Typing, Divided
    <3>3. \A s \in Slots : Unprocessed(s, c) => s # enq /\ slot'[s].lo = slot[s].lo
          /\ slot'[s].hi = slot[s].hi
      BY <1>p7, <1>e2
    <3>4. \A s \in Slots : Unprocessed(s, c)' => Unprocessed(s, c) \/ s = enq  BY <1>fU
    <3>5. slot'[enq].lo = call[c].next /\ slot'[enq].hi = call[c].next + call[c].per - 1  BY <1>t,
          <1>e2 DEF Typing
    <3>6. \A u \in call[c].next .. call[c].next + call[c].per - 1 : times[c][u] = 0
      BY <1>0, <1>p10, <3>2 DEF Units, UnitsOf
    <3>7. ASSUME NEW s \in Slots, s = enq PROVE FragmentOfCall(s, c)'
      BY <3>2, <3>5, <3>6, <3>7 DEF FragmentOfCall
    <3>8. ASSUME NEW s \in Slots, Unprocessed(s, c) PROVE FragmentOfCall(s, c)'
          /\ slot[s].hi < call[c].next
      BY <1>t, <3>1, <3>2, <3>3, <3>8 DEF FragmentOfCall, Typing
    <3>9. ASSUME NEW s \in Slots, NEW t \in Slots, Unprocessed(s, c)', Unprocessed(t, c)',
          s # t PROVE Apart(s, t)'
      <4>1. CASE Unprocessed(s, c) /\ Unprocessed(t, c)  BY <3>1, <3>3, <3>9, <4>1 DEF Apart
      <4>2. CASE Unprocessed(s, c) /\ t = enq  BY <3>3, <3>5, <3>8, <4>2 DEF Apart
      <4>3. CASE s = enq /\ Unprocessed(t, c)  BY <3>3, <3>5, <3>8, <4>3 DEF Apart
      <4> QED  BY <3>4, <3>9, <4>1, <4>2, <4>3
    <3> QED  BY <3>4, <3>7, <3>8, <3>9
  <2> QED  BY <2>1, <2>2 DEF Fragments
<1>12. Exceptions'
  <2>1. ASSUME NEW x \in Callers PROVE ExceptionOf(x)'
    <3>1. ExceptionOf(x) /\ (Active(x)' <=> Active(x)) /\ (Early(x)' <=> Early(x))  BY <1>0, <1>fA,
          <1>fE DEF Exceptions
    <3>2. /\ call'[x].threw = call[x].threw /\ call'[x].first = call[x].first
          /\ call'[x].size = call[x].size
          /\ broken' = broken
      BY <1>e3, <1>e5
    <3>3. slot'[call[x].first].exception = slot[call[x].first].exception  BY <1>t, <1>e2 DEF Typing
    <3>4. x = c => ~IsKeyCall(x) /\ cPc'[x] = "ready"  BY <1>e1
    <3>5. x # c => cPc'[x] = cPc[x]  BY <1>e1
    <3> HIDE DEF Active, Early
    <3> QED  BY <3>1, <3>2, <3>3, <3>4, <3>5 DEF ExceptionOf, IsKeyCall
  <2> QED  BY <2>1 DEF Exceptions
<1> QED  BY <1>1, <1>2, <1>3, <1>4, <1>5, <1>6, <1>7, <1>8, <1>9, <1>10, <1>11, <1>12 DEF PoolInv

\* The group was waited for: no fragment of it is left.
LEMMA AwaitItemKept ==
  ASSUME NEW c \in Callers, PoolInv, AwaitItem(c)
  PROVE  PoolInv'
<1>0. TypeOK /\ Phases /\ Mutexes /\ Division /\ Groups /\ Members /\ Holding /\ Counted
      /\ Completion /\ Units /\ Fragments /\ Exceptions  BY DEF PoolInv
<1>t. Typing  BY <1>0, Typed
<1>p1. cPc[c] = "await" /\ Opened(c) /\ Active(c) /\ call[c].left = 0 /\ ~Early(c)
  BY <1>0, <1>t DEF Typing, AwaitItem, Division, DivisionOf, Active, Opened, Early
<1>p2. OwnsFirst(c)
  BY <1>0, <1>t, <1>p1 DEF Groups, GroupOf
<1>p3. slot[call[c].first].completed /\ slot[call[c].first].count = 0
  BY <1>0, <1>t, <1>p1, <1>p2 DEF Typing, AwaitItem, Completion, EventOf
<1>p4. Waiting(c) = {} /\ Hands(c) = {}
  <2>1. CountOf(c)  BY <1>0, <1>p1 DEF Counted
  <2>2. Cardinality(Waiting(c)) \in Nat /\ Cardinality(Hands(c)) \in Nat  BY Finite, FS_CardinalityType
  <2>3. Cardinality(Waiting(c)) = 0 /\ Cardinality(Hands(c)) = 0  BY <1>p1, <1>p3, <2>1,
        <2>2 DEF CountOf
  <2> QED  BY <2>3, Finite, FS_EmptySet
<1>p5. \A s \in Slots : ~Unprocessed(s, c)
  BY <1>0, <1>t, <1>p1, <1>p2, <1>p3, <1>p4 DEF Unprocessed, InRun, Waiting, Hands, Working
<1>p6. call[c].next = call[c].size + 1
  BY <1>0, <1>t, <1>p1, <1>p2, <1>p3, <1>p4, <1>p5 DEF Typing, Division, DivisionOf, Divided, CallRecord
<1>p7. AllOnce(c)
  <2>1. UnitsOf(c)  BY <1>0, <1>p1 DEF Units
  <2>2. \A u \in 1 .. call[c].size : u < call[c].next  BY <1>t, <1>p6 DEF Typing
  <2>3. \A u \in 1 .. call[c].size : ~Pending(c, u)  BY <1>p5 DEF Pending
  <2>4. DOMAIN times[c] = 1 .. call[c].size /\ \A u \in 1 .. call[c].size : times[c][u] \in {0, 1}
        BY <2>1 DEF UnitsOf
  <2>5. \A u \in 1 .. call[c].size : times[c][u] # 0  BY <2>1, <2>2, <2>3 DEF UnitsOf
  <2> QED  BY <2>4, <2>5 DEF AllOnce
<1>p8. slot[call[c].first].state = "busy"
  BY <1>0, <1>t, <1>p1, <1>p2, <1>p3, <1>p4, <1>p5, <1>p6, <1>p7 DEF Typing, OwnsFirst, Waiting
<1>p9. \A s \in Slots : slot[s].state = "ready" /\ slot[s].kind = "units" => slot[s].owner # c
  BY <1>0, <1>t, <1>p1, <1>p2, <1>p3, <1>p4, <1>p5, <1>p6, <1>p7, <1>p8 DEF Waiting
<1>p10. \A y \in Workers : Working(y) /\ slot[wSlot[y]].kind = "units" => slot[wSlot[y]].owner # c
  BY <1>0, <1>t, <1>p1, <1>p2, <1>p3, <1>p4, <1>p5, <1>p6, <1>p7, <1>p8, <1>p9 DEF Hands, Completion,
        Holding, Held, Members, OfGroup
<1>p11. \A x \in Callers : x # c /\ (Opened(x) \/ cPc[x] = "free") => call[x].first # call[c].first
  BY <1>0, <1>t, <1>p1, <1>p2, <1>p3, <1>p4, <1>p5, <1>p6, <1>p7, <1>p8, <1>p9, <1>p10 DEF OwnsFirst,
        Groups, GroupOf
<1>p12. \A x \in Callers : Active(x) /\ x # c => call[x].first # call[c].first
  BY <1>0, <1>t, <1>p1, <1>p2, <1>p3, <1>p4, <1>p5, <1>p6, <1>p7, <1>p8, <1>p9, <1>p10,
        <1>p11 DEF Typing, Opened, Groups, GroupOf, IsFree, Division, DivisionOf, Divided
<1>e1. cPc' \in [Callers -> CallStates]
      /\ \A x \in Callers : cPc'[x] = (IF x = c THEN "free" ELSE cPc[x])
  BY <1>t, CallerGoes DEF Typing, CallStates, AwaitItem, CGoto
<1>e2. slot' \in [Slots -> SlotRecord] /\ \A s \in Slots : slot'[s].kind = slot[s].kind
      /\ slot'[s].owner = slot[s].owner /\ slot'[s].first = slot[s].first
      /\ slot'[s].lo = slot[s].lo /\ slot'[s].hi = slot[s].hi /\ slot'[s].count = slot[s].count
      /\ (s = call[c].first => slot'[s].exception = FALSE)
      /\ (~(s = call[c].first) => slot'[s].exception = slot[s].exception)
      /\ (s = call[c].first => slot'[s].completed = FALSE)
      /\ (~(s = call[c].first) => slot'[s].completed = slot[s].completed)
      /\ slot'[s].state = slot[s].state
  <2>1. ExceptionTakenAt(call[c].first)  BY Zenon DEF AwaitItem, ExceptionTakenAt
  <2>2. slot \in [Slots -> SlotRecord] /\ call[c].first \in Slots  BY <1>t DEF Typing
  <2> QED  BY <2>1, <2>2, ExceptionTaken
<1>e3. call' \in [Callers -> CallRecord] /\ \A x \in Callers : call'[x].size = call[x].size
      /\ call'[x].first = call[x].first /\ call'[x].left = call[x].left
      /\ call'[x].next = call[x].next /\ call'[x].per = call[x].per /\ call'[x].rem = call[x].rem
      /\ (x = c => call'[x].threw = slot[call[c].first].exception)
      /\ (x # c => call'[x].threw = call[x].threw)
  BY <1>t DEF Typing, AwaitItem, CallRecord, SlotRecord
<1>e4. cPc[c] = "await" /\ slot[call[c].first].completed
  BY DEF AwaitItem
<1>e5. portable' = portable /\ running' = running /\ stopPending' = stopPending
      /\ threadCount' = threadCount /\ enq' = enq /\ deq' = deq /\ enqOwner' = enqOwner
      /\ deqOwner' = deqOwner /\ readyEvt' = readyEvt /\ doneEvt' = doneEvt /\ wPc' = wPc
      /\ wSlot' = wSlot /\ sPc' = sPc /\ joined' = joined /\ wGroup' = wGroup /\ times' = times
      /\ broken' = broken /\ calls' = calls
  BY DEF AwaitItem, flags, events, stop, history, CGoto
<1>fA. \A x \in Callers : Active(x)' <=> (Active(x) /\ x # c)
  BY <1>0, <1>t, <1>e1, <1>e2, <1>e3, <1>e4, <1>e5, <1>p1, <1>p2, <1>p3, <1>p8, <1>p9, <1>p10, <1>p11,
        <1>p12 DEF Typing, Active, IsKeyCall
<1>fE. \A x \in Callers : Early(x)' <=> Early(x)
  BY <1>0, <1>t, <1>e1, <1>e2, <1>e3, <1>e4, <1>e5, <1>p1, <1>p2, <1>p3, <1>p8, <1>p9, <1>p10, <1>p11,
        <1>p12 DEF Typing, Early, IsKeyCall
<1>fW. \A y \in Workers : Working(y)' <=> Working(y)
  BY <1>0, <1>t, <1>e1, <1>e2, <1>e3, <1>e4, <1>e5, <1>p1, <1>p2, <1>p3, <1>p8, <1>p9, <1>p10, <1>p11,
        <1>p12 DEF Typing, Working
<1>fS. \A f, s \in Slots : Since(f, s)' <=> Since(f, s)
  BY <1>0, <1>t, <1>e1, <1>e2, <1>e3, <1>e4, <1>e5, <1>p1, <1>p2, <1>p3, <1>p8, <1>p9, <1>p10, <1>p11,
        <1>p12 DEF Typing, Since
<1>fR. \A s \in Slots : InRun(s)' <=> InRun(s)
  BY <1>0, <1>t, <1>e1, <1>e2, <1>e3, <1>e4, <1>e5, <1>p1, <1>p2, <1>p3, <1>p8, <1>p9, <1>p10, <1>p11,
        <1>p12 DEF Typing, InRun
<1>fT. \A x \in Callers : Waiting(x)' = Waiting(x)
  <2>1. ASSUME NEW x \in Callers, NEW s \in Slots PROVE s \in Waiting(x)' <=> s \in Waiting(x)
    BY <1>0, <1>t, <2>1, <1>e1, <1>e2, <1>e3, <1>e4, <1>e5, <1>p1, <1>p2, <1>p3, <1>p8, <1>p9, <1>p10,
          <1>p11, <1>p12 DEF Typing, Waiting
  <2>2. \A x \in Callers : Waiting(x)' \subseteq Slots /\ Waiting(x) \subseteq Slots  BY <1>t, <1>e1,
        <1>e2, <1>e3, <1>e4, <1>e5, <1>p1, <1>p2, <1>p3, <1>p8, <1>p9, <1>p10, <1>p11,
        <1>p12 DEF Waiting, Slots
  <2> QED  BY <2>1, <2>2
<1>fH. \A x \in Callers : Hands(x)' = Hands(x)
  <2>1. ASSUME NEW x \in Callers, NEW y \in Workers PROVE y \in Hands(x)' <=> y \in Hands(x)
    BY <1>0, <1>t, <2>1, <1>e1, <1>e2, <1>e3, <1>e4, <1>e5, <1>p1, <1>p2, <1>p3, <1>p8, <1>p9, <1>p10,
          <1>p11, <1>p12, <1>fW DEF Typing, Hands
  <2>2. \A x \in Callers : Hands(x)' \subseteq Workers /\ Hands(x) \subseteq Workers  BY DEF Hands
  <2> QED  BY <2>1, <2>2
<1>fU. \A s \in Slots, x \in Callers : Unprocessed(s, x)' <=> Unprocessed(s, x)
  BY <1>0, <1>t, <1>e1, <1>e2, <1>e3, <1>e4, <1>e5, <1>p1, <1>p2, <1>p3, <1>p8, <1>p9, <1>p10, <1>p11,
        <1>p12, <1>fW, <1>fR DEF Typing, Unprocessed
<1>x. \A x \in Callers : x # c => cPc'[x] = cPc[x] /\ broken'[x] = broken[x]
      /\ call'[x].size = call[x].size /\ call'[x].first = call[x].first
      /\ call'[x].left = call[x].left /\ call'[x].next = call[x].next /\ call'[x].per = call[x].per
      /\ call'[x].rem = call[x].rem /\ call'[x].threw = call[x].threw
  BY <1>t, <1>e1, <1>e2, <1>e3, <1>e4, <1>e5, <1>p1, <1>p2, <1>p3, <1>p8, <1>p9, <1>p10, <1>p11,
        <1>p12 DEF Typing
<1>g. \A x \in Callers : Opened(x) /\ x # c => Opened(x)' /\ call'[x].first = call[x].first
  BY <1>t, <1>e1, <1>e2, <1>e3, <1>e4, <1>e5, <1>p1, <1>p2, <1>p3, <1>p8, <1>p9, <1>p10, <1>p11,
        <1>p12, <1>fA DEF Typing, Opened, Active, IsKeyCall
<1>s. \A s \in Slots : (slot'[s].kind = slot[s].kind /\ slot'[s].owner = slot[s].owner
      /\ slot'[s].first = slot[s].first)
  BY <1>e1, <1>e2, <1>e3, <1>e4, <1>e5, <1>p1, <1>p2, <1>p3, <1>p8, <1>p9, <1>p10, <1>p11, <1>p12
<1>1. TypeOK'
  BY <1>0, <1>t, <1>e1, <1>e2, <1>e3, <1>e4, <1>e5, <1>p1, <1>p2, <1>p3, <1>p8, <1>p9, <1>p10, <1>p11,
        <1>p12, Flags, TypesKept, Constants DEF Typing
<1>2. Phases'
  BY <1>0, <1>t, <1>e1, <1>e2, <1>e3, <1>e4, <1>e5, <1>p1, <1>p2, <1>p3, <1>p8, <1>p9, <1>p10, <1>p11,
        <1>p12 DEF Typing, Phases
<1>3. Mutexes'
  BY <1>0, <1>t, <1>e1, <1>e2, <1>e3, <1>e4, <1>e5, <1>p1, <1>p2, <1>p3, <1>p8, <1>p9, <1>p10, <1>p11,
        <1>p12, PoolAssumption DEF Typing, Mutexes, Phases
<1>4. Division'
  <2>1. ASSUME NEW x \in Callers, x # c PROVE DivisionOf(x)'
    <3>1. Divided(call[x]) => Divided(call'[x])  BY <1>x, <2>1 DEF Divided
    <3> QED  BY <1>0, <1>x, <2>1, <3>1, <1>e5, <1>fA, <1>fE DEF Division, DivisionOf, IsKeyCall
  <2>2. DivisionOf(c)'
    BY <1>0, <1>t, <1>e1, <1>e2, <1>e3, <1>e4, <1>e5, <1>p1, <1>p2, <1>p3, <1>p8, <1>p9, <1>p10,
          <1>p11, <1>p12, <1>fA, <1>fE DEF Typing, Division, DivisionOf, Divided, IsKeyCall, Mutexes,
          Active, Early
  <2> QED  BY <2>1, <2>2 DEF Division
<1>5. Groups'
  <2>1. ASSUME NEW x \in Callers, x # c PROVE GroupOf(x)'
    <3>1. cPc'[x] = cPc[x] /\ call'[x].first = call[x].first /\ call'[x].next = call[x].next
          /\ enq' = enq
          /\ (Active(x)' <=> Active(x)) /\ (Opened(x)' <=> Opened(x)) /\ call[x].first \in Slots
      BY <1>t, <1>x, <1>fA, <1>e5, <2>1 DEF Opened, Typing
    <3>2. \A s \in Slots : slot'[s].state = slot[s].state  BY <1>e2
    <3>3. OwnsFirst(x) => OwnsFirst(x)'  BY <1>s, <3>1, <3>2 DEF OwnsFirst
    <3>4. IsFree(enq) => IsFree(enq)'  BY <1>t, <3>1, <3>2 DEF IsFree, Typing
    <3>5. GroupOf(x)  BY <1>0 DEF Groups
    <3> HIDE DEF Active, Opened
    <3> QED  BY <3>1, <3>3, <3>4, <3>5 DEF GroupOf
  <2>2. GroupOf(c)'
    <3>1. call'[c].first = call[c].first /\ call[c].first \in Slots  BY <1>t, <1>e3 DEF Typing
    <3>2. OwnsFirst(c)'  BY <1>e2, <1>p2, <3>1 DEF OwnsFirst
    <3>3. cPc'[c] = "free" /\ ~Active(c)'  BY <1>e1, <1>fA
    <3> QED  BY <3>2, <3>3 DEF GroupOf
  <2> QED  BY <2>1, <2>2 DEF Groups
<1>6. Members'
  <2>1. ASSUME NEW s \in Slots, OfGroup(s),
        slot[s].kind = "units" => slot[s].owner # c PROVE OfGroup(s)'
    BY <1>t, <2>1, <1>g, <1>s, <1>fS DEF Typing, OfGroup
  <2>2. \A s \in Slots : slot'[s].state = "ready" => slot[s].state = "ready"  BY <1>t, <1>e1, <1>e2,
        <1>e3, <1>e4, <1>e5, <1>p1, <1>p2, <1>p3, <1>p8, <1>p9, <1>p10, <1>p11, <1>p12 DEF Typing
  <2>3. \A y \in Workers : Working(y)' => wSlot'[y] = wSlot[y] /\ OfGroup(wSlot[y])
    BY <1>0, <1>t, <1>fW, <1>e1, <1>e2, <1>e3, <1>e4, <1>e5, <1>p1, <1>p2, <1>p3, <1>p8, <1>p9, <1>p10,
          <1>p11, <1>p12 DEF Typing, Members
  <2>4. \A s \in Slots : slot'[s].state = "ready" => OfGroup(s)'  BY <1>0, <2>1, <2>2, <1>p9,
        <1>p10 DEF Members
  <2>5. \A y \in Workers : Working(y)' => OfGroup(wSlot[y])'  BY <1>t, <1>fW, <2>1, <2>3, <1>p9,
        <1>p10 DEF Typing
  <2> QED  BY <2>4, <2>5 DEF Members
<1>7. Holding'
  <2>1. ASSUME NEW y \in Workers, Working(y)' PROVE Held(y)'
    BY <1>0, <1>t, <2>1, <1>e1, <1>e2, <1>e3, <1>e4, <1>e5, <1>p1, <1>p2, <1>p3, <1>p8, <1>p9, <1>p10,
          <1>p11, <1>p12, <1>fW DEF Typing, Holding, Held, Mutexes
  <2>2. \A y, z \in Workers : Working(y)' /\ Working(z)' /\ wSlot'[y] = wSlot'[z] => y = z
    BY <1>0, <1>t, <1>e1, <1>e2, <1>e3, <1>e4, <1>e5, <1>p1, <1>p2, <1>p3, <1>p8, <1>p9, <1>p10,
          <1>p11, <1>p12, <1>fW DEF Typing, Holding
  <2> QED  BY <2>1, <2>2 DEF Holding
<1>8. Counted'
  <2>1. ASSUME NEW x \in Callers, Active(x)' PROVE CountOf(x)'
    <3>1. Active(x)  BY <2>1, <1>fA
    <3>2. call'[x].left = call[x].left /\ call'[x].first = call[x].first  BY <1>t, <2>1, <3>1, <1>e1,
          <1>e2, <1>e3, <1>e4, <1>e5, <1>p1, <1>p2, <1>p3, <1>p8, <1>p9, <1>p10, <1>p11, <1>p12,
          <1>fA DEF Typing
    <3>3. slot'[call[x].first].count = slot[call[x].first].count  BY <1>t, <1>e1, <1>e2, <1>e3, <1>e4,
          <1>e5, <1>p1, <1>p2, <1>p3, <1>p8, <1>p9, <1>p10, <1>p11, <1>p12 DEF Typing
    <3> QED  BY <1>0, <3>1, <3>2, <3>3, <1>fT, <1>fH DEF Counted, CountOf
  <2> QED  BY <2>1 DEF Counted
<1>9. Completion'
  <2>1. ASSUME NEW s \in Slots, slot'[s].completed PROVE EventOf(s)'
    BY <1>0, <1>t, <2>1, <1>g, <1>s, <1>e2, <1>e4, <1>e5, <1>p1, <1>p2, <1>p3, <1>p8, <1>p9, <1>p10,
          <1>p11, <1>p12 DEF Typing, Completion, EventOf
  <2>2. ASSUME NEW y \in Workers, wPc'[y] = "signalItem" PROVE slot'[wGroup'[y]].count = 0
        /\ ~slot'[wGroup'[y]].completed
    BY <1>0, <1>t, <2>2, <1>e2, <1>e4, <1>e5, <1>p1, <1>p2, <1>p3, <1>p8, <1>p9, <1>p10, <1>p11,
          <1>p12 DEF Typing, Completion
  <2>3. \A y, z \in Workers : wPc'[y] = "signalItem" /\ wPc'[z] = "signalItem"
        /\ wGroup'[y] = wGroup'[z] => y = z
    BY <1>0, <1>t, <1>e2, <1>e4, <1>e5, <1>p1, <1>p2, <1>p3, <1>p8, <1>p9, <1>p10, <1>p11,
          <1>p12 DEF Typing, Completion
  <2> QED  BY <2>1, <2>2, <2>3 DEF Completion
<1>10. Units'
  <2>1. DOMAIN times' = Callers  BY <1>0, <1>e1, <1>e2, <1>e3, <1>e4, <1>e5, <1>p1, <1>p2, <1>p3,
        <1>p8, <1>p9, <1>p10, <1>p11, <1>p12 DEF Units
  <2>2. ASSUME NEW x \in Callers, Early(x)' \/ Active(x)' PROVE UnitsOf(x)'
    <3>1. (Early(x) \/ Active(x)) /\ x # c BY <2>2, <1>t, <1>e1, <1>e2, <1>e3, <1>e4, <1>e5, <1>p1,
          <1>p2, <1>p3, <1>p8, <1>p9, <1>p10, <1>p11, <1>p12, <1>fA, <1>fE DEF Typing
    <3>2. call'[x].size = call[x].size /\ call'[x].next = call[x].next /\ times'[x] = times[x]
          BY <1>e1, <1>e2, <1>e3, <1>e4, <1>e5, <1>p1, <1>p2, <1>p3, <1>p8, <1>p9, <1>p10, <1>p11,
          <1>p12, <3>1 DEF Early, Active, IsKeyCall
    <3>3. \A s \in Slots : Unprocessed(s, x) => Unprocessed(s, x)' /\ slot'[s].lo = slot[s].lo
          /\ slot'[s].hi = slot[s].hi
      BY <1>e1, <1>e2, <1>e3, <1>e4, <1>e5, <1>p1, <1>p2, <1>p3, <1>p8, <1>p9, <1>p10, <1>p11, <1>p12,
            <1>fU
    <3>4. UnitsOf(x)  BY <1>0, <3>1 DEF Units
    <3>5. \A u \in 1 .. call[x].size : Pending(x, u) => Pending(x, u)'  BY <3>3 DEF Pending
    <3> QED  BY <3>2, <3>4, <3>5 DEF UnitsOf
  <2>3. ASSUME NEW x \in Callers, IsKeyCall(x)', cPc'[x] # "idle" PROVE DOMAIN times'[x] = {}
    BY <1>0, <1>e1, <1>e2, <1>e3, <1>e4, <1>e5, <1>p1, <1>p2, <1>p3, <1>p8, <1>p9, <1>p10, <1>p11,
          <1>p12, <2>3 DEF Units, IsKeyCall
  <2>4. ASSUME NEW x \in Callers, cPc'[x] \in {"free", "signal", "idle"} PROVE AllOnce(x)'
    BY <1>0, <1>p7, <1>e1, <1>e2, <1>e3, <1>e4, <1>e5, <1>p1, <1>p2, <1>p3, <1>p8, <1>p9, <1>p10,
          <1>p11, <1>p12, <2>4 DEF Units, IsKeyCall, AllOnce, Active
  <2> QED  BY <2>1, <2>2, <2>3, <2>4 DEF Units
<1>11. Fragments'
  <2>1. ASSUME NEW x \in Callers, Active(x)'
        PROVE  /\ \A s \in Slots : Unprocessed(s, x)' => FragmentOfCall(s, x)'
               /\ \A s, t \in Slots : Unprocessed(s, x)' /\ Unprocessed(t, x)' /\ s # t => Apart(s, t)'
    <3>0. Active(x) \/ Early(x)  BY <2>1, <1>fA, <1>e1, <1>e2, <1>e3, <1>e4, <1>e5, <1>p1, <1>p2,
          <1>p3, <1>p8, <1>p9, <1>p10, <1>p11, <1>p12 DEF Early
    <3>1. \A s \in Slots : Unprocessed(s, x) => Active(x)
      BY <1>0, <1>t DEF Typing, Unprocessed, InRun, Working, Members, OfGroup, Opened
    <3>2. call'[x].next = call[x].next /\ times'[x] = times[x]  BY <2>1, <3>0, <1>fA, <1>e1, <1>e2,
          <1>e3, <1>e4, <1>e5, <1>p1, <1>p2, <1>p3, <1>p8, <1>p9, <1>p10, <1>p11, <1>p12
    <3>3. \A s \in Slots : Unprocessed(s, x) => slot'[s].lo = slot[s].lo
          /\ slot'[s].hi = slot[s].hi  BY <1>e1, <1>e2, <1>e3, <1>e4, <1>e5, <1>p1, <1>p2, <1>p3,
          <1>p8, <1>p9, <1>p10, <1>p11, <1>p12
    <3>4. \A s \in Slots : Unprocessed(s, x)' => Unprocessed(s, x)  BY <1>fU
    <3>5. \A s \in Slots : Unprocessed(s, x) => FragmentOfCall(s, x)  BY <1>0, <3>1 DEF Fragments
    <3>6. \A s, t \in Slots : Unprocessed(s, x) /\ Unprocessed(t, x) /\ s # t => Apart(s, t)  BY <1>0,
          <3>1 DEF Fragments
    <3>7. \A s \in Slots : Unprocessed(s, x)' => FragmentOfCall(s, x)'  BY <3>2, <3>3, <3>4,
          <3>5 DEF FragmentOfCall
    <3>8. \A s, t \in Slots : Unprocessed(s, x)' /\ Unprocessed(t, x)' /\ s # t => Apart(s, t)'
          BY <3>3, <3>4, <3>6 DEF Apart
    <3> QED  BY <3>7, <3>8
  <2> QED  BY <2>1 DEF Fragments
<1>12. Exceptions'
  <2>1. ASSUME NEW x \in Callers, x # c PROVE ExceptionOf(x)'
    BY <1>0, <1>t, <1>x, <2>1, <1>e2, <1>e4, <1>e5, <1>p1, <1>p2, <1>p3, <1>p8, <1>p9, <1>p10, <1>p11,
          <1>p12, <1>fA, <1>fE DEF Typing, Exceptions, ExceptionOf, IsKeyCall
  <2>2. ExceptionOf(c)'
    <3>1. Early(c)' \/ (IsKeyCall(c)' /\ cPc'[c] # "idle") => broken'[c] = FALSE
          /\ call'[c].threw = FALSE
      BY <1>0, <1>t, <1>e1, <1>e2, <1>e3, <1>e4, <1>e5, <1>p1, <1>p2, <1>p3, <1>p8, <1>p9, <1>p10,
            <1>p11, <1>p12, <1>fE DEF Typing, Exceptions, ExceptionOf, IsKeyCall
    <3>2. Active(c)' => slot'[call'[c].first].exception = broken'[c]
      BY <1>0, <1>t, <1>e1, <1>e2, <1>e3, <1>e4, <1>e5, <1>p1, <1>p2, <1>p3, <1>p8, <1>p9, <1>p10,
            <1>p11, <1>p12, <1>fA DEF Typing, Exceptions, ExceptionOf, IsKeyCall
    <3>3. cPc'[c] \in {"free", "signal", "idle"} => call'[c].threw = broken'[c]
      BY <1>0, <1>t, <1>e1, <1>e2, <1>e3, <1>e4, <1>e5, <1>p1, <1>p2, <1>p3, <1>p8, <1>p9, <1>p10,
            <1>p11, <1>p12 DEF Typing, Exceptions, ExceptionOf, IsKeyCall
    <3> QED  BY <3>1, <3>2, <3>3 DEF ExceptionOf
  <2> QED  BY <2>1, <2>2 DEF Exceptions
<1> QED  BY <1>1, <1>2, <1>3, <1>4, <1>5, <1>6, <1>7, <1>8, <1>9, <1>10, <1>11, <1>12 DEF PoolInv

\* The first slot of the group is set free.
LEMMA FreeFirstKept ==
  ASSUME NEW c \in Callers, PoolInv, FreeFirst(c)
  PROVE  PoolInv'
<1>0. TypeOK /\ Phases /\ Mutexes /\ Division /\ Groups /\ Members /\ Holding /\ Counted
      /\ Completion /\ Units /\ Fragments /\ Exceptions  BY DEF PoolInv
<1>t. Typing  BY <1>0, Typed
<1>p1. cPc[c] = "free" /\ ~Active(c)
  BY <1>0, <1>t DEF FreeFirst, Active
<1>p2. LET k == slot[call[c].first] IN k.state # "free" /\ k.kind = "units" /\ k.owner = c
      /\ k.first = call[c].first
  BY <1>0, <1>t, <1>p1 DEF Groups, GroupOf, OwnsFirst
<1>p3. slot[call[c].first].state = "busy"
  BY <1>0, <1>t, <1>p1, <1>p2 DEF Typing, Members, OfGroup, Opened
<1>p4. \A y \in Workers : Working(y) => wSlot[y] # call[c].first
  BY <1>0, <1>t, <1>p1, <1>p2, <1>p3 DEF Members, OfGroup, Opened
<1>p5. \A x \in Callers : x # c /\ (cPc[x] = "free" \/ Opened(x)) => call[x].first # call[c].first
  BY <1>0, <1>t, <1>p1, <1>p2, <1>p3, <1>p4 DEF Groups, GroupOf, OwnsFirst
<1>p6. \A y \in Workers : wPc[y] = "run" /\ ~stopPending => Working(y)
  BY <1>0, <1>t, <1>p1, <1>p2, <1>p3, <1>p4, <1>p5 DEF Working
<1>p7. slot[call[c].first].completed => FALSE
  BY <1>0, <1>t, <1>p1, <1>p2, <1>p3, <1>p4, <1>p5, <1>p6 DEF Typing, Completion, EventOf, Opened
<1>e1. cPc' \in [Callers -> CallStates]
      /\ \A x \in Callers : cPc'[x] = (IF x = c THEN "signal" ELSE cPc[x])
  BY <1>t, CallerGoes DEF Typing, CallStates, FreeFirst, CGoto
<1>e2. slot' \in [Slots -> SlotRecord] /\ \A s \in Slots : slot'[s].kind = slot[s].kind
      /\ slot'[s].owner = slot[s].owner /\ slot'[s].first = slot[s].first
      /\ slot'[s].lo = slot[s].lo /\ slot'[s].hi = slot[s].hi /\ slot'[s].count = slot[s].count
      /\ slot'[s].exception = slot[s].exception /\ slot'[s].completed = slot[s].completed
      /\ slot'[s].state = (IF s = call[c].first THEN "free" ELSE slot[s].state)
  BY <1>t, StateSet DEF Typing, FreeFirst, CGoto
<1>e3. cPc[c] = "free"
  BY DEF FreeFirst
<1>e4. portable' = portable /\ running' = running /\ stopPending' = stopPending
      /\ threadCount' = threadCount /\ enq' = enq /\ deq' = deq /\ enqOwner' = enqOwner
      /\ deqOwner' = deqOwner /\ readyEvt' = readyEvt /\ doneEvt' = doneEvt /\ call' = call
      /\ wPc' = wPc /\ wSlot' = wSlot /\ sPc' = sPc /\ joined' = joined /\ wGroup' = wGroup
      /\ times' = times /\ broken' = broken /\ calls' = calls
  BY DEF FreeFirst, flags, events, stop, history, CGoto
<1>fA. \A x \in Callers : Active(x)' <=> Active(x)
  BY <1>0, <1>t, <1>e1, <1>e2, <1>e3, <1>e4, <1>p1, <1>p2, <1>p3, <1>p4, <1>p5, <1>p6,
        <1>p7 DEF Typing, Active, IsKeyCall
<1>fE. \A x \in Callers : Early(x)' <=> Early(x)
  BY <1>0, <1>t, <1>e1, <1>e2, <1>e3, <1>e4, <1>p1, <1>p2, <1>p3, <1>p4, <1>p5, <1>p6,
        <1>p7 DEF Typing, Early, IsKeyCall
<1>fW. \A y \in Workers : Working(y)' <=> Working(y)
  BY <1>0, <1>t, <1>e1, <1>e2, <1>e3, <1>e4, <1>p1, <1>p2, <1>p3, <1>p4, <1>p5, <1>p6,
        <1>p7 DEF Typing, Working
<1>fS. \A f, s \in Slots : Since(f, s)' <=> Since(f, s)
  BY <1>0, <1>t, <1>e1, <1>e2, <1>e3, <1>e4, <1>p1, <1>p2, <1>p3, <1>p4, <1>p5, <1>p6,
        <1>p7 DEF Typing, Since
<1>fR. \A s \in Slots : InRun(s)' <=> InRun(s)
  BY <1>0, <1>t, <1>e1, <1>e2, <1>e3, <1>e4, <1>p1, <1>p2, <1>p3, <1>p4, <1>p5, <1>p6,
        <1>p7 DEF Typing, InRun
<1>fT. \A x \in Callers : Waiting(x)' = Waiting(x)
  <2>1. ASSUME NEW x \in Callers, NEW s \in Slots PROVE s \in Waiting(x)' <=> s \in Waiting(x)
    BY <1>0, <1>t, <2>1, <1>e1, <1>e2, <1>e3, <1>e4, <1>p1, <1>p2, <1>p3, <1>p4, <1>p5, <1>p6,
          <1>p7 DEF Typing, Waiting
  <2>2. \A x \in Callers : Waiting(x)' \subseteq Slots /\ Waiting(x) \subseteq Slots  BY <1>t, <1>e1,
        <1>e2, <1>e3, <1>e4, <1>p1, <1>p2, <1>p3, <1>p4, <1>p5, <1>p6, <1>p7 DEF Waiting, Slots
  <2> QED  BY <2>1, <2>2
<1>fH. \A x \in Callers : Hands(x)' = Hands(x)
  <2>1. ASSUME NEW x \in Callers, NEW y \in Workers PROVE y \in Hands(x)' <=> y \in Hands(x)
    BY <1>0, <1>t, <2>1, <1>e1, <1>e2, <1>e3, <1>e4, <1>p1, <1>p2, <1>p3, <1>p4, <1>p5, <1>p6, <1>p7,
          <1>fW DEF Typing, Hands
  <2>2. \A x \in Callers : Hands(x)' \subseteq Workers /\ Hands(x) \subseteq Workers  BY DEF Hands
  <2> QED  BY <2>1, <2>2
<1>fU. \A s \in Slots, x \in Callers : Unprocessed(s, x)' <=> Unprocessed(s, x)
  <2>1. \A s \in Slots : slot'[s].kind = slot[s].kind /\ slot'[s].owner = slot[s].owner  BY <1>e2
  <2>2. \A s \in Slots : slot[s].kind = "units" => (slot'[s].state = "ready" <=> slot[s].state = "ready")
    BY <1>t, <1>e2, <1>p3 DEF Typing
  <2> QED  BY <2>1, <2>2, <1>fR DEF Unprocessed
<1>x. \A x \in Callers : x # c => cPc'[x] = cPc[x] /\ broken'[x] = broken[x]
      /\ call'[x].size = call[x].size /\ call'[x].first = call[x].first
      /\ call'[x].left = call[x].left /\ call'[x].next = call[x].next /\ call'[x].per = call[x].per
      /\ call'[x].rem = call[x].rem /\ call'[x].threw = call[x].threw
  BY <1>t, <1>e1, <1>e2, <1>e3, <1>e4, <1>p1, <1>p2, <1>p3, <1>p4, <1>p5, <1>p6, <1>p7 DEF Typing
<1>g. \A x \in Callers : Opened(x) => Opened(x)' /\ call'[x].first = call[x].first
  BY <1>t, <1>e1, <1>e2, <1>e3, <1>e4, <1>p1, <1>p2, <1>p3, <1>p4, <1>p5, <1>p6, <1>p7,
        <1>fA DEF Typing, Opened, Active, IsKeyCall
<1>s. \A s \in Slots : (slot'[s].kind = slot[s].kind /\ slot'[s].owner = slot[s].owner
      /\ slot'[s].first = slot[s].first)
  BY <1>e1, <1>e2, <1>e3, <1>e4, <1>p1, <1>p2, <1>p3, <1>p4, <1>p5, <1>p6, <1>p7
<1>1. TypeOK'
  BY <1>0, <1>t, <1>e1, <1>e2, <1>e3, <1>e4, <1>p1, <1>p2, <1>p3, <1>p4, <1>p5, <1>p6, <1>p7, Flags,
        TypesKept, Constants DEF Typing
<1>2. Phases'
  BY <1>0, <1>t, <1>e1, <1>e2, <1>e3, <1>e4, <1>p1, <1>p2, <1>p3, <1>p4, <1>p5, <1>p6,
        <1>p7 DEF Typing, Phases
<1>3. Mutexes'
  BY <1>0, <1>t, <1>e1, <1>e2, <1>e3, <1>e4, <1>p1, <1>p2, <1>p3, <1>p4, <1>p5, <1>p6, <1>p7,
        PoolAssumption DEF Typing, Mutexes, Phases
<1>4. Division'
  <2>1. ASSUME NEW x \in Callers, x # c PROVE DivisionOf(x)'
    <3>1. Divided(call[x]) => Divided(call'[x])  BY <1>x, <2>1 DEF Divided
    <3> QED  BY <1>0, <1>x, <2>1, <3>1, <1>e4, <1>fA, <1>fE DEF Division, DivisionOf, IsKeyCall
  <2>2. DivisionOf(c)'
    BY <1>0, <1>t, <1>e1, <1>e2, <1>e3, <1>e4, <1>p1, <1>p2, <1>p3, <1>p4, <1>p5, <1>p6, <1>p7, <1>fA,
          <1>fE DEF Typing, Division, DivisionOf, Divided, IsKeyCall, Mutexes, Active, Early
  <2> QED  BY <2>1, <2>2 DEF Division
<1>5. Groups'
  <2>1. ASSUME NEW x \in Callers, x # c PROVE GroupOf(x)'
    BY <1>0, <1>t, <1>x, <2>1, <1>e2, <1>e3, <1>e4, <1>p1, <1>p2, <1>p3, <1>p4, <1>p5, <1>p6, <1>p7,
          <1>fA, <1>fE DEF Typing, Groups, GroupOf, OwnsFirst, Opened, IsFree, Mutexes, Division,
          DivisionOf, Active, IsKeyCall
  <2>2. GroupOf(c)'
    BY <1>0, <1>t, <1>e1, <1>e2, <1>e3, <1>e4, <1>p1, <1>p2, <1>p3, <1>p4, <1>p5, <1>p6, <1>p7, <1>fA,
          <1>fE DEF Typing, Groups, GroupOf, OwnsFirst, Opened, IsFree, Mutexes, Division, DivisionOf,
          Active, IsKeyCall
  <2> QED  BY <2>1, <2>2 DEF Groups
<1>6. Members'
  <2>1. ASSUME NEW s \in Slots, OfGroup(s) PROVE OfGroup(s)'
    BY <1>t, <2>1, <1>g, <1>s, <1>fS DEF Typing, OfGroup
  <2>2. \A s \in Slots : slot'[s].state = "ready" => slot[s].state = "ready"  BY <1>t, <1>e1, <1>e2,
        <1>e3, <1>e4, <1>p1, <1>p2, <1>p3, <1>p4, <1>p5, <1>p6, <1>p7 DEF Typing
  <2>3. \A y \in Workers : Working(y)' => wSlot'[y] = wSlot[y] /\ OfGroup(wSlot[y])
    BY <1>0, <1>t, <1>fW, <1>e1, <1>e2, <1>e3, <1>e4, <1>p1, <1>p2, <1>p3, <1>p4, <1>p5, <1>p6,
          <1>p7 DEF Typing, Members
  <2>4. \A s \in Slots : slot'[s].state = "ready" => OfGroup(s)'  BY <1>0, <2>1, <2>2 DEF Members
  <2>5. \A y \in Workers : Working(y)' => OfGroup(wSlot[y])'  BY <1>t, <1>fW, <2>1, <2>3 DEF Typing
  <2> QED  BY <2>4, <2>5 DEF Members
<1>7. Holding'
  <2>1. ASSUME NEW y \in Workers, Working(y)' PROVE Held(y)'
    BY <1>0, <1>t, <2>1, <1>e1, <1>e2, <1>e3, <1>e4, <1>p1, <1>p2, <1>p3, <1>p4, <1>p5, <1>p6, <1>p7,
          <1>fW DEF Typing, Holding, Held, Mutexes
  <2>2. \A y, z \in Workers : Working(y)' /\ Working(z)' /\ wSlot'[y] = wSlot'[z] => y = z
    BY <1>0, <1>t, <1>e1, <1>e2, <1>e3, <1>e4, <1>p1, <1>p2, <1>p3, <1>p4, <1>p5, <1>p6, <1>p7,
          <1>fW DEF Typing, Holding
  <2> QED  BY <2>1, <2>2 DEF Holding
<1>8. Counted'
  <2>1. ASSUME NEW x \in Callers, Active(x)' PROVE CountOf(x)'
    <3>1. Active(x)  BY <2>1, <1>fA
    <3>2. call'[x].left = call[x].left /\ call'[x].first = call[x].first  BY <1>t, <2>1, <3>1, <1>e1,
          <1>e2, <1>e3, <1>e4, <1>p1, <1>p2, <1>p3, <1>p4, <1>p5, <1>p6, <1>p7, <1>fA DEF Typing
    <3>3. slot'[call[x].first].count = slot[call[x].first].count  BY <1>t, <1>e1, <1>e2, <1>e3, <1>e4,
          <1>p1, <1>p2, <1>p3, <1>p4, <1>p5, <1>p6, <1>p7 DEF Typing
    <3> QED  BY <1>0, <3>1, <3>2, <3>3, <1>fT, <1>fH DEF Counted, CountOf
  <2> QED  BY <2>1 DEF Counted
<1>9. Completion'
  <2>1. ASSUME NEW s \in Slots, slot'[s].completed PROVE EventOf(s)'
    BY <1>0, <1>t, <2>1, <1>g, <1>s, <1>e2, <1>e3, <1>e4, <1>p1, <1>p2, <1>p3, <1>p4, <1>p5, <1>p6,
          <1>p7 DEF Typing, Completion, EventOf
  <2>2. ASSUME NEW y \in Workers, wPc'[y] = "signalItem" PROVE slot'[wGroup'[y]].count = 0
        /\ ~slot'[wGroup'[y]].completed
    BY <1>0, <1>t, <2>2, <1>e2, <1>e3, <1>e4, <1>p1, <1>p2, <1>p3, <1>p4, <1>p5, <1>p6,
          <1>p7 DEF Typing, Completion
  <2>3. \A y, z \in Workers : wPc'[y] = "signalItem" /\ wPc'[z] = "signalItem"
        /\ wGroup'[y] = wGroup'[z] => y = z
    BY <1>0, <1>t, <1>e2, <1>e3, <1>e4, <1>p1, <1>p2, <1>p3, <1>p4, <1>p5, <1>p6, <1>p7 DEF Typing,
          Completion
  <2> QED  BY <2>1, <2>2, <2>3 DEF Completion
<1>10. Units'
  <2>1. DOMAIN times' = Callers  BY <1>0, <1>e1, <1>e2, <1>e3, <1>e4, <1>p1, <1>p2, <1>p3, <1>p4,
        <1>p5, <1>p6, <1>p7 DEF Units
  <2>2. ASSUME NEW x \in Callers, Early(x)' \/ Active(x)' PROVE UnitsOf(x)'
    <3>1. (Early(x) \/ Active(x))  BY <2>2, <1>t, <1>e1, <1>e2, <1>e3, <1>e4, <1>p1, <1>p2, <1>p3,
          <1>p4, <1>p5, <1>p6, <1>p7, <1>fA, <1>fE DEF Typing
    <3>2. call'[x].size = call[x].size /\ call'[x].next = call[x].next /\ times'[x] = times[x]
          BY <1>e1, <1>e2, <1>e3, <1>e4, <1>p1, <1>p2, <1>p3, <1>p4, <1>p5, <1>p6, <1>p7,
          <3>1 DEF Early, Active, IsKeyCall
    <3>3. \A s \in Slots : Unprocessed(s, x) => Unprocessed(s, x)' /\ slot'[s].lo = slot[s].lo
          /\ slot'[s].hi = slot[s].hi
      BY <1>e1, <1>e2, <1>e3, <1>e4, <1>p1, <1>p2, <1>p3, <1>p4, <1>p5, <1>p6, <1>p7, <1>fU
    <3>4. UnitsOf(x)  BY <1>0, <3>1 DEF Units
    <3>5. \A u \in 1 .. call[x].size : Pending(x, u) => Pending(x, u)'  BY <3>3 DEF Pending
    <3> QED  BY <3>2, <3>4, <3>5 DEF UnitsOf
  <2>3. ASSUME NEW x \in Callers, IsKeyCall(x)', cPc'[x] # "idle" PROVE DOMAIN times'[x] = {}
    BY <1>0, <1>e1, <1>e2, <1>e3, <1>e4, <1>p1, <1>p2, <1>p3, <1>p4, <1>p5, <1>p6, <1>p7,
          <2>3 DEF Units, IsKeyCall
  <2>4. ASSUME NEW x \in Callers, cPc'[x] \in {"free", "signal", "idle"} PROVE AllOnce(x)'
    BY <1>0, <1>e1, <1>e2, <1>e3, <1>e4, <1>p1, <1>p2, <1>p3, <1>p4, <1>p5, <1>p6, <1>p7,
          <2>4 DEF Units, IsKeyCall, AllOnce
  <2> QED  BY <2>1, <2>2, <2>3, <2>4 DEF Units
<1>11. Fragments'
  <2>1. ASSUME NEW x \in Callers, Active(x)'
        PROVE  /\ \A s \in Slots : Unprocessed(s, x)' => FragmentOfCall(s, x)'
               /\ \A s, t \in Slots : Unprocessed(s, x)' /\ Unprocessed(t, x)' /\ s # t => Apart(s, t)'
    <3>0. Active(x) \/ Early(x)  BY <2>1, <1>fA, <1>e1, <1>e2, <1>e3, <1>e4, <1>p1, <1>p2, <1>p3,
          <1>p4, <1>p5, <1>p6, <1>p7 DEF Early
    <3>1. \A s \in Slots : Unprocessed(s, x) => Active(x)
      BY <1>0, <1>t DEF Typing, Unprocessed, InRun, Working, Members, OfGroup, Opened
    <3>2. call'[x].next = call[x].next /\ times'[x] = times[x]  BY <2>1, <3>0, <1>fA, <1>e1, <1>e2,
          <1>e3, <1>e4, <1>p1, <1>p2, <1>p3, <1>p4, <1>p5, <1>p6, <1>p7
    <3>3. \A s \in Slots : Unprocessed(s, x) => slot'[s].lo = slot[s].lo
          /\ slot'[s].hi = slot[s].hi  BY <1>e1, <1>e2, <1>e3, <1>e4, <1>p1, <1>p2, <1>p3, <1>p4,
          <1>p5, <1>p6, <1>p7
    <3>4. \A s \in Slots : Unprocessed(s, x)' => Unprocessed(s, x)  BY <1>fU
    <3>5. \A s \in Slots : Unprocessed(s, x) => FragmentOfCall(s, x)  BY <1>0, <3>1 DEF Fragments
    <3>6. \A s, t \in Slots : Unprocessed(s, x) /\ Unprocessed(t, x) /\ s # t => Apart(s, t)  BY <1>0,
          <3>1 DEF Fragments
    <3>7. \A s \in Slots : Unprocessed(s, x)' => FragmentOfCall(s, x)'  BY <3>2, <3>3, <3>4,
          <3>5 DEF FragmentOfCall
    <3>8. \A s, t \in Slots : Unprocessed(s, x)' /\ Unprocessed(t, x)' /\ s # t => Apart(s, t)'
          BY <3>3, <3>4, <3>6 DEF Apart
    <3> QED  BY <3>7, <3>8
  <2> QED  BY <2>1 DEF Fragments
<1>12. Exceptions'
  <2>1. ASSUME NEW x \in Callers, x # c PROVE ExceptionOf(x)'
    BY <1>0, <1>t, <1>x, <2>1, <1>e2, <1>e3, <1>e4, <1>p1, <1>p2, <1>p3, <1>p4, <1>p5, <1>p6, <1>p7,
          <1>fA, <1>fE DEF Typing, Exceptions, ExceptionOf, IsKeyCall
  <2>2. ExceptionOf(c)'
    <3>1. Early(c)' \/ (IsKeyCall(c)' /\ cPc'[c] # "idle") => broken'[c] = FALSE
          /\ call'[c].threw = FALSE
      BY <1>0, <1>t, <1>e1, <1>e2, <1>e3, <1>e4, <1>p1, <1>p2, <1>p3, <1>p4, <1>p5, <1>p6, <1>p7,
            <1>fE DEF Typing, Exceptions, ExceptionOf, IsKeyCall
    <3>2. Active(c)' => slot'[call'[c].first].exception = broken'[c]
      BY <1>0, <1>t, <1>e1, <1>e2, <1>e3, <1>e4, <1>p1, <1>p2, <1>p3, <1>p4, <1>p5, <1>p6, <1>p7,
            <1>fA DEF Typing, Exceptions, ExceptionOf, IsKeyCall
    <3>3. cPc'[c] \in {"free", "signal", "idle"} => call'[c].threw = broken'[c]
      BY <1>0, <1>t, <1>e1, <1>e2, <1>e3, <1>e4, <1>p1, <1>p2, <1>p3, <1>p4, <1>p5, <1>p6,
            <1>p7 DEF Typing, Exceptions, ExceptionOf, IsKeyCall
    <3> QED  BY <3>1, <3>2, <3>3 DEF ExceptionOf
  <2> QED  BY <2>1, <2>2 DEF Exceptions
<1> QED  BY <1>1, <1>2, <1>3, <1>4, <1>5, <1>6, <1>7, <1>8, <1>9, <1>10, <1>11, <1>12 DEF PoolInv

\* A worker takes a fragment: it is in its hands, no longer waiting.
LEMMA TakeItemKept ==
  ASSUME NEW w \in Workers, PoolInv, Take(w), ~stopPending
  PROVE  PoolInv'
<1>0. TypeOK /\ Phases /\ Mutexes /\ Division /\ Groups /\ Members /\ Holding /\ Counted
      /\ Completion /\ Units /\ Fragments /\ Exceptions  BY DEF PoolInv
<1>t. Typing  BY <1>0, Typed
<1>p1. wPc[w] = "take" /\ ~Working(w) /\ slot[wSlot[w]].state = "ready"
  BY <1>0, <1>t DEF Take, Working, Mutexes
<1>p2. \A y \in Workers : Working(y) => wSlot[y] # wSlot[w] /\ y # w
  BY <1>0, <1>t, <1>p1 DEF Holding, Held
<1>p3. \A y \in Workers : y # w => wPc[y] # "take"
  BY <1>0, <1>t, <1>p1, <1>p2 DEF Mutexes
<1>e1. wPc' \in [Workers -> WorkStates]
      /\ \A x \in Workers : wPc'[x] = (IF x = w THEN "run" ELSE wPc[x])
  BY <1>t, WorkerGoes DEF Typing, WorkStates, Take, WGoto
<1>e2. slot' \in [Slots -> SlotRecord] /\ \A s \in Slots : slot'[s].kind = slot[s].kind
      /\ slot'[s].owner = slot[s].owner /\ slot'[s].first = slot[s].first
      /\ slot'[s].lo = slot[s].lo /\ slot'[s].hi = slot[s].hi /\ slot'[s].count = slot[s].count
      /\ slot'[s].exception = slot[s].exception /\ slot'[s].completed = slot[s].completed
      /\ slot'[s].state = (IF s = wSlot[w] THEN "busy" ELSE slot[s].state)
  BY <1>t, StateSet DEF Typing, Take, WGoto
<1>e3. wGroup' \in [Workers -> Slots]
      /\ \A x \in Workers : wGroup'[x] = IF x = w THEN slot[wSlot[w]].first ELSE wGroup[x]
  BY <1>t DEF Typing, Take
<1>e4. deqOwner' = NoOne /\ wPc[w] = "take"
  BY DEF Take
<1>e5. portable' = portable /\ running' = running /\ stopPending' = stopPending
      /\ threadCount' = threadCount /\ enq' = enq /\ deq' = deq /\ enqOwner' = enqOwner
      /\ readyEvt' = readyEvt /\ doneEvt' = doneEvt /\ cPc' = cPc /\ call' = call /\ wSlot' = wSlot
      /\ sPc' = sPc /\ joined' = joined /\ times' = times /\ broken' = broken /\ calls' = calls
  BY DEF Take, flags, events, stop, history, WGoto
<1>fA. \A x \in Callers : Active(x)' <=> Active(x)
  BY <1>0, <1>t, <1>e1, <1>e2, <1>e3, <1>e4, <1>e5, <1>p1, <1>p2, <1>p3 DEF Typing, Active, IsKeyCall
<1>fE. \A x \in Callers : Early(x)' <=> Early(x)
  BY <1>0, <1>t, <1>e1, <1>e2, <1>e3, <1>e4, <1>e5, <1>p1, <1>p2, <1>p3 DEF Typing, Early, IsKeyCall
<1>fW. \A y \in Workers : Working(y)' <=> (Working(y) \/ y = w)
  BY <1>0, <1>t, <1>e1, <1>e2, <1>e3, <1>e4, <1>e5, <1>p1, <1>p2, <1>p3 DEF Typing, Working
<1>fS. \A f, s \in Slots : Since(f, s)' <=> Since(f, s)
  BY <1>0, <1>t, <1>e1, <1>e2, <1>e3, <1>e4, <1>e5, <1>p1, <1>p2, <1>p3 DEF Typing, Since
<1>fR. \A s \in Slots : InRun(s)' <=> (InRun(s) \/ s = wSlot[w])
  BY <1>0, <1>t, <1>e1, <1>e2, <1>e3, <1>e4, <1>e5, <1>p1, <1>p2, <1>p3 DEF Typing, InRun
<1>fT. \A x \in Callers : Waiting(x)' = Waiting(x) \ {wSlot[w]}
  <2>1. ASSUME NEW x \in Callers,
        NEW s \in Slots PROVE s \in Waiting(x)' <=> s \in Waiting(x) \ {wSlot[w]}
    BY <1>0, <1>t, <2>1, <1>e1, <1>e2, <1>e3, <1>e4, <1>e5, <1>p1, <1>p2, <1>p3 DEF Typing, Waiting
  <2>2. \A x \in Callers : Waiting(x)' \subseteq Slots /\ Waiting(x) \ {wSlot[w]} \subseteq Slots
        BY <1>t, <1>e1, <1>e2, <1>e3, <1>e4, <1>e5, <1>p1, <1>p2, <1>p3 DEF Waiting, Slots
  <2> QED  BY <2>1, <2>2
<1>fH. \A x \in Callers : Hands(x)' = (IF slot[wSlot[w]].kind = "units"
      /\ slot[wSlot[w]].owner = x THEN Hands(x) \cup {w} ELSE Hands(x))
  BY <1>0, <1>t, <1>e1, <1>e2, <1>e3, <1>e4, <1>e5, <1>p1, <1>p2, <1>p3, <1>fW, <1>fR DEF Typing, Hands
<1>fU. \A s \in Slots, x \in Callers : Unprocessed(s, x)' <=> Unprocessed(s, x)
  BY <1>0, <1>t, <1>e1, <1>e2, <1>e3, <1>e4, <1>e5, <1>p1, <1>p2, <1>p3, <1>fW, <1>fR DEF Typing,
        Unprocessed
<1>g. \A x \in Callers : Opened(x) => Opened(x)' /\ call'[x].first = call[x].first
  BY <1>t, <1>e1, <1>e2, <1>e3, <1>e4, <1>e5, <1>p1, <1>p2, <1>p3, <1>fA DEF Typing, Opened, Active,
        IsKeyCall
<1>s. \A s \in Slots : (slot'[s].kind = slot[s].kind /\ slot'[s].owner = slot[s].owner
      /\ slot'[s].first = slot[s].first)
  BY <1>e1, <1>e2, <1>e3, <1>e4, <1>e5, <1>p1, <1>p2, <1>p3
<1>1. TypeOK'
  BY <1>0, <1>t, <1>e1, <1>e2, <1>e3, <1>e4, <1>e5, <1>p1, <1>p2, <1>p3, Flags, TypesKept,
        Constants DEF Typing
<1>2. Phases'
  BY <1>0, <1>t, <1>e1, <1>e2, <1>e3, <1>e4, <1>e5, <1>p1, <1>p2, <1>p3 DEF Typing, Phases
<1>3. Mutexes'
  BY <1>0, <1>t, <1>e1, <1>e2, <1>e3, <1>e4, <1>e5, <1>p1, <1>p2, <1>p3, PoolAssumption DEF Typing,
        Mutexes, Phases
<1>4. Division'
  <2>1. ASSUME NEW x \in Callers PROVE DivisionOf(x)'
    BY <1>0, <1>t, <2>1, <1>e1, <1>e2, <1>e3, <1>e4, <1>e5, <1>p1, <1>p2, <1>p3, <1>fA,
          <1>fE DEF Typing, Division, DivisionOf, Divided, IsKeyCall, Mutexes, Active, Early
  <2> QED  BY <2>1 DEF Division
<1>5. Groups'
  <2>1. \A s \in Slots : slot'[s].state = "free" <=> slot[s].state = "free"  BY <1>p1, <1>t, <1>e1,
        <1>e2, <1>e3, <1>e4, <1>e5, <1>p1, <1>p2, <1>p3 DEF Typing
  <2>2. \A x \in Callers : OwnsFirst(x) => OwnsFirst(x)'  BY <2>1, <1>s, <1>t, <1>e1, <1>e2, <1>e3,
        <1>e4, <1>e5, <1>p1, <1>p2, <1>p3 DEF Typing, OwnsFirst
  <2>3. ASSUME NEW x \in Callers PROVE GroupOf(x)'
    <3>1. call' = call /\ cPc' = cPc /\ enq' = enq  BY <1>e1, <1>e2, <1>e3, <1>e4, <1>e5, <1>p1, <1>p2,
          <1>p3
    <3>2. IsFree(enq) => IsFree(enq)'  BY <2>1, <1>t, <1>e1, <1>e2, <1>e3, <1>e4, <1>e5, <1>p1, <1>p2,
          <1>p3 DEF Typing, IsFree
    <3>3. GroupOf(x) /\ (Active(x)' <=> Active(x)) /\ (Opened(x)' <=> Opened(x))  BY <1>0, <3>1,
          <1>fA DEF Groups, Opened
    <3> QED  BY <2>2, <3>1, <3>2, <3>3 DEF GroupOf
  <2> QED  BY <2>3 DEF Groups
<1>6. Members'
  <2>1. ASSUME NEW s \in Slots, OfGroup(s) PROVE OfGroup(s)'
    BY <1>t, <2>1, <1>g, <1>s, <1>fS DEF Typing, OfGroup
  <2>2. \A s \in Slots : slot'[s].state = "ready" => slot[s].state = "ready"  BY <1>t, <1>e1, <1>e2,
        <1>e3, <1>e4, <1>e5, <1>p1, <1>p2, <1>p3 DEF Typing
  <2>3. \A y \in Workers : Working(y)' => wSlot'[y] = wSlot[y] /\ OfGroup(wSlot[y])
    BY <1>0, <1>t, <1>fW, <1>e1, <1>e2, <1>e3, <1>e4, <1>e5, <1>p1, <1>p2, <1>p3 DEF Typing, Members
  <2>4. \A s \in Slots : slot'[s].state = "ready" => OfGroup(s)'  BY <1>0, <2>1, <2>2 DEF Members
  <2>5. \A y \in Workers : Working(y)' => OfGroup(wSlot[y])'  BY <1>t, <1>fW, <2>1, <2>3 DEF Typing
  <2> QED  BY <2>4, <2>5 DEF Members
<1>7. Holding'
  <2>1. ASSUME NEW y \in Workers, y # w, Working(y)' PROVE Held(y)'
    BY <1>0, <1>t, <2>1, <1>e1, <1>e2, <1>e3, <1>e4, <1>e5, <1>p1, <1>p2, <1>p3, <1>fW DEF Typing,
          Holding, Held
  <2>2. Working(w)' => Held(w)'
    <3>1. wSlot' = wSlot /\ wSlot[w] \in Slots  BY <1>t, <1>e5 DEF Typing
    <3>2. slot'[wSlot[w]].state = "busy" /\ slot'[wSlot[w]].first = slot[wSlot[w]].first  BY <1>e2, <3>1
    <3>3. wGroup'[w] = slot[wSlot[w]].first /\ wPc'[w] = "run"  BY <1>e1, <1>e3
    <3> QED  BY <3>1, <3>2, <3>3 DEF Held
  <2>3. \A y, z \in Workers : Working(y)' /\ Working(z)' /\ wSlot'[y] = wSlot'[z] => y = z
    BY <1>0, <1>t, <1>e1, <1>e2, <1>e3, <1>e4, <1>e5, <1>p1, <1>p2, <1>p3, <1>fW DEF Typing, Holding
  <2>4. \A y \in Workers : Working(y)' => Held(y)'  BY <2>1, <2>2
  <2> QED  BY <2>3, <2>4 DEF Holding
<1>8. Counted'
  <2>1. ASSUME NEW x \in Callers, Active(x)' PROVE CountOf(x)'
    <3>1. Active(x) /\ CountOf(x)  BY <1>0, <2>1, <1>fA DEF Counted
    <3>2. call'[x].left = call[x].left /\ call'[x].first = call[x].first
          /\ slot'[call[x].first].count = slot[call[x].first].count
      BY <1>t, <1>e1, <1>e2, <1>e3, <1>e4, <1>e5, <1>p1, <1>p2, <1>p3 DEF Typing
    <3>3. w \notin Hands(x) /\ IsFiniteSet(Waiting(x)) /\ IsFiniteSet(Hands(x))  BY <1>p1,
          Finite DEF Hands
    <3>4. CASE slot[wSlot[w]].kind = "units" /\ slot[wSlot[w]].owner = x
      <4>1. wSlot[w] \in Waiting(x)  BY <1>t, <1>p1, <3>4 DEF Typing, Waiting
      <4>2. Cardinality(Waiting(x)') = Cardinality(Waiting(x)) - 1 /\ Cardinality(Waiting(x)) \in Nat
        BY <4>1, <3>3, <1>fT, RemoveOne
      <4>0. Hands(x)' = Hands(x) \cup {w}  BY <3>4, <1>fH
      <4>3. Cardinality(Hands(x)') = Cardinality(Hands(x)) + 1 /\ Cardinality(Hands(x)) \in Nat
        BY <3>3, <4>0, AddOne
      <4>4. call[x].left \in Nat  BY <1>t DEF Typing
      <4> QED  BY <3>1, <3>2, <4>2, <4>3, <4>4 DEF CountOf
    <3>5. CASE ~(slot[wSlot[w]].kind = "units" /\ slot[wSlot[w]].owner = x)
      <4>1. Waiting(x)' = Waiting(x)  BY <3>5, <1>fT DEF Waiting
      <4>2. Hands(x)' = Hands(x)  BY <3>5, <1>fH
      <4> QED  BY <3>1, <3>2, <4>1, <4>2 DEF CountOf
    <3> QED  BY <3>4, <3>5
  <2> QED  BY <2>1 DEF Counted
<1>9. Completion'
  <2>1. ASSUME NEW s \in Slots, slot'[s].completed PROVE EventOf(s)'
    <3>1. slot[s].completed /\ EventOf(s)  BY <1>0, <2>1, <1>e2 DEF Completion
    <3>2. slot'[s].count = slot[s].count  BY <3>1, <1>e2
    <3>3. slot'[s].kind = slot[s].kind /\ slot'[s].owner = slot[s].owner  BY <1>s
    <3>4. PICK x \in Callers : x = slot[s].owner /\ Opened(x) /\ call[x].first = s  BY <3>1 DEF EventOf
    <3>5. Opened(x)' /\ call'[x].first = s  BY <1>g, <3>4
    <3> QED  BY <3>1, <3>2, <3>3, <3>4, <3>5 DEF EventOf, Opened, Active, IsKeyCall
  <2>2. ASSUME NEW y \in Workers, wPc'[y] = "signalItem" PROVE slot'[wGroup'[y]].count = 0
        /\ ~slot'[wGroup'[y]].completed
    <3>1. y # w /\ wPc[y] = "signalItem"  BY <1>e1, <2>2
    <3>2. wGroup'[y] = wGroup[y] /\ wGroup[y] \in Slots  BY <1>t, <1>e3, <3>1 DEF Typing
    <3>3. slot[wGroup[y]].count = 0 /\ ~slot[wGroup[y]].completed  BY <1>0, <3>1 DEF Completion
    <3>4. slot'[wGroup[y]].count = slot[wGroup[y]].count
          /\ slot'[wGroup[y]].completed = slot[wGroup[y]].completed
      BY <1>e2, <3>1, <3>2
    <3> QED  BY <3>2, <3>3, <3>4
  <2>3. ASSUME NEW y \in Workers, NEW z \in Workers, wPc'[y] = "signalItem", wPc'[z] = "signalItem",
        wGroup'[y] = wGroup'[z]
        PROVE  y = z
    <3>1. y # w /\ wPc[y] = "signalItem" /\ z # w /\ wPc[z] = "signalItem"  BY <1>e1, <2>3
    <3>2. wGroup'[y] = wGroup[y] /\ wGroup'[z] = wGroup[z]  BY <1>e3, <3>1
    <3> QED  BY <1>0, <2>3, <3>1, <3>2 DEF Completion
  <2> QED  BY <2>1, <2>2, <2>3 DEF Completion
<1>10. Units'
  <2>1. DOMAIN times' = Callers  BY <1>0, <1>e1, <1>e2, <1>e3, <1>e4, <1>e5, <1>p1, <1>p2,
        <1>p3 DEF Units
  <2>2. ASSUME NEW x \in Callers, Early(x)' \/ Active(x)' PROVE UnitsOf(x)'
    <3>1. (Early(x) \/ Active(x))  BY <2>2, <1>t, <1>e1, <1>e2, <1>e3, <1>e4, <1>e5, <1>p1, <1>p2,
          <1>p3, <1>fA, <1>fE DEF Typing
    <3>2. call'[x].size = call[x].size /\ call'[x].next = call[x].next /\ times'[x] = times[x]
          BY <1>e1, <1>e2, <1>e3, <1>e4, <1>e5, <1>p1, <1>p2, <1>p3, <3>1 DEF Early, Active, IsKeyCall
    <3>3. \A s \in Slots : Unprocessed(s, x) => Unprocessed(s, x)' /\ slot'[s].lo = slot[s].lo
          /\ slot'[s].hi = slot[s].hi
      BY <1>e1, <1>e2, <1>e3, <1>e4, <1>e5, <1>p1, <1>p2, <1>p3, <1>fU
    <3>4. UnitsOf(x)  BY <1>0, <3>1 DEF Units
    <3>5. \A u \in 1 .. call[x].size : Pending(x, u) => Pending(x, u)'  BY <3>3 DEF Pending
    <3> QED  BY <3>2, <3>4, <3>5 DEF UnitsOf
  <2>3. ASSUME NEW x \in Callers, IsKeyCall(x)', cPc'[x] # "idle" PROVE DOMAIN times'[x] = {}
    BY <1>0, <1>e1, <1>e2, <1>e3, <1>e4, <1>e5, <1>p1, <1>p2, <1>p3, <2>3 DEF Units, IsKeyCall
  <2>4. ASSUME NEW x \in Callers, cPc'[x] \in {"free", "signal", "idle"} PROVE AllOnce(x)'
    BY <1>0, <1>e1, <1>e2, <1>e3, <1>e4, <1>e5, <1>p1, <1>p2, <1>p3, <2>4 DEF Units, IsKeyCall, AllOnce
  <2> QED  BY <2>1, <2>2, <2>3, <2>4 DEF Units
<1>11. Fragments'
  <2>1. ASSUME NEW x \in Callers, Active(x)'
        PROVE  /\ \A s \in Slots : Unprocessed(s, x)' => FragmentOfCall(s, x)'
               /\ \A s, t \in Slots : Unprocessed(s, x)' /\ Unprocessed(t, x)' /\ s # t => Apart(s, t)'
    <3>0. Active(x) \/ Early(x)  BY <2>1, <1>fA, <1>e1, <1>e2, <1>e3, <1>e4, <1>e5, <1>p1, <1>p2,
          <1>p3 DEF Early
    <3>1. \A s \in Slots : Unprocessed(s, x) => Active(x)
      BY <1>0, <1>t DEF Typing, Unprocessed, InRun, Working, Members, OfGroup, Opened
    <3>2. call'[x].next = call[x].next /\ times'[x] = times[x]  BY <2>1, <3>0, <1>fA, <1>e1, <1>e2,
          <1>e3, <1>e4, <1>e5, <1>p1, <1>p2, <1>p3
    <3>3. \A s \in Slots : Unprocessed(s, x) => slot'[s].lo = slot[s].lo
          /\ slot'[s].hi = slot[s].hi  BY <1>e1, <1>e2, <1>e3, <1>e4, <1>e5, <1>p1, <1>p2, <1>p3
    <3>4. \A s \in Slots : Unprocessed(s, x)' => Unprocessed(s, x)  BY <1>fU
    <3>5. \A s \in Slots : Unprocessed(s, x) => FragmentOfCall(s, x)  BY <1>0, <3>1 DEF Fragments
    <3>6. \A s, t \in Slots : Unprocessed(s, x) /\ Unprocessed(t, x) /\ s # t => Apart(s, t)  BY <1>0,
          <3>1 DEF Fragments
    <3>7. \A s \in Slots : Unprocessed(s, x)' => FragmentOfCall(s, x)'  BY <3>2, <3>3, <3>4,
          <3>5 DEF FragmentOfCall
    <3>8. \A s, t \in Slots : Unprocessed(s, x)' /\ Unprocessed(t, x)' /\ s # t => Apart(s, t)'
          BY <3>3, <3>4, <3>6 DEF Apart
    <3> QED  BY <3>7, <3>8
  <2> QED  BY <2>1 DEF Fragments
<1>12. Exceptions'
  <2>1. ASSUME NEW x \in Callers PROVE ExceptionOf(x)'
    BY <1>0, <1>t, <2>1, <1>e1, <1>e2, <1>e3, <1>e4, <1>e5, <1>p1, <1>p2, <1>p3, <1>fA,
          <1>fE DEF Typing, Exceptions, ExceptionOf, IsKeyCall
  <2> QED  BY <2>1 DEF Exceptions
<1> QED  BY <1>1, <1>2, <1>3, <1>4, <1>5, <1>6, <1>7, <1>8, <1>9, <1>10, <1>11, <1>12 DEF PoolInv

\* A worker takes a slot because of the stop.
LEMMA TakeStopKept ==
  ASSUME NEW w \in Workers, PoolInv, Take(w), stopPending
  PROVE  PoolInv'
<1>0. TypeOK /\ Phases /\ Mutexes /\ Division /\ Groups /\ Members /\ Holding /\ Counted
      /\ Completion /\ Units /\ Fragments /\ Exceptions  BY DEF PoolInv
<1>t. Typing  BY <1>0, Typed
<1>p1. wPc[w] = "take" /\ ~Working(w)
  BY <1>0, <1>t DEF Take, Working
<1>p2. \A x \in Callers : ~Active(x) /\ ~Early(x) /\ cPc[x] = "idle"
  BY <1>0, <1>t, <1>p1 DEF Phases, Active, Early
<1>p3. \A s \in Slots : slot[s].state = "ready" => slot[s].kind # "units"
  BY <1>0, <1>t, <1>p1, <1>p2 DEF Members, OfGroup, Opened
<1>p4. \A y \in Workers : Working(y) => wPc[y] = "freeSlot"
  BY <1>0, <1>t, <1>p1, <1>p2, <1>p3 DEF Typing, Working, Members, OfGroup, Opened, Holding, Held
<1>e1. wPc' \in [Workers -> WorkStates]
      /\ \A x \in Workers : wPc'[x] = (IF x = w THEN "run" ELSE wPc[x])
  BY <1>t, WorkerGoes DEF Typing, WorkStates, Take, WGoto
<1>e2. slot' \in [Slots -> SlotRecord] /\ \A s \in Slots : slot'[s].kind = slot[s].kind
      /\ slot'[s].owner = slot[s].owner /\ slot'[s].first = slot[s].first
      /\ slot'[s].lo = slot[s].lo /\ slot'[s].hi = slot[s].hi /\ slot'[s].count = slot[s].count
      /\ slot'[s].exception = slot[s].exception /\ slot'[s].completed = slot[s].completed
      /\ slot'[s].state = (IF s = wSlot[w] THEN "busy" ELSE slot[s].state)
  BY <1>t, StateSet DEF Typing, Take, WGoto
<1>e3. wGroup' \in [Workers -> Slots]
      /\ \A x \in Workers : wGroup'[x] = IF x = w THEN slot[wSlot[w]].first ELSE wGroup[x]
  BY <1>t DEF Typing, Take
<1>e4. deqOwner' = NoOne /\ wPc[w] = "take"
  BY DEF Take
<1>e5. portable' = portable /\ running' = running /\ stopPending' = stopPending
      /\ threadCount' = threadCount /\ enq' = enq /\ deq' = deq /\ enqOwner' = enqOwner
      /\ readyEvt' = readyEvt /\ doneEvt' = doneEvt /\ cPc' = cPc /\ call' = call /\ wSlot' = wSlot
      /\ sPc' = sPc /\ joined' = joined /\ times' = times /\ broken' = broken /\ calls' = calls
  BY DEF Take, flags, events, stop, history, WGoto
<1>fA. \A x \in Callers : Active(x)' <=> Active(x)
  BY <1>0, <1>t, <1>e1, <1>e2, <1>e3, <1>e4, <1>e5, <1>p1, <1>p2, <1>p3, <1>p4 DEF Typing, Active,
        IsKeyCall
<1>fE. \A x \in Callers : Early(x)' <=> Early(x)
  BY <1>0, <1>t, <1>e1, <1>e2, <1>e3, <1>e4, <1>e5, <1>p1, <1>p2, <1>p3, <1>p4 DEF Typing, Early,
        IsKeyCall
<1>fW. \A y \in Workers : Working(y)' <=> Working(y)
  BY <1>0, <1>t, <1>e1, <1>e2, <1>e3, <1>e4, <1>e5, <1>p1, <1>p2, <1>p3, <1>p4 DEF Typing, Working
<1>fS. \A f, s \in Slots : Since(f, s)' <=> Since(f, s)
  BY <1>0, <1>t, <1>e1, <1>e2, <1>e3, <1>e4, <1>e5, <1>p1, <1>p2, <1>p3, <1>p4 DEF Typing, Since
<1>fR. \A s \in Slots : InRun(s)' <=> InRun(s)
  BY <1>0, <1>t, <1>e1, <1>e2, <1>e3, <1>e4, <1>e5, <1>p1, <1>p2, <1>p3, <1>p4 DEF Typing, InRun
<1>fT. \A x \in Callers : Waiting(x)' = Waiting(x)
  <2>1. ASSUME NEW x \in Callers, NEW s \in Slots PROVE s \in Waiting(x)' <=> s \in Waiting(x)
    BY <1>0, <1>t, <2>1, <1>e1, <1>e2, <1>e3, <1>e4, <1>e5, <1>p1, <1>p2, <1>p3, <1>p4 DEF Typing,
          Waiting
  <2>2. \A x \in Callers : Waiting(x)' \subseteq Slots /\ Waiting(x) \subseteq Slots  BY <1>t, <1>e1,
        <1>e2, <1>e3, <1>e4, <1>e5, <1>p1, <1>p2, <1>p3, <1>p4 DEF Waiting, Slots
  <2> QED  BY <2>1, <2>2
<1>fH. \A x \in Callers : Hands(x)' = Hands(x)
  <2>1. ASSUME NEW x \in Callers, NEW y \in Workers PROVE y \in Hands(x)' <=> y \in Hands(x)
    BY <1>0, <1>t, <2>1, <1>e1, <1>e2, <1>e3, <1>e4, <1>e5, <1>p1, <1>p2, <1>p3, <1>p4,
          <1>fW DEF Typing, Hands
  <2>2. \A x \in Callers : Hands(x)' \subseteq Workers /\ Hands(x) \subseteq Workers  BY DEF Hands
  <2> QED  BY <2>1, <2>2
<1>fU. \A s \in Slots, x \in Callers : Unprocessed(s, x)' <=> Unprocessed(s, x)
  <2>1. \A s \in Slots : slot'[s].kind = slot[s].kind /\ slot'[s].owner = slot[s].owner  BY <1>e2
  <2>2. \A s \in Slots : slot[s].kind = "units" => (slot'[s].state = "ready" <=> slot[s].state = "ready")
    BY <1>t, <1>e2, <1>p3 DEF Typing
  <2> QED  BY <2>1, <2>2, <1>fR DEF Unprocessed
<1>g. \A x \in Callers : Opened(x) => Opened(x)' /\ call'[x].first = call[x].first
  BY <1>t, <1>e1, <1>e2, <1>e3, <1>e4, <1>e5, <1>p1, <1>p2, <1>p3, <1>p4, <1>fA DEF Typing, Opened,
        Active, IsKeyCall
<1>s. \A s \in Slots : (slot'[s].kind = slot[s].kind /\ slot'[s].owner = slot[s].owner
      /\ slot'[s].first = slot[s].first)
  BY <1>e1, <1>e2, <1>e3, <1>e4, <1>e5, <1>p1, <1>p2, <1>p3, <1>p4
<1>1. TypeOK'
  BY <1>0, <1>t, <1>e1, <1>e2, <1>e3, <1>e4, <1>e5, <1>p1, <1>p2, <1>p3, <1>p4, Flags, TypesKept,
        Constants DEF Typing
<1>2. Phases'
  BY <1>0, <1>t, <1>e1, <1>e2, <1>e3, <1>e4, <1>e5, <1>p1, <1>p2, <1>p3, <1>p4 DEF Typing, Phases
<1>3. Mutexes'
  <2>1. cPc' = cPc /\ enqOwner' = enqOwner /\ deqOwner' = NoOne  BY <1>e4, <1>e5
  <2>2. \A y \in Workers : y # w => wPc'[y] = wPc[y]  BY <1>e1
  <2>3. deqOwner = w /\ wPc'[w] \notin {"check", "wait", "take"}  BY <1>0, <1>e1, <1>p1 DEF Mutexes
  <2>4. \A y \in Workers : wPc'[y] \notin {"check", "wait", "take"}  BY <1>0, <2>2, <2>3 DEF Mutexes
  <2>5. \A y \in Workers : deqOwner' # y  BY <2>1, PoolAssumption
  <2>6. \A x \in Callers :
          cPc'[x] \in {"first", "firstWait", "next", "slotWait", "ready", "unlock"} <=> enqOwner' = x
    BY <1>0, <2>1 DEF Mutexes
  <2> QED  BY <2>4, <2>5, <2>6 DEF Mutexes
<1>4. Division'
  <2>1. ASSUME NEW x \in Callers PROVE DivisionOf(x)'
    BY <1>0, <1>t, <2>1, <1>e1, <1>e2, <1>e3, <1>e4, <1>e5, <1>p1, <1>p2, <1>p3, <1>p4, <1>fA,
          <1>fE DEF Typing, Division, DivisionOf, Divided, IsKeyCall, Mutexes, Active, Early
  <2> QED  BY <2>1 DEF Division
<1>5. Groups'
  <2>1. ASSUME NEW x \in Callers PROVE GroupOf(x)'
    BY <1>0, <1>t, <2>1, <1>e1, <1>e2, <1>e3, <1>e4, <1>e5, <1>p1, <1>p2, <1>p3, <1>p4, <1>fA,
          <1>fE DEF Typing, Groups, GroupOf, OwnsFirst, Opened, IsFree, Mutexes, Division, DivisionOf,
          Active, IsKeyCall
  <2> QED  BY <2>1 DEF Groups
<1>6. Members'
  <2>1. ASSUME NEW s \in Slots, OfGroup(s) PROVE OfGroup(s)'
    BY <1>t, <2>1, <1>g, <1>s, <1>fS DEF Typing, OfGroup
  <2>2. \A s \in Slots : slot'[s].state = "ready" => slot[s].state = "ready"  BY <1>t, <1>e1, <1>e2,
        <1>e3, <1>e4, <1>e5, <1>p1, <1>p2, <1>p3, <1>p4 DEF Typing
  <2>3. \A y \in Workers : Working(y)' => wSlot'[y] = wSlot[y] /\ OfGroup(wSlot[y])
    BY <1>0, <1>t, <1>fW, <1>e1, <1>e2, <1>e3, <1>e4, <1>e5, <1>p1, <1>p2, <1>p3, <1>p4 DEF Typing,
          Members
  <2>4. \A s \in Slots : slot'[s].state = "ready" => OfGroup(s)'  BY <1>0, <2>1, <2>2 DEF Members
  <2>5. \A y \in Workers : Working(y)' => OfGroup(wSlot[y])'  BY <1>t, <1>fW, <2>1, <2>3 DEF Typing
  <2> QED  BY <2>4, <2>5 DEF Members
<1>7. Holding'
  <2>1. ASSUME NEW y \in Workers, y # w, Working(y)' PROVE Held(y)'
    BY <1>0, <1>t, <2>1, <1>e1, <1>e2, <1>e3, <1>e4, <1>e5, <1>p1, <1>p2, <1>p3, <1>p4,
          <1>fW DEF Typing, Holding, Held
  <2>2. Working(w)' => Held(w)'
    BY <1>0, <1>t, <1>e1, <1>e2, <1>e3, <1>e4, <1>e5, <1>p1, <1>p2, <1>p3, <1>p4, <1>fW DEF Typing,
          Holding, Held, Mutexes
  <2>3. \A y, z \in Workers : Working(y)' /\ Working(z)' /\ wSlot'[y] = wSlot'[z] => y = z
    BY <1>0, <1>t, <1>e1, <1>e2, <1>e3, <1>e4, <1>e5, <1>p1, <1>p2, <1>p3, <1>p4, <1>fW DEF Typing,
          Holding
  <2>4. \A y \in Workers : Working(y)' => Held(y)'  BY <2>1, <2>2
  <2> QED  BY <2>3, <2>4 DEF Holding
<1>8. Counted'
  <2>1. ASSUME NEW x \in Callers, Active(x)' PROVE CountOf(x)'
    <3>1. Active(x)  BY <2>1, <1>fA
    <3>2. call'[x].left = call[x].left /\ call'[x].first = call[x].first  BY <1>t, <2>1, <3>1, <1>e1,
          <1>e2, <1>e3, <1>e4, <1>e5, <1>p1, <1>p2, <1>p3, <1>p4, <1>fA DEF Typing
    <3>3. slot'[call[x].first].count = slot[call[x].first].count  BY <1>t, <1>e1, <1>e2, <1>e3, <1>e4,
          <1>e5, <1>p1, <1>p2, <1>p3, <1>p4 DEF Typing
    <3> QED  BY <1>0, <3>1, <3>2, <3>3, <1>fT, <1>fH DEF Counted, CountOf
  <2> QED  BY <2>1 DEF Counted
<1>9. Completion'
  <2>1. ASSUME NEW s \in Slots, slot'[s].completed PROVE EventOf(s)'
    <3>1. slot[s].completed /\ EventOf(s)  BY <1>0, <2>1, <1>e2 DEF Completion
    <3>2. slot'[s].count = slot[s].count  BY <3>1, <1>e2
    <3>3. slot'[s].kind = slot[s].kind /\ slot'[s].owner = slot[s].owner  BY <1>s
    <3>4. PICK x \in Callers : x = slot[s].owner /\ Opened(x) /\ call[x].first = s  BY <3>1 DEF EventOf
    <3>5. Opened(x)' /\ call'[x].first = s  BY <1>g, <3>4
    <3> QED  BY <3>1, <3>2, <3>3, <3>4, <3>5 DEF EventOf, Opened, Active, IsKeyCall
  <2>2. ASSUME NEW y \in Workers, wPc'[y] = "signalItem" PROVE slot'[wGroup'[y]].count = 0
        /\ ~slot'[wGroup'[y]].completed
    <3>1. y # w /\ wPc[y] = "signalItem"  BY <1>e1, <2>2
    <3>2. wGroup'[y] = wGroup[y] /\ wGroup[y] \in Slots  BY <1>t, <1>e3, <3>1 DEF Typing
    <3>3. slot[wGroup[y]].count = 0 /\ ~slot[wGroup[y]].completed  BY <1>0, <3>1 DEF Completion
    <3>4. slot'[wGroup[y]].count = slot[wGroup[y]].count
          /\ slot'[wGroup[y]].completed = slot[wGroup[y]].completed
      BY <1>e2, <3>1, <3>2
    <3> QED  BY <3>2, <3>3, <3>4
  <2>3. ASSUME NEW y \in Workers, NEW z \in Workers, wPc'[y] = "signalItem", wPc'[z] = "signalItem",
        wGroup'[y] = wGroup'[z]
        PROVE  y = z
    <3>1. y # w /\ wPc[y] = "signalItem" /\ z # w /\ wPc[z] = "signalItem"  BY <1>e1, <2>3
    <3>2. wGroup'[y] = wGroup[y] /\ wGroup'[z] = wGroup[z]  BY <1>e3, <3>1
    <3> QED  BY <1>0, <2>3, <3>1, <3>2 DEF Completion
  <2> QED  BY <2>1, <2>2, <2>3 DEF Completion
<1>10. Units'
  <2>1. DOMAIN times' = Callers  BY <1>0, <1>e1, <1>e2, <1>e3, <1>e4, <1>e5, <1>p1, <1>p2, <1>p3,
        <1>p4 DEF Units
  <2>2. ASSUME NEW x \in Callers, Early(x)' \/ Active(x)' PROVE UnitsOf(x)'
    <3>1. (Early(x) \/ Active(x))  BY <2>2, <1>t, <1>e1, <1>e2, <1>e3, <1>e4, <1>e5, <1>p1, <1>p2,
          <1>p3, <1>p4, <1>fA, <1>fE DEF Typing
    <3>2. call'[x].size = call[x].size /\ call'[x].next = call[x].next /\ times'[x] = times[x]
          BY <1>e1, <1>e2, <1>e3, <1>e4, <1>e5, <1>p1, <1>p2, <1>p3, <1>p4, <3>1 DEF Early, Active,
          IsKeyCall
    <3>3. \A s \in Slots : Unprocessed(s, x) => Unprocessed(s, x)' /\ slot'[s].lo = slot[s].lo
          /\ slot'[s].hi = slot[s].hi
      BY <1>e1, <1>e2, <1>e3, <1>e4, <1>e5, <1>p1, <1>p2, <1>p3, <1>p4, <1>fU
    <3>4. UnitsOf(x)  BY <1>0, <3>1 DEF Units
    <3>5. \A u \in 1 .. call[x].size : Pending(x, u) => Pending(x, u)'  BY <3>3 DEF Pending
    <3> QED  BY <3>2, <3>4, <3>5 DEF UnitsOf
  <2>3. ASSUME NEW x \in Callers, IsKeyCall(x)', cPc'[x] # "idle" PROVE DOMAIN times'[x] = {}
    BY <1>0, <1>e1, <1>e2, <1>e3, <1>e4, <1>e5, <1>p1, <1>p2, <1>p3, <1>p4, <2>3 DEF Units, IsKeyCall
  <2>4. ASSUME NEW x \in Callers, cPc'[x] \in {"free", "signal", "idle"} PROVE AllOnce(x)'
    BY <1>0, <1>e1, <1>e2, <1>e3, <1>e4, <1>e5, <1>p1, <1>p2, <1>p3, <1>p4, <2>4 DEF Units, IsKeyCall,
          AllOnce
  <2> QED  BY <2>1, <2>2, <2>3, <2>4 DEF Units
<1>11. Fragments'
  <2>1. ASSUME NEW x \in Callers, Active(x)'
        PROVE  /\ \A s \in Slots : Unprocessed(s, x)' => FragmentOfCall(s, x)'
               /\ \A s, t \in Slots : Unprocessed(s, x)' /\ Unprocessed(t, x)' /\ s # t => Apart(s, t)'
    <3>0. Active(x) \/ Early(x)  BY <2>1, <1>fA, <1>e1, <1>e2, <1>e3, <1>e4, <1>e5, <1>p1, <1>p2,
          <1>p3, <1>p4 DEF Early
    <3>1. \A s \in Slots : Unprocessed(s, x) => Active(x)
      BY <1>0, <1>t DEF Typing, Unprocessed, InRun, Working, Members, OfGroup, Opened
    <3>2. call'[x].next = call[x].next /\ times'[x] = times[x]  BY <2>1, <3>0, <1>fA, <1>e1, <1>e2,
          <1>e3, <1>e4, <1>e5, <1>p1, <1>p2, <1>p3, <1>p4
    <3>3. \A s \in Slots : Unprocessed(s, x) => slot'[s].lo = slot[s].lo
          /\ slot'[s].hi = slot[s].hi  BY <1>e1, <1>e2, <1>e3, <1>e4, <1>e5, <1>p1, <1>p2, <1>p3, <1>p4
    <3>4. \A s \in Slots : Unprocessed(s, x)' => Unprocessed(s, x)  BY <1>fU
    <3>5. \A s \in Slots : Unprocessed(s, x) => FragmentOfCall(s, x)  BY <1>0, <3>1 DEF Fragments
    <3>6. \A s, t \in Slots : Unprocessed(s, x) /\ Unprocessed(t, x) /\ s # t => Apart(s, t)  BY <1>0,
          <3>1 DEF Fragments
    <3>7. \A s \in Slots : Unprocessed(s, x)' => FragmentOfCall(s, x)'  BY <3>2, <3>3, <3>4,
          <3>5 DEF FragmentOfCall
    <3>8. \A s, t \in Slots : Unprocessed(s, x)' /\ Unprocessed(t, x)' /\ s # t => Apart(s, t)'
          BY <3>3, <3>4, <3>6 DEF Apart
    <3> QED  BY <3>7, <3>8
  <2> QED  BY <2>1 DEF Fragments
<1>12. Exceptions'
  <2>1. ASSUME NEW x \in Callers PROVE ExceptionOf(x)'
    BY <1>0, <1>t, <2>1, <1>e1, <1>e2, <1>e3, <1>e4, <1>e5, <1>p1, <1>p2, <1>p3, <1>p4, <1>fA,
          <1>fE DEF Typing, Exceptions, ExceptionOf, IsKeyCall
  <2> QED  BY <2>1 DEF Exceptions
<1> QED  BY <1>1, <1>2, <1>3, <1>4, <1>5, <1>6, <1>7, <1>8, <1>9, <1>10, <1>11, <1>12 DEF PoolInv

\* A key is derived.
LEMMA RunKeyKept ==
  ASSUME NEW w \in Workers, PoolInv, Run(w), ~stopPending, slot[wSlot[w]].kind = "key"
  PROVE  PoolInv'
<1>0. TypeOK /\ Phases /\ Mutexes /\ Division /\ Groups /\ Members /\ Holding /\ Counted
      /\ Completion /\ Units /\ Fragments /\ Exceptions  BY DEF PoolInv
<1>t. Typing  BY <1>0, Typed
<1>p1. wPc[w] = "run" /\ Working(w)
  BY <1>0, <1>t DEF Run, Working
<1>p2. \A y \in Workers : Working(y) /\ wSlot[y] = wSlot[w] => y = w
  BY <1>0, <1>t, <1>p1 DEF Holding, Held
<1>p3. \A y \in Workers : wPc[y] = "run" => Working(y)
  BY <1>0, <1>t, <1>p1, <1>p2 DEF Working
<1>e1. wPc' \in [Workers -> WorkStates]
      /\ \A x \in Workers : wPc'[x] = (IF x = w THEN "freeSlot" ELSE wPc[x])
  BY <1>t, WorkerGoes DEF Typing, WorkStates, Run, WGoto, AfterRun, RunUnits
<1>e2. wPc[w] = "run"
  BY DEF Run
<1>e3. portable' = portable /\ running' = running /\ stopPending' = stopPending
      /\ threadCount' = threadCount /\ enq' = enq /\ deq' = deq /\ enqOwner' = enqOwner
      /\ deqOwner' = deqOwner /\ readyEvt' = readyEvt /\ doneEvt' = doneEvt /\ slot' = slot
      /\ cPc' = cPc /\ call' = call /\ wSlot' = wSlot /\ sPc' = sPc /\ joined' = joined
      /\ wGroup' = wGroup /\ times' = times /\ broken' = broken /\ calls' = calls
  BY DEF Run, flags, events, stop, history, WGoto, AfterRun, RunUnits
<1>fA. \A x \in Callers : Active(x)' <=> Active(x)
  BY <1>0, <1>t, <1>e1, <1>e2, <1>e3, <1>p1, <1>p2, <1>p3 DEF Typing, Active, IsKeyCall
<1>fE. \A x \in Callers : Early(x)' <=> Early(x)
  BY <1>0, <1>t, <1>e1, <1>e2, <1>e3, <1>p1, <1>p2, <1>p3 DEF Typing, Early, IsKeyCall
<1>fW. \A y \in Workers : Working(y)' <=> Working(y)
  BY <1>0, <1>t, <1>e1, <1>e2, <1>e3, <1>p1, <1>p2, <1>p3 DEF Typing, Working
<1>fS. \A f, s \in Slots : Since(f, s)' <=> Since(f, s)
  BY <1>0, <1>t, <1>e1, <1>e2, <1>e3, <1>p1, <1>p2, <1>p3 DEF Typing, Since
<1>fR. \A s \in Slots : InRun(s)' <=> (InRun(s) /\ s # wSlot[w])
  BY <1>0, <1>t, <1>e1, <1>e2, <1>e3, <1>p1, <1>p2, <1>p3 DEF Typing, InRun
<1>fT. \A x \in Callers : Waiting(x)' = Waiting(x)
  BY <1>0, <1>t, <1>e1, <1>e2, <1>e3, <1>p1, <1>p2, <1>p3 DEF Typing, Waiting
<1>fH. \A x \in Callers : Hands(x)' = Hands(x)
  <2>1. ASSUME NEW x \in Callers, NEW y \in Workers PROVE y \in Hands(x)' <=> y \in Hands(x)
    BY <1>0, <1>t, <2>1, <1>e1, <1>e2, <1>e3, <1>p1, <1>p2, <1>p3, <1>fW DEF Typing, Hands
  <2>2. \A x \in Callers : Hands(x)' \subseteq Workers /\ Hands(x) \subseteq Workers  BY DEF Hands
  <2> QED  BY <2>1, <2>2
<1>fU. \A s \in Slots, x \in Callers : Unprocessed(s, x)' <=> Unprocessed(s, x)
  BY <1>0, <1>t, <1>e1, <1>e2, <1>e3, <1>p1, <1>p2, <1>p3, <1>fW, <1>fR DEF Typing, Unprocessed
<1>g. \A x \in Callers : Opened(x) => Opened(x)' /\ call'[x].first = call[x].first
  BY <1>t, <1>e1, <1>e2, <1>e3, <1>p1, <1>p2, <1>p3, <1>fA DEF Typing, Opened, Active, IsKeyCall
<1>s. \A s \in Slots : (slot'[s].kind = slot[s].kind /\ slot'[s].owner = slot[s].owner
      /\ slot'[s].first = slot[s].first)
  BY <1>e1, <1>e2, <1>e3, <1>p1, <1>p2, <1>p3
<1>1. TypeOK'
  BY <1>0, <1>t, <1>e1, <1>e2, <1>e3, <1>p1, <1>p2, <1>p3, Flags, TypesKept, Constants DEF Typing
<1>2. Phases'
  BY <1>0, <1>t, <1>e1, <1>e2, <1>e3, <1>p1, <1>p2, <1>p3 DEF Typing, Phases
<1>3. Mutexes'
  BY <1>0, <1>t, <1>e1, <1>e2, <1>e3, <1>p1, <1>p2, <1>p3, PoolAssumption DEF Typing, Mutexes, Phases
<1>4. Division'
  <2>1. ASSUME NEW x \in Callers PROVE DivisionOf(x)'
    BY <1>0, <1>t, <2>1, <1>e1, <1>e2, <1>e3, <1>p1, <1>p2, <1>p3, <1>fA, <1>fE DEF Typing, Division,
          DivisionOf, Divided, IsKeyCall, Mutexes, Active, Early
  <2> QED  BY <2>1 DEF Division
<1>5. Groups'
  <2>1. ASSUME NEW x \in Callers PROVE GroupOf(x)'
    BY <1>0, <1>t, <2>1, <1>e1, <1>e2, <1>e3, <1>p1, <1>p2, <1>p3, <1>fA, <1>fE DEF Typing, Groups,
          GroupOf, OwnsFirst, Opened, IsFree, Mutexes, Division, DivisionOf, Active, IsKeyCall
  <2> QED  BY <2>1 DEF Groups
<1>6. Members'
  <2>1. ASSUME NEW s \in Slots, OfGroup(s) PROVE OfGroup(s)'
    BY <1>t, <2>1, <1>g, <1>s, <1>fS DEF Typing, OfGroup
  <2>2. \A s \in Slots : slot'[s].state = "ready" => slot[s].state = "ready"  BY <1>t, <1>e1, <1>e2,
        <1>e3, <1>p1, <1>p2, <1>p3 DEF Typing
  <2>3. \A y \in Workers : Working(y)' => wSlot'[y] = wSlot[y] /\ OfGroup(wSlot[y])
    BY <1>0, <1>t, <1>fW, <1>e1, <1>e2, <1>e3, <1>p1, <1>p2, <1>p3 DEF Typing, Members
  <2>4. \A s \in Slots : slot'[s].state = "ready" => OfGroup(s)'  BY <1>0, <2>1, <2>2 DEF Members
  <2>5. \A y \in Workers : Working(y)' => OfGroup(wSlot[y])'  BY <1>t, <1>fW, <2>1, <2>3 DEF Typing
  <2> QED  BY <2>4, <2>5 DEF Members
<1>7. Holding'
  <2>1. ASSUME NEW y \in Workers, y # w, Working(y)' PROVE Held(y)'
    BY <1>0, <1>t, <2>1, <1>e1, <1>e2, <1>e3, <1>p1, <1>p2, <1>p3, <1>fW DEF Typing, Holding, Held
  <2>2. Working(w)' => Held(w)'
    BY <1>0, <1>t, <1>e1, <1>e2, <1>e3, <1>p1, <1>p2, <1>p3, <1>fW DEF Typing, Holding, Held, Mutexes
  <2>3. \A y, z \in Workers : Working(y)' /\ Working(z)' /\ wSlot'[y] = wSlot'[z] => y = z
    BY <1>0, <1>t, <1>e1, <1>e2, <1>e3, <1>p1, <1>p2, <1>p3, <1>fW DEF Typing, Holding
  <2>4. \A y \in Workers : Working(y)' => Held(y)'  BY <2>1, <2>2
  <2> QED  BY <2>3, <2>4 DEF Holding
<1>8. Counted'
  <2>1. ASSUME NEW x \in Callers, Active(x)' PROVE CountOf(x)'
    <3>1. Active(x)  BY <2>1, <1>fA
    <3>2. call'[x].left = call[x].left /\ call'[x].first = call[x].first  BY <1>t, <2>1, <3>1, <1>e1,
          <1>e2, <1>e3, <1>p1, <1>p2, <1>p3, <1>fA DEF Typing
    <3>3. slot'[call[x].first].count = slot[call[x].first].count  BY <1>t, <1>e1, <1>e2, <1>e3, <1>p1,
          <1>p2, <1>p3 DEF Typing
    <3> QED  BY <1>0, <3>1, <3>2, <3>3, <1>fT, <1>fH DEF Counted, CountOf
  <2> QED  BY <2>1 DEF Counted
<1>9. Completion'
  <2>1. ASSUME NEW s \in Slots, slot'[s].completed PROVE EventOf(s)'
    BY <1>0, <1>t, <2>1, <1>g, <1>s, <1>e1, <1>e2, <1>e3, <1>p1, <1>p2, <1>p3 DEF Typing, Completion,
          EventOf
  <2>2. ASSUME NEW y \in Workers, wPc'[y] = "signalItem" PROVE slot'[wGroup'[y]].count = 0
        /\ ~slot'[wGroup'[y]].completed
    BY <1>0, <1>t, <2>2, <1>e1, <1>e2, <1>e3, <1>p1, <1>p2, <1>p3 DEF Typing, Completion
  <2>3. \A y, z \in Workers : wPc'[y] = "signalItem" /\ wPc'[z] = "signalItem"
        /\ wGroup'[y] = wGroup'[z] => y = z
    BY <1>0, <1>t, <1>e1, <1>e2, <1>e3, <1>p1, <1>p2, <1>p3 DEF Typing, Completion
  <2> QED  BY <2>1, <2>2, <2>3 DEF Completion
<1>10. Units'
  <2>1. DOMAIN times' = Callers  BY <1>0, <1>e1, <1>e2, <1>e3, <1>p1, <1>p2, <1>p3 DEF Units
  <2>2. ASSUME NEW x \in Callers, Early(x)' \/ Active(x)' PROVE UnitsOf(x)'
    <3>1. (Early(x) \/ Active(x))  BY <2>2, <1>t, <1>e1, <1>e2, <1>e3, <1>p1, <1>p2, <1>p3, <1>fA,
          <1>fE DEF Typing
    <3>2. call'[x].size = call[x].size /\ call'[x].next = call[x].next /\ times'[x] = times[x]
          BY <1>e1, <1>e2, <1>e3, <1>p1, <1>p2, <1>p3, <3>1 DEF Early, Active, IsKeyCall
    <3>3. \A s \in Slots : Unprocessed(s, x) => Unprocessed(s, x)' /\ slot'[s].lo = slot[s].lo
          /\ slot'[s].hi = slot[s].hi
      BY <1>e1, <1>e2, <1>e3, <1>p1, <1>p2, <1>p3, <1>fU
    <3>4. UnitsOf(x)  BY <1>0, <3>1 DEF Units
    <3>5. \A u \in 1 .. call[x].size : Pending(x, u) => Pending(x, u)'  BY <3>3 DEF Pending
    <3> QED  BY <3>2, <3>4, <3>5 DEF UnitsOf
  <2>3. ASSUME NEW x \in Callers, IsKeyCall(x)', cPc'[x] # "idle" PROVE DOMAIN times'[x] = {}
    BY <1>0, <1>e1, <1>e2, <1>e3, <1>p1, <1>p2, <1>p3, <2>3 DEF Units, IsKeyCall
  <2>4. ASSUME NEW x \in Callers, cPc'[x] \in {"free", "signal", "idle"} PROVE AllOnce(x)'
    BY <1>0, <1>e1, <1>e2, <1>e3, <1>p1, <1>p2, <1>p3, <2>4 DEF Units, IsKeyCall, AllOnce
  <2> QED  BY <2>1, <2>2, <2>3, <2>4 DEF Units
<1>11. Fragments'
  <2>1. ASSUME NEW x \in Callers, Active(x)'
        PROVE  /\ \A s \in Slots : Unprocessed(s, x)' => FragmentOfCall(s, x)'
               /\ \A s, t \in Slots : Unprocessed(s, x)' /\ Unprocessed(t, x)' /\ s # t => Apart(s, t)'
    <3>0. Active(x) \/ Early(x)  BY <2>1, <1>fA, <1>e1, <1>e2, <1>e3, <1>p1, <1>p2, <1>p3 DEF Early
    <3>1. \A s \in Slots : Unprocessed(s, x) => Active(x)
      BY <1>0, <1>t DEF Typing, Unprocessed, InRun, Working, Members, OfGroup, Opened
    <3>2. call'[x].next = call[x].next /\ times'[x] = times[x]  BY <2>1, <3>0, <1>fA, <1>e1, <1>e2,
          <1>e3, <1>p1, <1>p2, <1>p3
    <3>3. \A s \in Slots : Unprocessed(s, x) => slot'[s].lo = slot[s].lo
          /\ slot'[s].hi = slot[s].hi  BY <1>e1, <1>e2, <1>e3, <1>p1, <1>p2, <1>p3
    <3>4. \A s \in Slots : Unprocessed(s, x)' => Unprocessed(s, x)  BY <1>fU
    <3>5. \A s \in Slots : Unprocessed(s, x) => FragmentOfCall(s, x)  BY <1>0, <3>1 DEF Fragments
    <3>6. \A s, t \in Slots : Unprocessed(s, x) /\ Unprocessed(t, x) /\ s # t => Apart(s, t)  BY <1>0,
          <3>1 DEF Fragments
    <3>7. \A s \in Slots : Unprocessed(s, x)' => FragmentOfCall(s, x)'  BY <3>2, <3>3, <3>4,
          <3>5 DEF FragmentOfCall
    <3>8. \A s, t \in Slots : Unprocessed(s, x)' /\ Unprocessed(t, x)' /\ s # t => Apart(s, t)'
          BY <3>3, <3>4, <3>6 DEF Apart
    <3> QED  BY <3>7, <3>8
  <2> QED  BY <2>1 DEF Fragments
<1>12. Exceptions'
  <2>1. ASSUME NEW x \in Callers PROVE ExceptionOf(x)'
    BY <1>0, <1>t, <2>1, <1>e1, <1>e2, <1>e3, <1>p1, <1>p2, <1>p3, <1>fA, <1>fE DEF Typing, Exceptions,
          ExceptionOf, IsKeyCall
  <2> QED  BY <2>1 DEF Exceptions
<1> QED  BY <1>1, <1>2, <1>3, <1>4, <1>5, <1>6, <1>7, <1>8, <1>9, <1>10, <1>11, <1>12 DEF PoolInv

\* The units of a fragment are processed.
LEMMA RunQuietKept ==
  ASSUME NEW w \in Workers, PoolInv, Run(w), ~stopPending, slot[wSlot[w]].kind = "units", slot' = slot,
        broken' = broken
  PROVE  PoolInv'
<1>0. TypeOK /\ Phases /\ Mutexes /\ Division /\ Groups /\ Members /\ Holding /\ Counted
      /\ Completion /\ Units /\ Fragments /\ Exceptions  BY DEF PoolInv
<1>t. Typing  BY <1>0, Typed
<1>o. PICK o \in Callers : o = slot[wSlot[w]].owner /\ Opened(o)
      /\ slot[wSlot[w]].first = call[o].first /\ slot[wSlot[w]].kind = "units"
  <2>1. Working(w)  BY DEF Run, Working
  <2>2. OfGroup(wSlot[w]) /\ slot[wSlot[w]].kind = "units"  BY <1>0, <2>1 DEF Members, Holding, Held,
        Run
  <2> QED  BY <2>2 DEF OfGroup
<1>p1. o = slot[wSlot[w]].owner /\ slot[wSlot[w]].first = call[o].first
      /\ slot[wSlot[w]].kind = "units" /\ Opened(o) /\ Active(o)
  BY <1>o DEF Opened
<1>p2. wPc[w] = "run" /\ Working(w) /\ slot[wSlot[w]].state = "busy"
  BY <1>0, <1>t, <1>p1 DEF Run, Working, Holding, Held
<1>p3. \A y \in Workers : Working(y) /\ wSlot[y] = wSlot[w] => y = w
  BY <1>0, <1>t, <1>p1, <1>p2 DEF Holding, Held
<1>p4. \A y \in Workers : wPc[y] = "run" => Working(y)
  BY <1>0, <1>t, <1>p1, <1>p2, <1>p3 DEF Working
<1>p5. Unprocessed(wSlot[w], o)
  BY <1>0, <1>t, <1>p1, <1>p2, <1>p3, <1>p4 DEF Unprocessed, InRun
<1>p6. FragmentOfCall(wSlot[w], o) /\ UnitsOf(o)
  BY <1>0, <1>t, <1>p1, <1>p5 DEF Typing, Fragments, Units
<1>p7. \A s \in Slots : Unprocessed(s, o) => FragmentOfCall(s, o) /\ (s # wSlot[w] => Apart(s,
      wSlot[w]))
  BY <1>0, <1>t, <1>p1, <1>p2, <1>p3, <1>p4, <1>p5, <1>p6 DEF Typing, Fragments
<1>p8. cPc[o] \notin {"free", "signal", "idle"} /\ ~IsKeyCall(o)
  BY <1>0, <1>t, <1>p1, <1>p2, <1>p3, <1>p4, <1>p5, <1>p6, <1>p7 DEF Active
<1>p9. call[o].next <= call[o].size + 1
  BY <1>0, <1>t, <1>p1, DividedEnds DEF Division, DivisionOf, Typing
<1>p10. slot[call[o].first].owner = o
  BY <1>0, <1>t, <1>p1, <1>p2, <1>p3, <1>p4, <1>p5, <1>p6, <1>p7, <1>p8, <1>p9 DEF Groups, GroupOf,
        OwnsFirst
<1>e1. wPc' \in [Workers -> WorkStates]
      /\ \A x \in Workers : wPc'[x] = (IF x = w THEN IF slot[wSlot[w]].first = wSlot[w] THEN "count" ELSE "freeSlot" ELSE wPc[x])
  BY <1>t, WorkerGoes DEF Typing, WorkStates, Run, WGoto, AfterRun, RunUnits
<1>e2. DOMAIN times' = Callers
      /\ \A x \in Callers : times'[x] = IF x = o THEN [u \in DOMAIN times[o] |-> IF u \in slot[wSlot[w]].lo .. slot[wSlot[w]].hi THEN times[o][u] + 1 ELSE times[o][u]] ELSE times[x]
  <2>1. TimesAddedAt(slot[wSlot[w]].owner, slot[wSlot[w]].lo, slot[wSlot[w]].hi)  BY Zenon DEF Run,
        RunUnits, TimesAddedAt
  <2>2. DOMAIN times = Callers /\ o = slot[wSlot[w]].owner  BY <1>0, <1>o DEF Units
  <2> QED  BY <2>1, <2>2, TimesAdded
<1>e3. portable' = portable /\ running' = running /\ stopPending' = stopPending
      /\ threadCount' = threadCount /\ enq' = enq /\ deq' = deq /\ enqOwner' = enqOwner
      /\ deqOwner' = deqOwner /\ readyEvt' = readyEvt /\ doneEvt' = doneEvt /\ slot' = slot
      /\ cPc' = cPc /\ call' = call /\ wSlot' = wSlot /\ sPc' = sPc /\ joined' = joined
      /\ wGroup' = wGroup /\ broken' = broken /\ calls' = calls
  BY DEF Run, flags, events, stop, history, WGoto, AfterRun, RunUnits
<1>fA. \A x \in Callers : Active(x)' <=> Active(x)
  BY <1>0, <1>t, <1>e1, <1>e2, <1>e3, <1>p1, <1>p2, <1>p3, <1>p4, <1>p8 DEF Typing, Active, IsKeyCall
<1>fE. \A x \in Callers : Early(x)' <=> Early(x)
  BY <1>0, <1>t, <1>e1, <1>e2, <1>e3, <1>p1, <1>p2, <1>p3, <1>p4, <1>p8 DEF Typing, Early, IsKeyCall
<1>fW. \A y \in Workers : Working(y)' <=> Working(y)
  BY <1>0, <1>t, <1>e1, <1>e2, <1>e3, <1>p1, <1>p2, <1>p3, <1>p4, <1>p8 DEF Typing, Working
<1>fS. \A f, s \in Slots : Since(f, s)' <=> Since(f, s)
  BY <1>0, <1>t, <1>e1, <1>e2, <1>e3, <1>p1, <1>p2, <1>p3, <1>p4, <1>p8 DEF Typing, Since
<1>fR. \A s \in Slots : InRun(s)' <=> (InRun(s) /\ s # wSlot[w])
  <2>1. wSlot' = wSlot /\ stopPending' = stopPending /\ ~stopPending  BY <1>e3
  <2>2. \A y \in Workers : wPc'[y] = "run" <=> wPc[y] = "run" /\ y # w  BY <1>e1, <1>p2
  <2>3. \A y \in Workers : wPc[y] = "run" /\ wSlot[y] = wSlot[w] => y = w  BY <1>p3, <1>p4
  <2>4. ASSUME NEW s \in Slots, InRun(s)' PROVE InRun(s) /\ s # wSlot[w]
    BY <2>1, <2>2, <2>3, <2>4 DEF InRun
  <2>5. ASSUME NEW s \in Slots, InRun(s), s # wSlot[w] PROVE InRun(s)'  BY <2>1, <2>2, <2>5 DEF InRun
  <2> QED  BY <2>4, <2>5
<1>fT. \A x \in Callers : Waiting(x)' = Waiting(x)
  BY <1>0, <1>t, <1>e1, <1>e2, <1>e3, <1>p1, <1>p2, <1>p3, <1>p4, <1>p8 DEF Typing, Waiting
<1>fH. \A x \in Callers : Hands(x)' = Hands(x)
  <2>1. ASSUME NEW x \in Callers, NEW y \in Workers PROVE y \in Hands(x)' <=> y \in Hands(x)
    BY <1>0, <1>t, <2>1, <1>e1, <1>e2, <1>e3, <1>p1, <1>p2, <1>p3, <1>p4, <1>p8, <1>fW DEF Typing, Hands
  <2>2. \A x \in Callers : Hands(x)' \subseteq Workers /\ Hands(x) \subseteq Workers  BY DEF Hands
  <2> QED  BY <2>1, <2>2
<1>fU. \A s \in Slots, x \in Callers : Unprocessed(s, x)' <=> (Unprocessed(s, x) /\ s # wSlot[w])
  BY <1>0, <1>t, <1>e1, <1>e2, <1>e3, <1>p1, <1>p2, <1>p3, <1>p4, <1>p8, <1>fW, <1>fR DEF Typing,
        Unprocessed
<1>g. \A x \in Callers : Opened(x) => Opened(x)' /\ call'[x].first = call[x].first
  BY <1>t, <1>e1, <1>e2, <1>e3, <1>p1, <1>p2, <1>p3, <1>p4, <1>p8, <1>fA DEF Typing, Opened, Active,
        IsKeyCall
<1>s. \A s \in Slots : (slot'[s].kind = slot[s].kind /\ slot'[s].owner = slot[s].owner
      /\ slot'[s].first = slot[s].first)
  BY <1>e1, <1>e2, <1>e3, <1>p1, <1>p2, <1>p3, <1>p4, <1>p8
<1>1. TypeOK'
  BY <1>0, <1>t, <1>e1, <1>e2, <1>e3, <1>p1, <1>p2, <1>p3, <1>p4, <1>p8, Flags, TypesKept,
        Constants DEF Typing
<1>2. Phases'
  BY <1>0, <1>t, <1>e1, <1>e2, <1>e3, <1>p1, <1>p2, <1>p3, <1>p4, <1>p8 DEF Typing, Phases
<1>3. Mutexes'
  BY <1>0, <1>t, <1>e1, <1>e2, <1>e3, <1>p1, <1>p2, <1>p3, <1>p4, <1>p8, PoolAssumption DEF Typing,
        Mutexes, Phases
<1>4. Division'
  <2>1. ASSUME NEW x \in Callers PROVE DivisionOf(x)'
    BY <1>0, <1>t, <2>1, <1>e1, <1>e2, <1>e3, <1>p1, <1>p2, <1>p3, <1>p4, <1>p8, <1>fA,
          <1>fE DEF Typing, Division, DivisionOf, Divided, IsKeyCall, Mutexes, Active, Early
  <2> QED  BY <2>1 DEF Division
<1>5. Groups'
  <2>1. ASSUME NEW x \in Callers PROVE GroupOf(x)'
    BY <1>0, <1>t, <2>1, <1>e1, <1>e2, <1>e3, <1>p1, <1>p2, <1>p3, <1>p4, <1>p8, <1>fA,
          <1>fE DEF Typing, Groups, GroupOf, OwnsFirst, Opened, IsFree, Mutexes, Division, DivisionOf,
          Active, IsKeyCall
  <2> QED  BY <2>1 DEF Groups
<1>6. Members'
  <2>1. ASSUME NEW s \in Slots, OfGroup(s) PROVE OfGroup(s)'
    BY <1>t, <2>1, <1>g, <1>s, <1>fS DEF Typing, OfGroup
  <2>2. \A s \in Slots : slot'[s].state = "ready" => slot[s].state = "ready"  BY <1>t, <1>e1, <1>e2,
        <1>e3, <1>p1, <1>p2, <1>p3, <1>p4, <1>p8 DEF Typing
  <2>3. \A y \in Workers : Working(y)' => wSlot'[y] = wSlot[y] /\ OfGroup(wSlot[y])
    BY <1>0, <1>t, <1>fW, <1>e1, <1>e2, <1>e3, <1>p1, <1>p2, <1>p3, <1>p4, <1>p8 DEF Typing, Members
  <2>4. \A s \in Slots : slot'[s].state = "ready" => OfGroup(s)'  BY <1>0, <2>1, <2>2 DEF Members
  <2>5. \A y \in Workers : Working(y)' => OfGroup(wSlot[y])'  BY <1>t, <1>fW, <2>1, <2>3 DEF Typing
  <2> QED  BY <2>4, <2>5 DEF Members
<1>7. Holding'
  <2>1. ASSUME NEW y \in Workers, y # w, Working(y)' PROVE Held(y)'
    BY <1>0, <1>t, <2>1, <1>e1, <1>e2, <1>e3, <1>p1, <1>p2, <1>p3, <1>p4, <1>p8, <1>fW DEF Typing,
          Holding, Held
  <2>2. Working(w)' => Held(w)'
    BY <1>0, <1>t, <1>e1, <1>e2, <1>e3, <1>p1, <1>p2, <1>p3, <1>p4, <1>p8, <1>fW DEF Typing, Holding,
          Held, Mutexes
  <2>3. \A y, z \in Workers : Working(y)' /\ Working(z)' /\ wSlot'[y] = wSlot'[z] => y = z
    BY <1>0, <1>t, <1>e1, <1>e2, <1>e3, <1>p1, <1>p2, <1>p3, <1>p4, <1>p8, <1>fW DEF Typing, Holding
  <2>4. \A y \in Workers : Working(y)' => Held(y)'  BY <2>1, <2>2
  <2> QED  BY <2>3, <2>4 DEF Holding
<1>8. Counted'
  <2>1. ASSUME NEW x \in Callers, Active(x)' PROVE CountOf(x)'
    <3>1. Active(x)  BY <2>1, <1>fA
    <3>2. call'[x].left = call[x].left /\ call'[x].first = call[x].first  BY <1>t, <2>1, <3>1, <1>e1,
          <1>e2, <1>e3, <1>p1, <1>p2, <1>p3, <1>p4, <1>p8, <1>fA DEF Typing
    <3>3. slot'[call[x].first].count = slot[call[x].first].count  BY <1>t, <1>e1, <1>e2, <1>e3, <1>p1,
          <1>p2, <1>p3, <1>p4, <1>p8 DEF Typing
    <3> QED  BY <1>0, <3>1, <3>2, <3>3, <1>fT, <1>fH DEF Counted, CountOf
  <2> QED  BY <2>1 DEF Counted
<1>9. Completion'
  <2>1. ASSUME NEW s \in Slots, slot'[s].completed PROVE EventOf(s)'
    BY <1>0, <1>t, <2>1, <1>g, <1>s, <1>e1, <1>e3, <1>p1, <1>p2, <1>p3, <1>p4, <1>p8 DEF Typing,
          Completion, EventOf
  <2>2. ASSUME NEW y \in Workers, wPc'[y] = "signalItem" PROVE slot'[wGroup'[y]].count = 0
        /\ ~slot'[wGroup'[y]].completed
    BY <1>0, <1>t, <2>2, <1>e1, <1>e3, <1>p1, <1>p2, <1>p3, <1>p4, <1>p8 DEF Typing, Completion
  <2>3. \A y, z \in Workers : wPc'[y] = "signalItem" /\ wPc'[z] = "signalItem"
        /\ wGroup'[y] = wGroup'[z] => y = z
    BY <1>0, <1>t, <1>e1, <1>e3, <1>p1, <1>p2, <1>p3, <1>p4, <1>p8 DEF Typing, Completion
  <2> QED  BY <2>1, <2>2, <2>3 DEF Completion
<1>10. Units'
  <2>1. DOMAIN times' = Callers  BY <1>0, <1>e1, <1>e2, <1>e3, <1>p1, <1>p2, <1>p3, <1>p4,
        <1>p8 DEF Units
  <2>2. ASSUME NEW x \in Callers, x # o, Early(x)' \/ Active(x)' PROVE UnitsOf(x)'
    <3>1. (Early(x) \/ Active(x))  BY <2>2, <1>t, <1>e1, <1>e2, <1>e3, <1>p1, <1>p2, <1>p3, <1>p4,
          <1>p8, <1>fA, <1>fE DEF Typing
    <3>2. call'[x].size = call[x].size /\ call'[x].next = call[x].next /\ times'[x] = times[x]
          BY <1>e2, <1>e3, <2>2
    <3>3. \A s \in Slots : Unprocessed(s, x) => Unprocessed(s, x)' /\ slot'[s].lo = slot[s].lo
          /\ slot'[s].hi = slot[s].hi
      BY <1>e3, <1>fU, <2>2, <1>p5 DEF Unprocessed
    <3>4. UnitsOf(x)  BY <1>0, <3>1 DEF Units
    <3>5. \A u \in 1 .. call[x].size : Pending(x, u) => Pending(x, u)'  BY <3>3 DEF Pending
    <3> QED  BY <3>2, <3>4, <3>5 DEF UnitsOf
  <2>3. ASSUME NEW x \in Callers, IsKeyCall(x)', cPc'[x] # "idle" PROVE DOMAIN times'[x] = {}
    <3>1. x # o  BY <1>e3, <1>p8, <2>3 DEF IsKeyCall
    <3> QED  BY <1>0, <1>e2, <1>e3, <2>3, <3>1 DEF Units, IsKeyCall
  <2>4. ASSUME NEW x \in Callers, cPc'[x] \in {"free", "signal", "idle"} PROVE AllOnce(x)'
    <3>1. x # o  BY <1>e3, <1>p8, <2>4
    <3>2. AllOnce(x) /\ times'[x] = times[x]  BY <1>0, <1>e2, <1>e3, <2>4, <3>1 DEF Units
    <3> QED  BY <3>2 DEF AllOnce
  <2>5. UnitsOf(o)'
    <3> DEFINE l == slot[wSlot[w]].lo
               h == slot[wSlot[w]].hi
    <3>1. l \in Nat /\ h \in Nat /\ call[o].next \in Nat /\ call[o].size \in Nat
          /\ wSlot[w] \in Slots  BY <1>t DEF Typing
    <3>2. times[o] \in [1 .. call[o].size -> {0, 1}]  BY <1>p6 DEF UnitsOf
    <3>3. times'[o] = [u \in 1 .. call[o].size |-> IF u \in l .. h THEN times[o][u] + 1 ELSE times[o][u]]
      BY <1>e2, <3>2
    <3>4. l >= 1 /\ h < call[o].next /\ \A u \in l .. h : times[o][u] = 0  BY <1>p6 DEF FragmentOfCall
    <3>5. \A u \in 1 .. call[o].size : times'[o][u] = (IF u \in l .. h THEN 1 ELSE times[o][u])
          BY <3>2, <3>3, <3>4
    <3>6. times'[o] \in [1 .. call[o].size -> {0, 1}]  BY <3>2, <3>3, <3>5
    <3>7. call'[o].size = call[o].size /\ call'[o].next = call[o].next  BY <1>e3
    <3>8. ASSUME NEW u \in 1 .. call[o].size, u >= call[o].next PROVE times'[o][u] = 0
      <4>1. u \notin l .. h  BY <3>1, <3>4, <3>8
      <4> QED  BY <1>p6, <3>5, <3>8, <4>1 DEF UnitsOf
    <3>9. ASSUME NEW u \in 1 .. call[o].size, u < call[o].next, times'[o][u] = 0 PROVE Pending(o, u)'
      <4>1. u \notin l .. h /\ times[o][u] = 0  BY <3>5, <3>9
      <4>2. PICK s \in Slots : Unprocessed(s, o) /\ u \in slot[s].lo .. slot[s].hi
        BY <1>p6, <3>9, <4>1 DEF UnitsOf, Pending
      <4>3. s # wSlot[w]  BY <4>1, <4>2
      <4>4. Unprocessed(s, o)' /\ slot'[s].lo = slot[s].lo /\ slot'[s].hi = slot[s].hi  BY <1>fU, <4>2,
            <4>3, <1>e3
      <4> QED  BY <4>2, <4>4 DEF Pending
    <3> QED  BY <3>6, <3>7, <3>8, <3>9 DEF UnitsOf
  <2>6. \A x \in Callers : Early(x)' \/ Active(x)' => UnitsOf(x)'  BY <2>2, <2>5
  <2> QED  BY <2>1, <2>3, <2>4, <2>6 DEF Units
<1>11. Fragments'
  <2>1. ASSUME NEW x \in Callers, x # o, Active(x)'
        PROVE  /\ \A s \in Slots : Unprocessed(s, x)' => FragmentOfCall(s, x)'
               /\ \A s, t \in Slots : Unprocessed(s, x)' /\ Unprocessed(t, x)' /\ s # t => Apart(s, t)'
    <3>0. Active(x) \/ Early(x)  BY <2>1, <1>fA, <1>e1, <1>e2, <1>e3, <1>p1, <1>p2, <1>p3, <1>p4,
          <1>p8 DEF Early
    <3>1. \A s \in Slots : Unprocessed(s, x) => Active(x)
      BY <1>0, <1>t DEF Typing, Unprocessed, InRun, Working, Members, OfGroup, Opened
    <3>2. call'[x].next = call[x].next /\ times'[x] = times[x]  BY <2>1, <3>0, <1>fA, <1>e1, <1>e2,
          <1>e3, <1>p1, <1>p2, <1>p3, <1>p4, <1>p8
    <3>3. \A s \in Slots : Unprocessed(s, x) => slot'[s].lo = slot[s].lo
          /\ slot'[s].hi = slot[s].hi  BY <1>e1, <1>e2, <1>e3, <1>p1, <1>p2, <1>p3, <1>p4, <1>p8
    <3>4. \A s \in Slots : Unprocessed(s, x)' => Unprocessed(s, x)  BY <1>fU
    <3>5. \A s \in Slots : Unprocessed(s, x) => FragmentOfCall(s, x)  BY <1>0, <3>1 DEF Fragments
    <3>6. \A s, t \in Slots : Unprocessed(s, x) /\ Unprocessed(t, x) /\ s # t => Apart(s, t)  BY <1>0,
          <3>1 DEF Fragments
    <3>7. \A s \in Slots : Unprocessed(s, x)' => FragmentOfCall(s, x)'  BY <3>2, <3>3, <3>4,
          <3>5 DEF FragmentOfCall
    <3>8. \A s, t \in Slots : Unprocessed(s, x)' /\ Unprocessed(t, x)' /\ s # t => Apart(s, t)'
          BY <3>3, <3>4, <3>6 DEF Apart
    <3> QED  BY <3>7, <3>8
  <2>2. /\ \A s \in Slots : Unprocessed(s, o)' => FragmentOfCall(s, o)'
        /\ \A s, t \in Slots : Unprocessed(s, o)' /\ Unprocessed(t, o)' /\ s # t => Apart(s, t)'
    <3>1. \A s \in Slots : Unprocessed(s, o)' => Unprocessed(s, o) /\ s # wSlot[w]  BY <1>fU
    <3>2. \A s \in Slots : slot'[s].lo = slot[s].lo /\ slot'[s].hi = slot[s].hi  BY <1>e3
    <3>3. \A s, t \in Slots : Unprocessed(s, o) /\ Unprocessed(t, o) /\ s # t => Apart(s, t)  BY <1>0,
          <1>p1 DEF Fragments
    <3>4. \A s, t \in Slots : Unprocessed(s, o)' /\ Unprocessed(t, o)' /\ s # t => Apart(s, t)'
      BY <3>1, <3>2, <3>3 DEF Apart
    <3>5. ASSUME NEW s \in Slots, Unprocessed(s, o)' PROVE FragmentOfCall(s, o)'
      <4>1. FragmentOfCall(s, o) /\ Apart(s, wSlot[w])  BY <1>p7, <3>1, <3>5
      <4>2. call'[o].next = call[o].next  BY <1>e3
      <4>3. slot[s].lo \in Nat /\ slot[s].hi \in Nat /\ slot[wSlot[w]].lo \in Nat
            /\ slot[wSlot[w]].hi \in Nat
            /\ call[o].next \in Nat /\ call[o].size \in Nat
        BY <1>t DEF Typing
      <4>4. ASSUME NEW u \in slot[s].lo .. slot[s].hi PROVE times'[o][u] = 0
        <5>1. u \notin slot[wSlot[w]].lo .. slot[wSlot[w]].hi  BY <4>1, <4>3 DEF Apart
        <5>2. times[o][u] = 0 /\ u >= 1 /\ u < call[o].next  BY <4>1, <4>3 DEF FragmentOfCall
        <5>3. u \in 1 .. call[o].size  BY <1>p9, <4>3, <5>2
        <5>4. u \in DOMAIN times[o]  BY <1>p6, <5>3 DEF UnitsOf
        <5> QED  BY <1>e2, <5>1, <5>2, <5>4
      <4> QED  BY <4>1, <4>2, <4>4, <3>2, <3>5 DEF FragmentOfCall
    <3> QED  BY <3>4, <3>5
  <2> QED  BY <2>1, <2>2 DEF Fragments
<1>12. Exceptions'
  <2>1. ASSUME NEW x \in Callers PROVE ExceptionOf(x)'
    BY <1>0, <1>t, <2>1, <1>e1, <1>e2, <1>e3, <1>p1, <1>p2, <1>p3, <1>p4, <1>p8, <1>fA,
          <1>fE DEF Typing, Exceptions, ExceptionOf, IsKeyCall
  <2> QED  BY <2>1 DEF Exceptions
<1> QED  BY <1>1, <1>2, <1>3, <1>4, <1>5, <1>6, <1>7, <1>8, <1>9, <1>10, <1>11, <1>12 DEF PoolInv

\* They are processed and the fragment throws.
LEMMA RunThrowKept ==
  ASSUME NEW w \in Workers, PoolInv, Run(w), ~stopPending, slot[wSlot[w]].kind = "units",
        ~(slot' = slot /\ broken' = broken)
  PROVE  PoolInv'
<1>0. TypeOK /\ Phases /\ Mutexes /\ Division /\ Groups /\ Members /\ Holding /\ Counted
      /\ Completion /\ Units /\ Fragments /\ Exceptions  BY DEF PoolInv
<1>t. Typing  BY <1>0, Typed
<1>o. PICK o \in Callers : o = slot[wSlot[w]].owner /\ Opened(o)
      /\ slot[wSlot[w]].first = call[o].first /\ slot[wSlot[w]].kind = "units"
  <2>1. Working(w)  BY DEF Run, Working
  <2>2. OfGroup(wSlot[w]) /\ slot[wSlot[w]].kind = "units"  BY <1>0, <2>1 DEF Members, Holding, Held,
        Run
  <2> QED  BY <2>2 DEF OfGroup
<1>p1. o = slot[wSlot[w]].owner /\ slot[wSlot[w]].first = call[o].first
      /\ slot[wSlot[w]].kind = "units" /\ Opened(o) /\ Active(o)
  BY <1>o DEF Opened
<1>p2. wPc[w] = "run" /\ Working(w) /\ slot[wSlot[w]].state = "busy"
  BY <1>0, <1>t, <1>p1 DEF Run, Working, Holding, Held
<1>p3. \A y \in Workers : Working(y) /\ wSlot[y] = wSlot[w] => y = w
  BY <1>0, <1>t, <1>p1, <1>p2 DEF Holding, Held
<1>p4. \A y \in Workers : wPc[y] = "run" => Working(y)
  BY <1>0, <1>t, <1>p1, <1>p2, <1>p3 DEF Working
<1>p5. Unprocessed(wSlot[w], o)
  BY <1>0, <1>t, <1>p1, <1>p2, <1>p3, <1>p4 DEF Unprocessed, InRun
<1>p6. FragmentOfCall(wSlot[w], o) /\ UnitsOf(o)
  BY <1>0, <1>t, <1>p1, <1>p5 DEF Typing, Fragments, Units
<1>p7. \A s \in Slots : Unprocessed(s, o) => FragmentOfCall(s, o) /\ (s # wSlot[w] => Apart(s,
      wSlot[w]))
  BY <1>0, <1>t, <1>p1, <1>p2, <1>p3, <1>p4, <1>p5, <1>p6 DEF Typing, Fragments
<1>p8. cPc[o] \notin {"free", "signal", "idle"} /\ ~IsKeyCall(o)
  BY <1>0, <1>t, <1>p1, <1>p2, <1>p3, <1>p4, <1>p5, <1>p6, <1>p7 DEF Active
<1>p9. call[o].next <= call[o].size + 1
  BY <1>0, <1>t, <1>p1, DividedEnds DEF Division, DivisionOf, Typing
<1>p10. slot[call[o].first].owner = o
  BY <1>0, <1>t, <1>p1, <1>p2, <1>p3, <1>p4, <1>p5, <1>p6, <1>p7, <1>p8, <1>p9 DEF Groups, GroupOf,
        OwnsFirst
<1>p11. \A x \in Callers : Active(x) /\ x # o => call[x].first # call[o].first
  <2>1. slot[call[o].first].state # "free" /\ slot[call[o].first].owner = o  BY <1>0, <1>p1 DEF Groups,
        GroupOf, OwnsFirst
  <2>2. ASSUME NEW x \in Callers, Active(x), x # o, call[x].first = call[o].first PROVE FALSE
    <3>1. call[x].next >= 1 /\ call[x].next \in Nat  BY <1>0, <1>t, <2>2 DEF Typing, Division,
          DivisionOf, Divided
    <3>2. CASE call[x].next = 1  BY <1>0, <2>1, <2>2, <3>2 DEF Groups, GroupOf, IsFree
    <3>3. CASE call[x].next > 1  BY <1>0, <2>1, <2>2, <3>3 DEF Groups, GroupOf, Opened, OwnsFirst
    <3> QED  BY <3>1, <3>2, <3>3
  <2> QED  BY <2>2
<1>e1. wPc' \in [Workers -> WorkStates]
      /\ \A x \in Workers : wPc'[x] = (IF x = w THEN IF slot[wSlot[w]].first = wSlot[w] THEN "count" ELSE "freeSlot" ELSE wPc[x])
  BY <1>t, WorkerGoes DEF Typing, WorkStates, Run, WGoto, AfterRun, RunUnits
<1>e2. DOMAIN times' = Callers
      /\ \A x \in Callers : times'[x] = IF x = o THEN [u \in DOMAIN times[o] |-> IF u \in slot[wSlot[w]].lo .. slot[wSlot[w]].hi THEN times[o][u] + 1 ELSE times[o][u]] ELSE times[x]
  <2>1. TimesAddedAt(slot[wSlot[w]].owner, slot[wSlot[w]].lo, slot[wSlot[w]].hi)  BY Zenon DEF Run,
        RunUnits, TimesAddedAt
  <2>2. DOMAIN times = Callers /\ o = slot[wSlot[w]].owner  BY <1>0, <1>o DEF Units
  <2> QED  BY <2>1, <2>2, TimesAdded
<1>e3. slot' \in [Slots -> SlotRecord] /\ \A s \in Slots : slot'[s].kind = slot[s].kind
      /\ slot'[s].owner = slot[s].owner /\ slot'[s].first = slot[s].first
      /\ slot'[s].lo = slot[s].lo /\ slot'[s].hi = slot[s].hi /\ slot'[s].count = slot[s].count
      /\ (s = slot[wSlot[w]].first => slot'[s].exception = TRUE)
      /\ (~(s = slot[wSlot[w]].first) => slot'[s].exception = slot[s].exception)
      /\ slot'[s].completed = slot[s].completed /\ slot'[s].state = slot[s].state
  <2>1. ExceptionSetAt(slot[wSlot[w]].first)  BY Zenon DEF Run, RunUnits, ExceptionSlot, ExceptionSetAt
  <2>2. slot \in [Slots -> SlotRecord]  BY <1>t, Zenon DEF Typing
  <2>3. wSlot[w] \in Slots  BY <1>t, Zenon DEF Typing
  <2>4. slot[wSlot[w]].first \in Slots  BY <1>t, <2>3, Zenon DEF Typing
  <2> QED  BY <2>1, <2>2, <2>4, ExceptionSet
<1>e4. broken' \in [Callers -> BOOLEAN] /\ \A x \in Callers : (x = o => broken'[x] = TRUE)
      /\ (x # o => broken'[x] = broken[x])
  <2>1. broken' = [broken EXCEPT ![slot[wSlot[w]].owner] = TRUE]  BY Zenon DEF Run, RunUnits
  <2>2. broken' = [broken EXCEPT ![o] = TRUE]  BY <1>o, <2>1
  <2> QED  BY <1>t, <2>2 DEF Typing
<1>e5. portable' = portable /\ running' = running /\ stopPending' = stopPending
      /\ threadCount' = threadCount /\ enq' = enq /\ deq' = deq /\ enqOwner' = enqOwner
      /\ deqOwner' = deqOwner /\ readyEvt' = readyEvt /\ doneEvt' = doneEvt /\ cPc' = cPc
      /\ call' = call /\ wSlot' = wSlot /\ sPc' = sPc /\ joined' = joined /\ wGroup' = wGroup
      /\ calls' = calls
  BY DEF Run, flags, events, stop, history, WGoto, AfterRun, RunUnits
<1>fA. \A x \in Callers : Active(x)' <=> Active(x)
  BY <1>0, <1>t, <1>e1, <1>e2, <1>e3, <1>e4, <1>e5, <1>p1, <1>p2, <1>p3, <1>p4, <1>p8 DEF Typing,
        Active, IsKeyCall
<1>fE. \A x \in Callers : Early(x)' <=> Early(x)
  BY <1>0, <1>t, <1>e1, <1>e2, <1>e3, <1>e4, <1>e5, <1>p1, <1>p2, <1>p3, <1>p4, <1>p8 DEF Typing,
        Early, IsKeyCall
<1>fW. \A y \in Workers : Working(y)' <=> Working(y)
  BY <1>0, <1>t, <1>e1, <1>e2, <1>e3, <1>e4, <1>e5, <1>p1, <1>p2, <1>p3, <1>p4, <1>p8 DEF Typing,
        Working
<1>fS. \A f, s \in Slots : Since(f, s)' <=> Since(f, s)
  BY <1>0, <1>t, <1>e1, <1>e2, <1>e3, <1>e4, <1>e5, <1>p1, <1>p2, <1>p3, <1>p4, <1>p8 DEF Typing, Since
<1>fR. \A s \in Slots : InRun(s)' <=> (InRun(s) /\ s # wSlot[w])
  <2>1. wSlot' = wSlot /\ stopPending' = stopPending /\ ~stopPending  BY <1>e5
  <2>2. \A y \in Workers : wPc'[y] = "run" <=> wPc[y] = "run" /\ y # w  BY <1>e1, <1>p2
  <2>3. \A y \in Workers : wPc[y] = "run" /\ wSlot[y] = wSlot[w] => y = w  BY <1>p3, <1>p4
  <2>4. ASSUME NEW s \in Slots, InRun(s)' PROVE InRun(s) /\ s # wSlot[w]
    BY <2>1, <2>2, <2>3, <2>4 DEF InRun
  <2>5. ASSUME NEW s \in Slots, InRun(s), s # wSlot[w] PROVE InRun(s)'  BY <2>1, <2>2, <2>5 DEF InRun
  <2> QED  BY <2>4, <2>5
<1>fT. \A x \in Callers : Waiting(x)' = Waiting(x)
  <2>1. ASSUME NEW x \in Callers, NEW s \in Slots PROVE s \in Waiting(x)' <=> s \in Waiting(x)
    BY <1>0, <1>t, <2>1, <1>e1, <1>e2, <1>e3, <1>e4, <1>e5, <1>p1, <1>p2, <1>p3, <1>p4,
          <1>p8 DEF Typing, Waiting
  <2>2. \A x \in Callers : Waiting(x)' \subseteq Slots /\ Waiting(x) \subseteq Slots  BY <1>t, <1>e1,
        <1>e2, <1>e3, <1>e4, <1>e5, <1>p1, <1>p2, <1>p3, <1>p4, <1>p8 DEF Waiting, Slots
  <2> QED  BY <2>1, <2>2
<1>fH. \A x \in Callers : Hands(x)' = Hands(x)
  <2>1. ASSUME NEW x \in Callers, NEW y \in Workers PROVE y \in Hands(x)' <=> y \in Hands(x)
    BY <1>0, <1>t, <2>1, <1>e1, <1>e2, <1>e3, <1>e4, <1>e5, <1>p1, <1>p2, <1>p3, <1>p4, <1>p8,
          <1>fW DEF Typing, Hands
  <2>2. \A x \in Callers : Hands(x)' \subseteq Workers /\ Hands(x) \subseteq Workers  BY DEF Hands
  <2> QED  BY <2>1, <2>2
<1>fU. \A s \in Slots, x \in Callers : Unprocessed(s, x)' <=> (Unprocessed(s, x) /\ s # wSlot[w])
  BY <1>0, <1>t, <1>e1, <1>e2, <1>e3, <1>e4, <1>e5, <1>p1, <1>p2, <1>p3, <1>p4, <1>p8, <1>fW,
        <1>fR DEF Typing, Unprocessed
<1>g. \A x \in Callers : Opened(x) => Opened(x)' /\ call'[x].first = call[x].first
  BY <1>t, <1>e1, <1>e2, <1>e3, <1>e4, <1>e5, <1>p1, <1>p2, <1>p3, <1>p4, <1>p8, <1>fA DEF Typing,
        Opened, Active, IsKeyCall
<1>s. \A s \in Slots : (slot'[s].kind = slot[s].kind /\ slot'[s].owner = slot[s].owner
      /\ slot'[s].first = slot[s].first)
  BY <1>e1, <1>e2, <1>e3, <1>e4, <1>e5, <1>p1, <1>p2, <1>p3, <1>p4, <1>p8
<1>1. TypeOK'
  BY <1>0, <1>t, <1>e1, <1>e2, <1>e3, <1>e4, <1>e5, <1>p1, <1>p2, <1>p3, <1>p4, <1>p8, Flags,
        TypesKept, Constants DEF Typing
<1>2. Phases'
  BY <1>0, <1>t, <1>e1, <1>e2, <1>e3, <1>e4, <1>e5, <1>p1, <1>p2, <1>p3, <1>p4, <1>p8 DEF Typing, Phases
<1>3. Mutexes'
  <2>1. cPc' = cPc /\ enqOwner' = enqOwner /\ deqOwner' = deqOwner /\ wSlot' = wSlot
        /\ stopPending' = stopPending  BY <1>e5
  <2>2. \A y \in Workers : y # w => wPc'[y] = wPc[y]  BY <1>e1
  <2>3. wPc'[w] \notin {"check", "wait", "take"} /\ wPc[w] \notin {"check", "wait", "take"}  BY <1>e1,
        <1>p2
  <2>4. \A y \in Workers : slot[wSlot[y]].state = "ready" => slot'[wSlot[y]].state = "ready"
    BY <1>t, <1>e3 DEF Typing
  <2>5. \A y \in Workers : wPc'[y] \in {"check", "wait", "take"} <=> deqOwner' = y
    BY <1>0, <2>1, <2>2, <2>3 DEF Mutexes
  <2>6. \A y \in Workers : wPc'[y] = "take" => stopPending' \/ slot'[wSlot'[y]].state = "ready"
    BY <1>0, <2>1, <2>2, <2>3, <2>4 DEF Mutexes
  <2>7. \A x \in Callers :
          cPc'[x] \in {"first", "firstWait", "next", "slotWait", "ready", "unlock"} <=> enqOwner' = x
    BY <1>0, <2>1 DEF Mutexes
  <2> QED  BY <2>5, <2>6, <2>7 DEF Mutexes
<1>4. Division'
  <2>1. call' = call /\ cPc' = cPc /\ enqOwner' = enqOwner  BY <1>e5
  <2>2. ASSUME NEW x \in Callers PROVE DivisionOf(x)'
    <3>1. DivisionOf(x) /\ (Active(x)' <=> Active(x)) /\ (Early(x)' <=> Early(x))  BY <1>0, <1>fA,
          <1>fE DEF Division
    <3> HIDE DEF Active, Early
    <3> QED  BY <2>1, <3>1 DEF DivisionOf, Divided, IsKeyCall
  <2> QED  BY <2>2 DEF Division
<1>5. Groups'
  <2>1. \A s \in Slots : slot[s].state = "free" => slot'[s].state = "free"  BY <1>e3
  <2>2. ASSUME NEW x \in Callers, OwnsFirst(x), Opened(x) \/ cPc[x] = "free" PROVE OwnsFirst(x)'
    <3>1. call[x].first \in Slots /\ call' = call  BY <1>t, <1>e5 DEF Typing
    <3>2. slot'[call[x].first].state = slot[call[x].first].state  BY <2>2, <3>1, <1>e3
    <3> QED  BY <1>s, <2>2, <3>1, <3>2 DEF OwnsFirst
  <2>3. ASSUME NEW x \in Callers PROVE GroupOf(x)'
    <3>1. call' = call /\ cPc' = cPc /\ enq' = enq  BY <1>e5
    <3>2. IsFree(enq) => IsFree(enq)'  BY <1>t, <2>1, <3>1 DEF IsFree, Typing
    <3>3. GroupOf(x) /\ (Active(x)' <=> Active(x)) /\ (Opened(x)' <=> Opened(x))  BY <1>0, <3>1,
          <1>fA DEF Groups, Opened
    <3> HIDE DEF Active, Opened
    <3> QED  BY <2>2, <3>1, <3>2, <3>3 DEF GroupOf
  <2> QED  BY <2>3 DEF Groups
<1>6. Members'
  <2>1. ASSUME NEW s \in Slots, OfGroup(s) PROVE OfGroup(s)'
    BY <1>t, <2>1, <1>g, <1>s, <1>fS DEF Typing, OfGroup
  <2>2. \A s \in Slots : slot'[s].state = "ready" => slot[s].state = "ready"  BY <1>t, <1>e1, <1>e2,
        <1>e3, <1>e4, <1>e5, <1>p1, <1>p2, <1>p3, <1>p4, <1>p8 DEF Typing
  <2>3. \A y \in Workers : Working(y)' => wSlot'[y] = wSlot[y] /\ OfGroup(wSlot[y])
    BY <1>0, <1>t, <1>fW, <1>e1, <1>e2, <1>e3, <1>e4, <1>e5, <1>p1, <1>p2, <1>p3, <1>p4,
          <1>p8 DEF Typing, Members
  <2>4. \A s \in Slots : slot'[s].state = "ready" => OfGroup(s)'  BY <1>0, <2>1, <2>2 DEF Members
  <2>5. \A y \in Workers : Working(y)' => OfGroup(wSlot[y])'  BY <1>t, <1>fW, <2>1, <2>3 DEF Typing
  <2> QED  BY <2>4, <2>5 DEF Members
<1>7. Holding'
  <2>1. ASSUME NEW y \in Workers, y # w, Working(y)' PROVE Held(y)'
    BY <1>0, <1>t, <2>1, <1>e1, <1>e2, <1>e3, <1>e4, <1>e5, <1>p1, <1>p2, <1>p3, <1>p4, <1>p8,
          <1>fW DEF Typing, Holding, Held
  <2>2. Working(w)' => Held(w)'
    BY <1>0, <1>t, <1>e1, <1>e2, <1>e3, <1>e4, <1>e5, <1>p1, <1>p2, <1>p3, <1>p4, <1>p8,
          <1>fW DEF Typing, Holding, Held, Mutexes
  <2>3. \A y, z \in Workers : Working(y)' /\ Working(z)' /\ wSlot'[y] = wSlot'[z] => y = z
    BY <1>0, <1>t, <1>e1, <1>e2, <1>e3, <1>e4, <1>e5, <1>p1, <1>p2, <1>p3, <1>p4, <1>p8,
          <1>fW DEF Typing, Holding
  <2>4. \A y \in Workers : Working(y)' => Held(y)'  BY <2>1, <2>2
  <2> QED  BY <2>3, <2>4 DEF Holding
<1>8. Counted'
  <2>1. ASSUME NEW x \in Callers, Active(x)' PROVE CountOf(x)'
    <3>1. Active(x)  BY <2>1, <1>fA
    <3>2. call'[x].left = call[x].left /\ call'[x].first = call[x].first  BY <1>t, <2>1, <3>1, <1>e1,
          <1>e2, <1>e3, <1>e4, <1>e5, <1>p1, <1>p2, <1>p3, <1>p4, <1>p8, <1>fA DEF Typing
    <3>3. slot'[call[x].first].count = slot[call[x].first].count  BY <1>t, <1>e1, <1>e2, <1>e3, <1>e4,
          <1>e5, <1>p1, <1>p2, <1>p3, <1>p4, <1>p8 DEF Typing
    <3> QED  BY <1>0, <3>1, <3>2, <3>3, <1>fT, <1>fH DEF Counted, CountOf
  <2> QED  BY <2>1 DEF Counted
<1>9. Completion'
  <2>1. ASSUME NEW s \in Slots, slot'[s].completed PROVE EventOf(s)'
    <3>1. slot[s].completed /\ EventOf(s)  BY <1>0, <2>1, <1>e3 DEF Completion
    <3>2. slot'[s].count = slot[s].count  BY <3>1, <1>e3
    <3>3. slot'[s].kind = slot[s].kind /\ slot'[s].owner = slot[s].owner  BY <1>s
    <3>4. PICK x \in Callers : x = slot[s].owner /\ Opened(x) /\ call[x].first = s  BY <3>1 DEF EventOf
    <3>5. Opened(x)' /\ call'[x].first = s  BY <1>g, <3>4
    <3> QED  BY <3>1, <3>2, <3>3, <3>4, <3>5 DEF EventOf, Opened, Active, IsKeyCall
  <2>2. ASSUME NEW y \in Workers, wPc'[y] = "signalItem" PROVE slot'[wGroup'[y]].count = 0
        /\ ~slot'[wGroup'[y]].completed
    <3>1. y # w /\ wPc[y] = "signalItem"  BY <1>e1, <2>2
    <3>2. wGroup'[y] = wGroup[y] /\ wGroup[y] \in Slots  BY <1>t, <1>e5, <3>1 DEF Typing
    <3>3. slot[wGroup[y]].count = 0 /\ ~slot[wGroup[y]].completed  BY <1>0, <3>1 DEF Completion
    <3>4. slot'[wGroup[y]].count = slot[wGroup[y]].count
          /\ slot'[wGroup[y]].completed = slot[wGroup[y]].completed
      BY <1>e3, <3>1, <3>2
    <3> QED  BY <3>2, <3>3, <3>4
  <2>3. ASSUME NEW y \in Workers, NEW z \in Workers, wPc'[y] = "signalItem", wPc'[z] = "signalItem",
        wGroup'[y] = wGroup'[z]
        PROVE  y = z
    <3>1. y # w /\ wPc[y] = "signalItem" /\ z # w /\ wPc[z] = "signalItem"  BY <1>e1, <2>3
    <3>2. wGroup'[y] = wGroup[y] /\ wGroup'[z] = wGroup[z]  BY <1>e5, <3>1
    <3> QED  BY <1>0, <2>3, <3>1, <3>2 DEF Completion
  <2> QED  BY <2>1, <2>2, <2>3 DEF Completion
<1>10. Units'
  <2>1. DOMAIN times' = Callers  BY <1>0, <1>e1, <1>e2, <1>e3, <1>e4, <1>e5, <1>p1, <1>p2, <1>p3,
        <1>p4, <1>p8 DEF Units
  <2>2. ASSUME NEW x \in Callers, x # o, Early(x)' \/ Active(x)' PROVE UnitsOf(x)'
    <3>1. (Early(x) \/ Active(x))  BY <2>2, <1>t, <1>e1, <1>e2, <1>e3, <1>e4, <1>e5, <1>p1, <1>p2,
          <1>p3, <1>p4, <1>p8, <1>fA, <1>fE DEF Typing
    <3>2. call'[x].size = call[x].size /\ call'[x].next = call[x].next /\ times'[x] = times[x]
          BY <1>e2, <1>e5, <2>2
    <3>3. \A s \in Slots : Unprocessed(s, x) => Unprocessed(s, x)' /\ slot'[s].lo = slot[s].lo
          /\ slot'[s].hi = slot[s].hi
      BY <1>e3, <1>fU, <2>2, <1>p5 DEF Unprocessed
    <3>4. UnitsOf(x)  BY <1>0, <3>1 DEF Units
    <3>5. \A u \in 1 .. call[x].size : Pending(x, u) => Pending(x, u)'  BY <3>3 DEF Pending
    <3> QED  BY <3>2, <3>4, <3>5 DEF UnitsOf
  <2>3. ASSUME NEW x \in Callers, IsKeyCall(x)', cPc'[x] # "idle" PROVE DOMAIN times'[x] = {}
    <3>1. x # o  BY <1>e5, <1>p8, <2>3 DEF IsKeyCall
    <3> QED  BY <1>0, <1>e2, <1>e5, <2>3, <3>1 DEF Units, IsKeyCall
  <2>4. ASSUME NEW x \in Callers, cPc'[x] \in {"free", "signal", "idle"} PROVE AllOnce(x)'
    <3>1. x # o  BY <1>e5, <1>p8, <2>4
    <3>2. AllOnce(x) /\ times'[x] = times[x]  BY <1>0, <1>e2, <1>e5, <2>4, <3>1 DEF Units
    <3> QED  BY <3>2 DEF AllOnce
  <2>5. UnitsOf(o)'
    <3> DEFINE l == slot[wSlot[w]].lo
               h == slot[wSlot[w]].hi
    <3>1. l \in Nat /\ h \in Nat /\ call[o].next \in Nat /\ call[o].size \in Nat
          /\ wSlot[w] \in Slots  BY <1>t DEF Typing
    <3>2. times[o] \in [1 .. call[o].size -> {0, 1}]  BY <1>p6 DEF UnitsOf
    <3>3. times'[o] = [u \in 1 .. call[o].size |-> IF u \in l .. h THEN times[o][u] + 1 ELSE times[o][u]]
      BY <1>e2, <3>2
    <3>4. l >= 1 /\ h < call[o].next /\ \A u \in l .. h : times[o][u] = 0  BY <1>p6 DEF FragmentOfCall
    <3>5. \A u \in 1 .. call[o].size : times'[o][u] = (IF u \in l .. h THEN 1 ELSE times[o][u])
          BY <3>2, <3>3, <3>4
    <3>6. times'[o] \in [1 .. call[o].size -> {0, 1}]  BY <3>2, <3>3, <3>5
    <3>7. call'[o].size = call[o].size /\ call'[o].next = call[o].next  BY <1>e5
    <3>8. ASSUME NEW u \in 1 .. call[o].size, u >= call[o].next PROVE times'[o][u] = 0
      <4>1. u \notin l .. h  BY <3>1, <3>4, <3>8
      <4> QED  BY <1>p6, <3>5, <3>8, <4>1 DEF UnitsOf
    <3>9. ASSUME NEW u \in 1 .. call[o].size, u < call[o].next, times'[o][u] = 0 PROVE Pending(o, u)'
      <4>1. u \notin l .. h /\ times[o][u] = 0  BY <3>5, <3>9
      <4>2. PICK s \in Slots : Unprocessed(s, o) /\ u \in slot[s].lo .. slot[s].hi
        BY <1>p6, <3>9, <4>1 DEF UnitsOf, Pending
      <4>3. s # wSlot[w]  BY <4>1, <4>2
      <4>4. Unprocessed(s, o)' /\ slot'[s].lo = slot[s].lo /\ slot'[s].hi = slot[s].hi  BY <1>fU, <4>2,
            <4>3, <1>e3
      <4> QED  BY <4>2, <4>4 DEF Pending
    <3> QED  BY <3>6, <3>7, <3>8, <3>9 DEF UnitsOf
  <2>6. \A x \in Callers : Early(x)' \/ Active(x)' => UnitsOf(x)'  BY <2>2, <2>5
  <2> QED  BY <2>1, <2>3, <2>4, <2>6 DEF Units
<1>11. Fragments'
  <2>1. ASSUME NEW x \in Callers, x # o, Active(x)'
        PROVE  /\ \A s \in Slots : Unprocessed(s, x)' => FragmentOfCall(s, x)'
               /\ \A s, t \in Slots : Unprocessed(s, x)' /\ Unprocessed(t, x)' /\ s # t => Apart(s, t)'
    <3>0. Active(x) \/ Early(x)  BY <2>1, <1>fA, <1>e1, <1>e2, <1>e3, <1>e4, <1>e5, <1>p1, <1>p2,
          <1>p3, <1>p4, <1>p8 DEF Early
    <3>1. \A s \in Slots : Unprocessed(s, x) => Active(x)
      BY <1>0, <1>t DEF Typing, Unprocessed, InRun, Working, Members, OfGroup, Opened
    <3>2. call'[x].next = call[x].next /\ times'[x] = times[x]  BY <2>1, <3>0, <1>fA, <1>e1, <1>e2,
          <1>e3, <1>e4, <1>e5, <1>p1, <1>p2, <1>p3, <1>p4, <1>p8
    <3>3. \A s \in Slots : Unprocessed(s, x) => slot'[s].lo = slot[s].lo
          /\ slot'[s].hi = slot[s].hi  BY <1>e1, <1>e2, <1>e3, <1>e4, <1>e5, <1>p1, <1>p2, <1>p3,
          <1>p4, <1>p8
    <3>4. \A s \in Slots : Unprocessed(s, x)' => Unprocessed(s, x)  BY <1>fU
    <3>5. \A s \in Slots : Unprocessed(s, x) => FragmentOfCall(s, x)  BY <1>0, <3>1 DEF Fragments
    <3>6. \A s, t \in Slots : Unprocessed(s, x) /\ Unprocessed(t, x) /\ s # t => Apart(s, t)  BY <1>0,
          <3>1 DEF Fragments
    <3>7. \A s \in Slots : Unprocessed(s, x)' => FragmentOfCall(s, x)'  BY <3>2, <3>3, <3>4,
          <3>5 DEF FragmentOfCall
    <3>8. \A s, t \in Slots : Unprocessed(s, x)' /\ Unprocessed(t, x)' /\ s # t => Apart(s, t)'
          BY <3>3, <3>4, <3>6 DEF Apart
    <3> QED  BY <3>7, <3>8
  <2>2. /\ \A s \in Slots : Unprocessed(s, o)' => FragmentOfCall(s, o)'
        /\ \A s, t \in Slots : Unprocessed(s, o)' /\ Unprocessed(t, o)' /\ s # t => Apart(s, t)'
    <3>1. \A s \in Slots : Unprocessed(s, o)' => Unprocessed(s, o) /\ s # wSlot[w]  BY <1>fU
    <3>2. \A s \in Slots : slot'[s].lo = slot[s].lo /\ slot'[s].hi = slot[s].hi  BY <1>e3
    <3>3. \A s, t \in Slots : Unprocessed(s, o) /\ Unprocessed(t, o) /\ s # t => Apart(s, t)  BY <1>0,
          <1>p1 DEF Fragments
    <3>4. \A s, t \in Slots : Unprocessed(s, o)' /\ Unprocessed(t, o)' /\ s # t => Apart(s, t)'
      BY <3>1, <3>2, <3>3 DEF Apart
    <3>5. ASSUME NEW s \in Slots, Unprocessed(s, o)' PROVE FragmentOfCall(s, o)'
      <4>1. FragmentOfCall(s, o) /\ Apart(s, wSlot[w])  BY <1>p7, <3>1, <3>5
      <4>2. call'[o].next = call[o].next  BY <1>e5
      <4>3. slot[s].lo \in Nat /\ slot[s].hi \in Nat /\ slot[wSlot[w]].lo \in Nat
            /\ slot[wSlot[w]].hi \in Nat
            /\ call[o].next \in Nat /\ call[o].size \in Nat
        BY <1>t DEF Typing
      <4>4. ASSUME NEW u \in slot[s].lo .. slot[s].hi PROVE times'[o][u] = 0
        <5>1. u \notin slot[wSlot[w]].lo .. slot[wSlot[w]].hi  BY <4>1, <4>3 DEF Apart
        <5>2. times[o][u] = 0 /\ u >= 1 /\ u < call[o].next  BY <4>1, <4>3 DEF FragmentOfCall
        <5>3. u \in 1 .. call[o].size  BY <1>p9, <4>3, <5>2
        <5>4. u \in DOMAIN times[o]  BY <1>p6, <5>3 DEF UnitsOf
        <5> QED  BY <1>e2, <5>1, <5>2, <5>4
      <4> QED  BY <4>1, <4>2, <4>4, <3>2, <3>5 DEF FragmentOfCall
    <3> QED  BY <3>4, <3>5
  <2> QED  BY <2>1, <2>2 DEF Fragments
<1>12. Exceptions'
  <2>1. ASSUME NEW x \in Callers PROVE ExceptionOf(x)'
    <3>1. ExceptionOf(x) /\ (Active(x)' <=> Active(x)) /\ (Early(x)' <=> Early(x))  BY <1>0, <1>fA,
          <1>fE DEF Exceptions
    <3>2. call' = call /\ cPc' = cPc /\ call[x].first \in Slots  BY <1>e5, <1>t DEF Typing
    <3>3. CASE x = o
      <4>1. ~Early(o) /\ cPc[o] \notin {"free", "signal", "idle"} /\ ~IsKeyCall(o)  BY <1>p1,
            <1>p8 DEF Active, Early
      <4>2. broken'[o] = TRUE /\ slot'[call[o].first].exception = TRUE  BY <1>t, <1>e3, <1>e4,
            <1>p1 DEF Typing
      <4>3. slot'[call[o].first].exception = broken'[o]  BY <4>2, Zenon
      <4> QED  BY <3>2, <3>3, <4>1, <4>3 DEF ExceptionOf, IsKeyCall, Early
    <3>4. CASE x # o
      <4>1. broken'[x] = broken[x]  BY <1>e4, <3>4
      <4>2. Active(x) => slot'[call[x].first].exception = slot[call[x].first].exception
        BY <1>e3, <1>p1, <1>p11, <3>2, <3>4
      <4> HIDE DEF Active, Early
      <4> QED  BY <3>1, <3>2, <4>1, <4>2 DEF ExceptionOf, IsKeyCall
    <3> QED  BY <3>3, <3>4
  <2> QED  BY <2>1 DEF Exceptions
<1> QED  BY <1>1, <1>2, <1>3, <1>4, <1>5, <1>6, <1>7, <1>8, <1>9, <1>10, <1>11, <1>12 DEF PoolInv

\* A worker sets its slot free, which was not its group's first.
LEMMA FreeSlotUnitsKept ==
  ASSUME NEW w \in Workers, PoolInv, FreeSlot(w), slot[wSlot[w]].kind # "key"
  PROVE  PoolInv'
<1>0. TypeOK /\ Phases /\ Mutexes /\ Division /\ Groups /\ Members /\ Holding /\ Counted
      /\ Completion /\ Units /\ Fragments /\ Exceptions  BY DEF PoolInv
<1>t. Typing  BY <1>0, Typed
<1>p1. wPc[w] = "freeSlot" /\ Working(w) /\ slot[wSlot[w]].state = "busy"
  BY <1>0, <1>t DEF FreeSlot, Working, Holding, Held
<1>p2. \A y \in Workers : Working(y) /\ wSlot[y] = wSlot[w] => y = w
  BY <1>0, <1>t, <1>p1 DEF Holding, Held
<1>p3. \A x \in Callers : cPc[x] = "free" \/ Opened(x) => call[x].first # wSlot[w]
  BY <1>0, <1>t, <1>p1, <1>p2 DEF Groups, GroupOf, OwnsFirst, Holding, Held
<1>p4. ~InRun(wSlot[w])
  BY <1>0, <1>t, <1>p1, <1>p2, <1>p3 DEF InRun, Working
<1>p5. slot[wSlot[w]].completed => FALSE
  BY <1>0, <1>t, <1>p1, <1>p2, <1>p3, <1>p4 DEF Typing, Completion, EventOf
<1>e1. wPc' \in [Workers -> WorkStates]
      /\ \A x \in Workers : wPc'[x] = (IF x = w THEN "signalSlot" ELSE wPc[x])
  BY <1>t, WorkerGoes DEF Typing, WorkStates, FreeSlot, WGoto
<1>e2. slot' \in [Slots -> SlotRecord] /\ \A s \in Slots : slot'[s].kind = slot[s].kind
      /\ slot'[s].owner = slot[s].owner /\ slot'[s].first = slot[s].first
      /\ slot'[s].lo = slot[s].lo /\ slot'[s].hi = slot[s].hi /\ slot'[s].count = slot[s].count
      /\ slot'[s].exception = slot[s].exception /\ slot'[s].completed = slot[s].completed
      /\ slot'[s].state = (IF s = wSlot[w] THEN "free" ELSE slot[s].state)
  BY <1>t, StateSet DEF Typing, FreeSlot, WGoto
<1>e3. wPc[w] = "freeSlot"
  BY DEF FreeSlot
<1>e4. portable' = portable /\ running' = running /\ stopPending' = stopPending
      /\ threadCount' = threadCount /\ enq' = enq /\ deq' = deq /\ enqOwner' = enqOwner
      /\ deqOwner' = deqOwner /\ readyEvt' = readyEvt /\ doneEvt' = doneEvt /\ cPc' = cPc
      /\ call' = call /\ wSlot' = wSlot /\ sPc' = sPc /\ joined' = joined /\ wGroup' = wGroup
      /\ times' = times /\ broken' = broken /\ calls' = calls
  BY DEF FreeSlot, flags, events, stop, history, WGoto
<1>fA. \A x \in Callers : Active(x)' <=> Active(x)
  BY <1>0, <1>t, <1>e1, <1>e2, <1>e3, <1>e4, <1>p1, <1>p2, <1>p3, <1>p4, <1>p5 DEF Typing, Active,
        IsKeyCall
<1>fE. \A x \in Callers : Early(x)' <=> Early(x)
  BY <1>0, <1>t, <1>e1, <1>e2, <1>e3, <1>e4, <1>p1, <1>p2, <1>p3, <1>p4, <1>p5 DEF Typing, Early,
        IsKeyCall
<1>fW. \A y \in Workers : Working(y)' <=> Working(y)
  BY <1>0, <1>t, <1>e1, <1>e2, <1>e3, <1>e4, <1>p1, <1>p2, <1>p3, <1>p4, <1>p5 DEF Typing, Working
<1>fS. \A f, s \in Slots : Since(f, s)' <=> Since(f, s)
  BY <1>0, <1>t, <1>e1, <1>e2, <1>e3, <1>e4, <1>p1, <1>p2, <1>p3, <1>p4, <1>p5 DEF Typing, Since
<1>fR. \A s \in Slots : InRun(s)' <=> InRun(s)
  BY <1>0, <1>t, <1>e1, <1>e2, <1>e3, <1>e4, <1>p1, <1>p2, <1>p3, <1>p4, <1>p5 DEF Typing, InRun
<1>fT. \A x \in Callers : Waiting(x)' = Waiting(x)
  <2>1. ASSUME NEW x \in Callers, NEW s \in Slots PROVE s \in Waiting(x)' <=> s \in Waiting(x)
    BY <1>0, <1>t, <2>1, <1>e1, <1>e2, <1>e3, <1>e4, <1>p1, <1>p2, <1>p3, <1>p4, <1>p5 DEF Typing,
          Waiting
  <2>2. \A x \in Callers : Waiting(x)' \subseteq Slots /\ Waiting(x) \subseteq Slots  BY <1>t, <1>e1,
        <1>e2, <1>e3, <1>e4, <1>p1, <1>p2, <1>p3, <1>p4, <1>p5 DEF Waiting, Slots
  <2> QED  BY <2>1, <2>2
<1>fH. \A x \in Callers : Hands(x)' = Hands(x)
  <2>1. ASSUME NEW x \in Callers, NEW y \in Workers PROVE y \in Hands(x)' <=> y \in Hands(x)
    BY <1>0, <1>t, <2>1, <1>e1, <1>e2, <1>e3, <1>e4, <1>p1, <1>p2, <1>p3, <1>p4, <1>p5,
          <1>fW DEF Typing, Hands
  <2>2. \A x \in Callers : Hands(x)' \subseteq Workers /\ Hands(x) \subseteq Workers  BY DEF Hands
  <2> QED  BY <2>1, <2>2
<1>fU. \A s \in Slots, x \in Callers : Unprocessed(s, x)' <=> Unprocessed(s, x)
  BY <1>0, <1>t, <1>e1, <1>e2, <1>e3, <1>e4, <1>p1, <1>p2, <1>p3, <1>p4, <1>p5, <1>fW,
        <1>fR DEF Typing, Unprocessed
<1>g. \A x \in Callers : Opened(x) => Opened(x)' /\ call'[x].first = call[x].first
  BY <1>t, <1>e1, <1>e2, <1>e3, <1>e4, <1>p1, <1>p2, <1>p3, <1>p4, <1>p5, <1>fA DEF Typing, Opened,
        Active, IsKeyCall
<1>s. \A s \in Slots : (slot'[s].kind = slot[s].kind /\ slot'[s].owner = slot[s].owner
      /\ slot'[s].first = slot[s].first)
  BY <1>e1, <1>e2, <1>e3, <1>e4, <1>p1, <1>p2, <1>p3, <1>p4, <1>p5
<1>1. TypeOK'
  BY <1>0, <1>t, <1>e1, <1>e2, <1>e3, <1>e4, <1>p1, <1>p2, <1>p3, <1>p4, <1>p5, Flags, TypesKept,
        Constants DEF Typing
<1>2. Phases'
  BY <1>0, <1>t, <1>e1, <1>e2, <1>e3, <1>e4, <1>p1, <1>p2, <1>p3, <1>p4, <1>p5 DEF Typing, Phases
<1>3. Mutexes'
  <2>1. cPc' = cPc /\ enqOwner' = enqOwner /\ deqOwner' = deqOwner /\ wSlot' = wSlot
        /\ stopPending' = stopPending  BY <1>e4
  <2>2. \A y \in Workers : y # w => wPc'[y] = wPc[y]  BY <1>e1
  <2>3. wPc'[w] \notin {"check", "wait", "take"} /\ wPc[w] \notin {"check", "wait", "take"}  BY <1>e1,
        <1>p1
  <2>4. \A y \in Workers : slot[wSlot[y]].state = "ready" => slot'[wSlot[y]].state = "ready"
    BY <1>t, <1>e2, <1>p1 DEF Typing
  <2>5. \A y \in Workers : wPc'[y] \in {"check", "wait", "take"} <=> deqOwner' = y
    BY <1>0, <2>1, <2>2, <2>3 DEF Mutexes
  <2>6. \A y \in Workers : wPc'[y] = "take" => stopPending' \/ slot'[wSlot'[y]].state = "ready"
    BY <1>0, <2>1, <2>2, <2>3, <2>4 DEF Mutexes
  <2>7. \A x \in Callers :
          cPc'[x] \in {"first", "firstWait", "next", "slotWait", "ready", "unlock"} <=> enqOwner' = x
    BY <1>0, <2>1 DEF Mutexes
  <2> QED  BY <2>5, <2>6, <2>7 DEF Mutexes
<1>4. Division'
  <2>1. call' = call /\ cPc' = cPc /\ enqOwner' = enqOwner  BY <1>e4
  <2>2. ASSUME NEW x \in Callers PROVE DivisionOf(x)'
    <3>1. DivisionOf(x) /\ (Active(x)' <=> Active(x)) /\ (Early(x)' <=> Early(x))  BY <1>0, <1>fA,
          <1>fE DEF Division
    <3> HIDE DEF Active, Early
    <3> QED  BY <2>1, <3>1 DEF DivisionOf, Divided, IsKeyCall
  <2> QED  BY <2>2 DEF Division
<1>5. Groups'
  <2>1. \A s \in Slots : slot[s].state = "free" => slot'[s].state = "free"  BY <1>e2, <1>p1
  <2>2. ASSUME NEW x \in Callers, OwnsFirst(x), Opened(x) \/ cPc[x] = "free" PROVE OwnsFirst(x)'
    <3>1. call[x].first \in Slots /\ call' = call  BY <1>t, <1>e4 DEF Typing
    <3>2. slot'[call[x].first].state = slot[call[x].first].state  BY <2>2, <3>1, <1>e2, <1>p3
    <3> QED  BY <1>s, <2>2, <3>1, <3>2 DEF OwnsFirst
  <2>3. ASSUME NEW x \in Callers PROVE GroupOf(x)'
    <3>1. call' = call /\ cPc' = cPc /\ enq' = enq  BY <1>e4
    <3>2. IsFree(enq) => IsFree(enq)'  BY <1>t, <2>1, <3>1 DEF IsFree, Typing
    <3>3. GroupOf(x) /\ (Active(x)' <=> Active(x)) /\ (Opened(x)' <=> Opened(x))  BY <1>0, <3>1,
          <1>fA DEF Groups, Opened
    <3> HIDE DEF Active, Opened
    <3> QED  BY <2>2, <3>1, <3>2, <3>3 DEF GroupOf
  <2> QED  BY <2>3 DEF Groups
<1>6. Members'
  <2>1. ASSUME NEW s \in Slots, OfGroup(s) PROVE OfGroup(s)'
    BY <1>t, <2>1, <1>g, <1>s, <1>fS DEF Typing, OfGroup
  <2>2. \A s \in Slots : slot'[s].state = "ready" => slot[s].state = "ready"  BY <1>t, <1>e1, <1>e2,
        <1>e3, <1>e4, <1>p1, <1>p2, <1>p3, <1>p4, <1>p5 DEF Typing
  <2>3. \A y \in Workers : Working(y)' => wSlot'[y] = wSlot[y] /\ OfGroup(wSlot[y])
    BY <1>0, <1>t, <1>fW, <1>e1, <1>e2, <1>e3, <1>e4, <1>p1, <1>p2, <1>p3, <1>p4, <1>p5 DEF Typing,
          Members
  <2>4. \A s \in Slots : slot'[s].state = "ready" => OfGroup(s)'  BY <1>0, <2>1, <2>2 DEF Members
  <2>5. \A y \in Workers : Working(y)' => OfGroup(wSlot[y])'  BY <1>t, <1>fW, <2>1, <2>3 DEF Typing
  <2> QED  BY <2>4, <2>5 DEF Members
<1>7. Holding'
  <2>1. ASSUME NEW y \in Workers, y # w, Working(y)' PROVE Held(y)'
    BY <1>0, <1>t, <2>1, <1>e1, <1>e2, <1>e3, <1>e4, <1>p1, <1>p2, <1>p3, <1>p4, <1>p5,
          <1>fW DEF Typing, Holding, Held
  <2>2. Working(w)' => Held(w)'
    BY <1>0, <1>t, <1>e1, <1>e2, <1>e3, <1>e4, <1>p1, <1>p2, <1>p3, <1>p4, <1>p5, <1>fW DEF Typing,
          Holding, Held, Mutexes
  <2>3. \A y, z \in Workers : Working(y)' /\ Working(z)' /\ wSlot'[y] = wSlot'[z] => y = z
    BY <1>0, <1>t, <1>e1, <1>e2, <1>e3, <1>e4, <1>p1, <1>p2, <1>p3, <1>p4, <1>p5, <1>fW DEF Typing,
          Holding
  <2>4. \A y \in Workers : Working(y)' => Held(y)'  BY <2>1, <2>2
  <2> QED  BY <2>3, <2>4 DEF Holding
<1>8. Counted'
  <2>1. ASSUME NEW x \in Callers, Active(x)' PROVE CountOf(x)'
    <3>1. Active(x)  BY <2>1, <1>fA
    <3>2. call'[x].left = call[x].left /\ call'[x].first = call[x].first  BY <1>t, <2>1, <3>1, <1>e1,
          <1>e2, <1>e3, <1>e4, <1>p1, <1>p2, <1>p3, <1>p4, <1>p5, <1>fA DEF Typing
    <3>3. slot'[call[x].first].count = slot[call[x].first].count  BY <1>t, <1>e1, <1>e2, <1>e3, <1>e4,
          <1>p1, <1>p2, <1>p3, <1>p4, <1>p5 DEF Typing
    <3> QED  BY <1>0, <3>1, <3>2, <3>3, <1>fT, <1>fH DEF Counted, CountOf
  <2> QED  BY <2>1 DEF Counted
<1>9. Completion'
  <2>1. ASSUME NEW s \in Slots, slot'[s].completed PROVE EventOf(s)'
    <3>1. slot[s].completed /\ EventOf(s)  BY <1>0, <2>1, <1>e2 DEF Completion
    <3>2. slot'[s].count = slot[s].count  BY <3>1, <1>e2
    <3>3. slot'[s].kind = slot[s].kind /\ slot'[s].owner = slot[s].owner  BY <1>s
    <3>4. PICK x \in Callers : x = slot[s].owner /\ Opened(x) /\ call[x].first = s  BY <3>1 DEF EventOf
    <3>5. Opened(x)' /\ call'[x].first = s  BY <1>g, <3>4
    <3> QED  BY <3>1, <3>2, <3>3, <3>4, <3>5 DEF EventOf, Opened, Active, IsKeyCall
  <2>2. ASSUME NEW y \in Workers, wPc'[y] = "signalItem" PROVE slot'[wGroup'[y]].count = 0
        /\ ~slot'[wGroup'[y]].completed
    <3>1. y # w /\ wPc[y] = "signalItem"  BY <1>e1, <2>2
    <3>2. wGroup'[y] = wGroup[y] /\ wGroup[y] \in Slots  BY <1>t, <1>e4, <3>1 DEF Typing
    <3>3. slot[wGroup[y]].count = 0 /\ ~slot[wGroup[y]].completed  BY <1>0, <3>1 DEF Completion
    <3>4. slot'[wGroup[y]].count = slot[wGroup[y]].count
          /\ slot'[wGroup[y]].completed = slot[wGroup[y]].completed
      BY <1>e2, <3>1, <3>2
    <3> QED  BY <3>2, <3>3, <3>4
  <2>3. ASSUME NEW y \in Workers, NEW z \in Workers, wPc'[y] = "signalItem", wPc'[z] = "signalItem",
        wGroup'[y] = wGroup'[z]
        PROVE  y = z
    <3>1. y # w /\ wPc[y] = "signalItem" /\ z # w /\ wPc[z] = "signalItem"  BY <1>e1, <2>3
    <3>2. wGroup'[y] = wGroup[y] /\ wGroup'[z] = wGroup[z]  BY <1>e4, <3>1
    <3> QED  BY <1>0, <2>3, <3>1, <3>2 DEF Completion
  <2> QED  BY <2>1, <2>2, <2>3 DEF Completion
<1>10. Units'
  <2>1. DOMAIN times' = Callers  BY <1>0, <1>e1, <1>e2, <1>e3, <1>e4, <1>p1, <1>p2, <1>p3, <1>p4,
        <1>p5 DEF Units
  <2>2. ASSUME NEW x \in Callers, Early(x)' \/ Active(x)' PROVE UnitsOf(x)'
    <3>1. (Early(x) \/ Active(x))  BY <2>2, <1>t, <1>e1, <1>e2, <1>e3, <1>e4, <1>p1, <1>p2, <1>p3,
          <1>p4, <1>p5, <1>fA, <1>fE DEF Typing
    <3>2. call'[x].size = call[x].size /\ call'[x].next = call[x].next /\ times'[x] = times[x]
          BY <1>e1, <1>e2, <1>e3, <1>e4, <1>p1, <1>p2, <1>p3, <1>p4, <1>p5, <3>1 DEF Early, Active,
          IsKeyCall
    <3>3. \A s \in Slots : Unprocessed(s, x) => Unprocessed(s, x)' /\ slot'[s].lo = slot[s].lo
          /\ slot'[s].hi = slot[s].hi
      BY <1>e1, <1>e2, <1>e3, <1>e4, <1>p1, <1>p2, <1>p3, <1>p4, <1>p5, <1>fU
    <3>4. UnitsOf(x)  BY <1>0, <3>1 DEF Units
    <3>5. \A u \in 1 .. call[x].size : Pending(x, u) => Pending(x, u)'  BY <3>3 DEF Pending
    <3> QED  BY <3>2, <3>4, <3>5 DEF UnitsOf
  <2>3. ASSUME NEW x \in Callers, IsKeyCall(x)', cPc'[x] # "idle" PROVE DOMAIN times'[x] = {}
    BY <1>0, <1>e1, <1>e2, <1>e3, <1>e4, <1>p1, <1>p2, <1>p3, <1>p4, <1>p5, <2>3 DEF Units, IsKeyCall
  <2>4. ASSUME NEW x \in Callers, cPc'[x] \in {"free", "signal", "idle"} PROVE AllOnce(x)'
    BY <1>0, <1>e1, <1>e2, <1>e3, <1>e4, <1>p1, <1>p2, <1>p3, <1>p4, <1>p5, <2>4 DEF Units, IsKeyCall,
          AllOnce
  <2> QED  BY <2>1, <2>2, <2>3, <2>4 DEF Units
<1>11. Fragments'
  <2>1. ASSUME NEW x \in Callers, Active(x)'
        PROVE  /\ \A s \in Slots : Unprocessed(s, x)' => FragmentOfCall(s, x)'
               /\ \A s, t \in Slots : Unprocessed(s, x)' /\ Unprocessed(t, x)' /\ s # t => Apart(s, t)'
    <3>0. Active(x) \/ Early(x)  BY <2>1, <1>fA, <1>e1, <1>e2, <1>e3, <1>e4, <1>p1, <1>p2, <1>p3,
          <1>p4, <1>p5 DEF Early
    <3>1. \A s \in Slots : Unprocessed(s, x) => Active(x)
      BY <1>0, <1>t DEF Typing, Unprocessed, InRun, Working, Members, OfGroup, Opened
    <3>2. call'[x].next = call[x].next /\ times'[x] = times[x]  BY <2>1, <3>0, <1>fA, <1>e1, <1>e2,
          <1>e3, <1>e4, <1>p1, <1>p2, <1>p3, <1>p4, <1>p5
    <3>3. \A s \in Slots : Unprocessed(s, x) => slot'[s].lo = slot[s].lo
          /\ slot'[s].hi = slot[s].hi  BY <1>e1, <1>e2, <1>e3, <1>e4, <1>p1, <1>p2, <1>p3, <1>p4, <1>p5
    <3>4. \A s \in Slots : Unprocessed(s, x)' => Unprocessed(s, x)  BY <1>fU
    <3>5. \A s \in Slots : Unprocessed(s, x) => FragmentOfCall(s, x)  BY <1>0, <3>1 DEF Fragments
    <3>6. \A s, t \in Slots : Unprocessed(s, x) /\ Unprocessed(t, x) /\ s # t => Apart(s, t)  BY <1>0,
          <3>1 DEF Fragments
    <3>7. \A s \in Slots : Unprocessed(s, x)' => FragmentOfCall(s, x)'  BY <3>2, <3>3, <3>4,
          <3>5 DEF FragmentOfCall
    <3>8. \A s, t \in Slots : Unprocessed(s, x)' /\ Unprocessed(t, x)' /\ s # t => Apart(s, t)'
          BY <3>3, <3>4, <3>6 DEF Apart
    <3> QED  BY <3>7, <3>8
  <2> QED  BY <2>1 DEF Fragments
<1>12. Exceptions'
  <2>1. call' = call /\ cPc' = cPc /\ broken' = broken  BY <1>e4
  <2>2. \A s \in Slots : slot'[s].exception = slot[s].exception  BY <1>e2
  <2>3. ASSUME NEW x \in Callers PROVE ExceptionOf(x)'
    <3>1. ExceptionOf(x) /\ (Active(x)' <=> Active(x)) /\ (Early(x)' <=> Early(x))
          /\ call[x].first \in Slots
      BY <1>0, <1>t, <1>fA, <1>fE DEF Exceptions, Typing
    <3> HIDE DEF Active, Early
    <3> QED  BY <2>1, <2>2, <3>1 DEF ExceptionOf, IsKeyCall
  <2> QED  BY <2>3 DEF Exceptions
<1> QED  BY <1>1, <1>2, <1>3, <1>4, <1>5, <1>6, <1>7, <1>8, <1>9, <1>10, <1>11, <1>12 DEF PoolInv

\* The same for a key derivation.
LEMMA FreeSlotKeyKept ==
  ASSUME NEW w \in Workers, PoolInv, FreeSlot(w), slot[wSlot[w]].kind = "key"
  PROVE  PoolInv'
<1>0. TypeOK /\ Phases /\ Mutexes /\ Division /\ Groups /\ Members /\ Holding /\ Counted
      /\ Completion /\ Units /\ Fragments /\ Exceptions  BY DEF PoolInv
<1>t. Typing  BY <1>0, Typed
<1>p1. wPc[w] = "freeSlot" /\ Working(w) /\ slot[wSlot[w]].state = "busy"
  BY <1>0, <1>t DEF FreeSlot, Working, Holding, Held
<1>p2. \A y \in Workers : Working(y) /\ wSlot[y] = wSlot[w] => y = w
  BY <1>0, <1>t, <1>p1 DEF Holding, Held
<1>p3. \A x \in Callers : cPc[x] = "free" \/ Opened(x) => call[x].first # wSlot[w]
  BY <1>0, <1>t, <1>p1, <1>p2 DEF Groups, GroupOf, OwnsFirst, Holding, Held
<1>p4. ~InRun(wSlot[w])
  BY <1>0, <1>t, <1>p1, <1>p2, <1>p3 DEF InRun, Working
<1>p5. slot[wSlot[w]].completed => FALSE
  BY <1>0, <1>t, <1>p1, <1>p2, <1>p3, <1>p4 DEF Typing, Completion, EventOf
<1>e1. wPc' \in [Workers -> WorkStates]
      /\ \A x \in Workers : wPc'[x] = (IF x = w THEN "signalKey" ELSE wPc[x])
  BY <1>t, WorkerGoes DEF Typing, WorkStates, FreeSlot, WGoto
<1>e2. slot' \in [Slots -> SlotRecord] /\ \A s \in Slots : slot'[s].kind = slot[s].kind
      /\ slot'[s].owner = slot[s].owner /\ slot'[s].first = slot[s].first
      /\ slot'[s].lo = slot[s].lo /\ slot'[s].hi = slot[s].hi /\ slot'[s].count = slot[s].count
      /\ slot'[s].exception = slot[s].exception /\ slot'[s].completed = slot[s].completed
      /\ slot'[s].state = (IF s = wSlot[w] THEN "free" ELSE slot[s].state)
  BY <1>t, StateSet DEF Typing, FreeSlot, WGoto
<1>e3. wPc[w] = "freeSlot"
  BY DEF FreeSlot
<1>e4. portable' = portable /\ running' = running /\ stopPending' = stopPending
      /\ threadCount' = threadCount /\ enq' = enq /\ deq' = deq /\ enqOwner' = enqOwner
      /\ deqOwner' = deqOwner /\ readyEvt' = readyEvt /\ doneEvt' = doneEvt /\ cPc' = cPc
      /\ call' = call /\ wSlot' = wSlot /\ sPc' = sPc /\ joined' = joined /\ wGroup' = wGroup
      /\ times' = times /\ broken' = broken /\ calls' = calls
  BY DEF FreeSlot, flags, events, stop, history, WGoto
<1>fA. \A x \in Callers : Active(x)' <=> Active(x)
  BY <1>0, <1>t, <1>e1, <1>e2, <1>e3, <1>e4, <1>p1, <1>p2, <1>p3, <1>p4, <1>p5 DEF Typing, Active,
        IsKeyCall
<1>fE. \A x \in Callers : Early(x)' <=> Early(x)
  BY <1>0, <1>t, <1>e1, <1>e2, <1>e3, <1>e4, <1>p1, <1>p2, <1>p3, <1>p4, <1>p5 DEF Typing, Early,
        IsKeyCall
<1>fW. \A y \in Workers : Working(y)' <=> (Working(y) /\ y # w)
  BY <1>0, <1>t, <1>e1, <1>e2, <1>e3, <1>e4, <1>p1, <1>p2, <1>p3, <1>p4, <1>p5 DEF Typing, Working
<1>fS. \A f, s \in Slots : Since(f, s)' <=> Since(f, s)
  BY <1>0, <1>t, <1>e1, <1>e2, <1>e3, <1>e4, <1>p1, <1>p2, <1>p3, <1>p4, <1>p5 DEF Typing, Since
<1>fR. \A s \in Slots : InRun(s)' <=> InRun(s)
  BY <1>0, <1>t, <1>e1, <1>e2, <1>e3, <1>e4, <1>p1, <1>p2, <1>p3, <1>p4, <1>p5 DEF Typing, InRun
<1>fT. \A x \in Callers : Waiting(x)' = Waiting(x)
  <2>1. ASSUME NEW x \in Callers, NEW s \in Slots PROVE s \in Waiting(x)' <=> s \in Waiting(x)
    BY <1>0, <1>t, <2>1, <1>e1, <1>e2, <1>e3, <1>e4, <1>p1, <1>p2, <1>p3, <1>p4, <1>p5 DEF Typing,
          Waiting
  <2>2. \A x \in Callers : Waiting(x)' \subseteq Slots /\ Waiting(x) \subseteq Slots  BY <1>t, <1>e1,
        <1>e2, <1>e3, <1>e4, <1>p1, <1>p2, <1>p3, <1>p4, <1>p5 DEF Waiting, Slots
  <2> QED  BY <2>1, <2>2
<1>fH. \A x \in Callers : Hands(x)' = Hands(x)
  <2>1. ASSUME NEW x \in Callers, NEW y \in Workers PROVE y \in Hands(x)' <=> y \in Hands(x)
    BY <1>0, <1>t, <2>1, <1>e1, <1>e2, <1>e3, <1>e4, <1>p1, <1>p2, <1>p3, <1>p4, <1>p5,
          <1>fW DEF Typing, Hands
  <2>2. \A x \in Callers : Hands(x)' \subseteq Workers /\ Hands(x) \subseteq Workers  BY DEF Hands
  <2> QED  BY <2>1, <2>2
<1>fU. \A s \in Slots, x \in Callers : Unprocessed(s, x)' <=> Unprocessed(s, x)
  BY <1>0, <1>t, <1>e1, <1>e2, <1>e3, <1>e4, <1>p1, <1>p2, <1>p3, <1>p4, <1>p5, <1>fW,
        <1>fR DEF Typing, Unprocessed
<1>g. \A x \in Callers : Opened(x) => Opened(x)' /\ call'[x].first = call[x].first
  BY <1>t, <1>e1, <1>e2, <1>e3, <1>e4, <1>p1, <1>p2, <1>p3, <1>p4, <1>p5, <1>fA DEF Typing, Opened,
        Active, IsKeyCall
<1>s. \A s \in Slots : (slot'[s].kind = slot[s].kind /\ slot'[s].owner = slot[s].owner
      /\ slot'[s].first = slot[s].first)
  BY <1>e1, <1>e2, <1>e3, <1>e4, <1>p1, <1>p2, <1>p3, <1>p4, <1>p5
<1>1. TypeOK'
  BY <1>0, <1>t, <1>e1, <1>e2, <1>e3, <1>e4, <1>p1, <1>p2, <1>p3, <1>p4, <1>p5, Flags, TypesKept,
        Constants DEF Typing
<1>2. Phases'
  BY <1>0, <1>t, <1>e1, <1>e2, <1>e3, <1>e4, <1>p1, <1>p2, <1>p3, <1>p4, <1>p5 DEF Typing, Phases
<1>3. Mutexes'
  <2>1. cPc' = cPc /\ enqOwner' = enqOwner /\ deqOwner' = deqOwner /\ wSlot' = wSlot
        /\ stopPending' = stopPending  BY <1>e4
  <2>2. \A y \in Workers : y # w => wPc'[y] = wPc[y]  BY <1>e1
  <2>3. wPc'[w] \notin {"check", "wait", "take"} /\ wPc[w] \notin {"check", "wait", "take"}  BY <1>e1,
        <1>p1
  <2>4. \A y \in Workers : slot[wSlot[y]].state = "ready" => slot'[wSlot[y]].state = "ready"
    BY <1>t, <1>e2, <1>p1 DEF Typing
  <2>5. \A y \in Workers : wPc'[y] \in {"check", "wait", "take"} <=> deqOwner' = y
    BY <1>0, <2>1, <2>2, <2>3 DEF Mutexes
  <2>6. \A y \in Workers : wPc'[y] = "take" => stopPending' \/ slot'[wSlot'[y]].state = "ready"
    BY <1>0, <2>1, <2>2, <2>3, <2>4 DEF Mutexes
  <2>7. \A x \in Callers :
          cPc'[x] \in {"first", "firstWait", "next", "slotWait", "ready", "unlock"} <=> enqOwner' = x
    BY <1>0, <2>1 DEF Mutexes
  <2> QED  BY <2>5, <2>6, <2>7 DEF Mutexes
<1>4. Division'
  <2>1. call' = call /\ cPc' = cPc /\ enqOwner' = enqOwner  BY <1>e4
  <2>2. ASSUME NEW x \in Callers PROVE DivisionOf(x)'
    <3>1. DivisionOf(x) /\ (Active(x)' <=> Active(x)) /\ (Early(x)' <=> Early(x))  BY <1>0, <1>fA,
          <1>fE DEF Division
    <3> HIDE DEF Active, Early
    <3> QED  BY <2>1, <3>1 DEF DivisionOf, Divided, IsKeyCall
  <2> QED  BY <2>2 DEF Division
<1>5. Groups'
  <2>1. \A s \in Slots : slot[s].state = "free" => slot'[s].state = "free"  BY <1>e2, <1>p1
  <2>2. ASSUME NEW x \in Callers, OwnsFirst(x), Opened(x) \/ cPc[x] = "free" PROVE OwnsFirst(x)'
    <3>1. call[x].first \in Slots /\ call' = call  BY <1>t, <1>e4 DEF Typing
    <3>2. slot'[call[x].first].state = slot[call[x].first].state  BY <2>2, <3>1, <1>e2, <1>p3
    <3> QED  BY <1>s, <2>2, <3>1, <3>2 DEF OwnsFirst
  <2>3. ASSUME NEW x \in Callers PROVE GroupOf(x)'
    <3>1. call' = call /\ cPc' = cPc /\ enq' = enq  BY <1>e4
    <3>2. IsFree(enq) => IsFree(enq)'  BY <1>t, <2>1, <3>1 DEF IsFree, Typing
    <3>3. GroupOf(x) /\ (Active(x)' <=> Active(x)) /\ (Opened(x)' <=> Opened(x))  BY <1>0, <3>1,
          <1>fA DEF Groups, Opened
    <3> HIDE DEF Active, Opened
    <3> QED  BY <2>2, <3>1, <3>2, <3>3 DEF GroupOf
  <2> QED  BY <2>3 DEF Groups
<1>6. Members'
  <2>1. ASSUME NEW s \in Slots, OfGroup(s) PROVE OfGroup(s)'
    BY <1>t, <2>1, <1>g, <1>s, <1>fS DEF Typing, OfGroup
  <2>2. \A s \in Slots : slot'[s].state = "ready" => slot[s].state = "ready"  BY <1>t, <1>e1, <1>e2,
        <1>e3, <1>e4, <1>p1, <1>p2, <1>p3, <1>p4, <1>p5 DEF Typing
  <2>3. \A y \in Workers : Working(y)' => wSlot'[y] = wSlot[y] /\ OfGroup(wSlot[y])
    BY <1>0, <1>t, <1>fW, <1>e1, <1>e2, <1>e3, <1>e4, <1>p1, <1>p2, <1>p3, <1>p4, <1>p5 DEF Typing,
          Members
  <2>4. \A s \in Slots : slot'[s].state = "ready" => OfGroup(s)'  BY <1>0, <2>1, <2>2 DEF Members
  <2>5. \A y \in Workers : Working(y)' => OfGroup(wSlot[y])'  BY <1>t, <1>fW, <2>1, <2>3 DEF Typing
  <2> QED  BY <2>4, <2>5 DEF Members
<1>7. Holding'
  <2>1. ASSUME NEW y \in Workers, y # w, Working(y)' PROVE Held(y)'
    BY <1>0, <1>t, <2>1, <1>e1, <1>e2, <1>e3, <1>e4, <1>p1, <1>p2, <1>p3, <1>p4, <1>p5,
          <1>fW DEF Typing, Holding, Held
  <2>2. Working(w)' => Held(w)'
    BY <1>0, <1>t, <1>e1, <1>e2, <1>e3, <1>e4, <1>p1, <1>p2, <1>p3, <1>p4, <1>p5, <1>fW DEF Typing,
          Holding, Held, Mutexes
  <2>3. \A y, z \in Workers : Working(y)' /\ Working(z)' /\ wSlot'[y] = wSlot'[z] => y = z
    BY <1>0, <1>t, <1>e1, <1>e2, <1>e3, <1>e4, <1>p1, <1>p2, <1>p3, <1>p4, <1>p5, <1>fW DEF Typing,
          Holding
  <2>4. \A y \in Workers : Working(y)' => Held(y)'  BY <2>1, <2>2
  <2> QED  BY <2>3, <2>4 DEF Holding
<1>8. Counted'
  <2>1. ASSUME NEW x \in Callers, Active(x)' PROVE CountOf(x)'
    <3>1. Active(x)  BY <2>1, <1>fA
    <3>2. call'[x].left = call[x].left /\ call'[x].first = call[x].first  BY <1>t, <2>1, <3>1, <1>e1,
          <1>e2, <1>e3, <1>e4, <1>p1, <1>p2, <1>p3, <1>p4, <1>p5, <1>fA DEF Typing
    <3>3. slot'[call[x].first].count = slot[call[x].first].count  BY <1>t, <1>e1, <1>e2, <1>e3, <1>e4,
          <1>p1, <1>p2, <1>p3, <1>p4, <1>p5 DEF Typing
    <3> QED  BY <1>0, <3>1, <3>2, <3>3, <1>fT, <1>fH DEF Counted, CountOf
  <2> QED  BY <2>1 DEF Counted
<1>9. Completion'
  <2>1. ASSUME NEW s \in Slots, slot'[s].completed PROVE EventOf(s)'
    <3>1. slot[s].completed /\ EventOf(s)  BY <1>0, <2>1, <1>e2 DEF Completion
    <3>2. slot'[s].count = slot[s].count  BY <3>1, <1>e2
    <3>3. slot'[s].kind = slot[s].kind /\ slot'[s].owner = slot[s].owner  BY <1>s
    <3>4. PICK x \in Callers : x = slot[s].owner /\ Opened(x) /\ call[x].first = s  BY <3>1 DEF EventOf
    <3>5. Opened(x)' /\ call'[x].first = s  BY <1>g, <3>4
    <3> QED  BY <3>1, <3>2, <3>3, <3>4, <3>5 DEF EventOf, Opened, Active, IsKeyCall
  <2>2. ASSUME NEW y \in Workers, wPc'[y] = "signalItem" PROVE slot'[wGroup'[y]].count = 0
        /\ ~slot'[wGroup'[y]].completed
    <3>1. y # w /\ wPc[y] = "signalItem"  BY <1>e1, <2>2
    <3>2. wGroup'[y] = wGroup[y] /\ wGroup[y] \in Slots  BY <1>t, <1>e4, <3>1 DEF Typing
    <3>3. slot[wGroup[y]].count = 0 /\ ~slot[wGroup[y]].completed  BY <1>0, <3>1 DEF Completion
    <3>4. slot'[wGroup[y]].count = slot[wGroup[y]].count
          /\ slot'[wGroup[y]].completed = slot[wGroup[y]].completed
      BY <1>e2, <3>1, <3>2
    <3> QED  BY <3>2, <3>3, <3>4
  <2>3. ASSUME NEW y \in Workers, NEW z \in Workers, wPc'[y] = "signalItem", wPc'[z] = "signalItem",
        wGroup'[y] = wGroup'[z]
        PROVE  y = z
    <3>1. y # w /\ wPc[y] = "signalItem" /\ z # w /\ wPc[z] = "signalItem"  BY <1>e1, <2>3
    <3>2. wGroup'[y] = wGroup[y] /\ wGroup'[z] = wGroup[z]  BY <1>e4, <3>1
    <3> QED  BY <1>0, <2>3, <3>1, <3>2 DEF Completion
  <2> QED  BY <2>1, <2>2, <2>3 DEF Completion
<1>10. Units'
  <2>1. DOMAIN times' = Callers  BY <1>0, <1>e1, <1>e2, <1>e3, <1>e4, <1>p1, <1>p2, <1>p3, <1>p4,
        <1>p5 DEF Units
  <2>2. ASSUME NEW x \in Callers, Early(x)' \/ Active(x)' PROVE UnitsOf(x)'
    <3>1. (Early(x) \/ Active(x))  BY <2>2, <1>t, <1>e1, <1>e2, <1>e3, <1>e4, <1>p1, <1>p2, <1>p3,
          <1>p4, <1>p5, <1>fA, <1>fE DEF Typing
    <3>2. call'[x].size = call[x].size /\ call'[x].next = call[x].next /\ times'[x] = times[x]
          BY <1>e1, <1>e2, <1>e3, <1>e4, <1>p1, <1>p2, <1>p3, <1>p4, <1>p5, <3>1 DEF Early, Active,
          IsKeyCall
    <3>3. \A s \in Slots : Unprocessed(s, x) => Unprocessed(s, x)' /\ slot'[s].lo = slot[s].lo
          /\ slot'[s].hi = slot[s].hi
      BY <1>e1, <1>e2, <1>e3, <1>e4, <1>p1, <1>p2, <1>p3, <1>p4, <1>p5, <1>fU
    <3>4. UnitsOf(x)  BY <1>0, <3>1 DEF Units
    <3>5. \A u \in 1 .. call[x].size : Pending(x, u) => Pending(x, u)'  BY <3>3 DEF Pending
    <3> QED  BY <3>2, <3>4, <3>5 DEF UnitsOf
  <2>3. ASSUME NEW x \in Callers, IsKeyCall(x)', cPc'[x] # "idle" PROVE DOMAIN times'[x] = {}
    BY <1>0, <1>e1, <1>e2, <1>e3, <1>e4, <1>p1, <1>p2, <1>p3, <1>p4, <1>p5, <2>3 DEF Units, IsKeyCall
  <2>4. ASSUME NEW x \in Callers, cPc'[x] \in {"free", "signal", "idle"} PROVE AllOnce(x)'
    BY <1>0, <1>e1, <1>e2, <1>e3, <1>e4, <1>p1, <1>p2, <1>p3, <1>p4, <1>p5, <2>4 DEF Units, IsKeyCall,
          AllOnce
  <2> QED  BY <2>1, <2>2, <2>3, <2>4 DEF Units
<1>11. Fragments'
  <2>1. ASSUME NEW x \in Callers, Active(x)'
        PROVE  /\ \A s \in Slots : Unprocessed(s, x)' => FragmentOfCall(s, x)'
               /\ \A s, t \in Slots : Unprocessed(s, x)' /\ Unprocessed(t, x)' /\ s # t => Apart(s, t)'
    <3>0. Active(x) \/ Early(x)  BY <2>1, <1>fA, <1>e1, <1>e2, <1>e3, <1>e4, <1>p1, <1>p2, <1>p3,
          <1>p4, <1>p5 DEF Early
    <3>1. \A s \in Slots : Unprocessed(s, x) => Active(x)
      BY <1>0, <1>t DEF Typing, Unprocessed, InRun, Working, Members, OfGroup, Opened
    <3>2. call'[x].next = call[x].next /\ times'[x] = times[x]  BY <2>1, <3>0, <1>fA, <1>e1, <1>e2,
          <1>e3, <1>e4, <1>p1, <1>p2, <1>p3, <1>p4, <1>p5
    <3>3. \A s \in Slots : Unprocessed(s, x) => slot'[s].lo = slot[s].lo
          /\ slot'[s].hi = slot[s].hi  BY <1>e1, <1>e2, <1>e3, <1>e4, <1>p1, <1>p2, <1>p3, <1>p4, <1>p5
    <3>4. \A s \in Slots : Unprocessed(s, x)' => Unprocessed(s, x)  BY <1>fU
    <3>5. \A s \in Slots : Unprocessed(s, x) => FragmentOfCall(s, x)  BY <1>0, <3>1 DEF Fragments
    <3>6. \A s, t \in Slots : Unprocessed(s, x) /\ Unprocessed(t, x) /\ s # t => Apart(s, t)  BY <1>0,
          <3>1 DEF Fragments
    <3>7. \A s \in Slots : Unprocessed(s, x)' => FragmentOfCall(s, x)'  BY <3>2, <3>3, <3>4,
          <3>5 DEF FragmentOfCall
    <3>8. \A s, t \in Slots : Unprocessed(s, x)' /\ Unprocessed(t, x)' /\ s # t => Apart(s, t)'
          BY <3>3, <3>4, <3>6 DEF Apart
    <3> QED  BY <3>7, <3>8
  <2> QED  BY <2>1 DEF Fragments
<1>12. Exceptions'
  <2>1. call' = call /\ cPc' = cPc /\ broken' = broken  BY <1>e4
  <2>2. \A s \in Slots : slot'[s].exception = slot[s].exception  BY <1>e2
  <2>3. ASSUME NEW x \in Callers PROVE ExceptionOf(x)'
    <3>1. ExceptionOf(x) /\ (Active(x)' <=> Active(x)) /\ (Early(x)' <=> Early(x))
          /\ call[x].first \in Slots
      BY <1>0, <1>t, <1>fA, <1>fE DEF Exceptions, Typing
    <3> HIDE DEF Active, Early
    <3> QED  BY <2>1, <2>2, <3>1 DEF ExceptionOf, IsKeyCall
  <2> QED  BY <2>3 DEF Exceptions
<1> QED  BY <1>1, <1>2, <1>3, <1>4, <1>5, <1>6, <1>7, <1>8, <1>9, <1>10, <1>11, <1>12 DEF PoolInv

\* The freed slot is announced.
LEMMA SignalSlotUnitsKept ==
  ASSUME NEW w \in Workers, PoolInv, SignalSlot(w), wPc[w] = "signalSlot"
  PROVE  PoolInv'
<1>0. TypeOK /\ Phases /\ Mutexes /\ Division /\ Groups /\ Members /\ Holding /\ Counted
      /\ Completion /\ Units /\ Fragments /\ Exceptions  BY DEF PoolInv
<1>t. Typing  BY <1>0, Typed
<1>e1. wPc' \in [Workers -> WorkStates]
      /\ \A x \in Workers : wPc'[x] = (IF x = w THEN "count" ELSE wPc[x])
  BY <1>t, WorkerGoes DEF Typing, WorkStates, SignalSlot, WGoto
<1>e2. doneEvt' = TRUE
  BY DEF SignalSlot
<1>e3. portable' = portable /\ running' = running /\ stopPending' = stopPending
      /\ threadCount' = threadCount /\ enq' = enq /\ deq' = deq /\ enqOwner' = enqOwner
      /\ deqOwner' = deqOwner /\ readyEvt' = readyEvt /\ slot' = slot /\ cPc' = cPc /\ call' = call
      /\ wSlot' = wSlot /\ sPc' = sPc /\ joined' = joined /\ wGroup' = wGroup /\ times' = times
      /\ broken' = broken /\ calls' = calls
  BY DEF SignalSlot, flags, events, stop, history, WGoto
<1>fA. \A x \in Callers : Active(x)' <=> Active(x)
  BY <1>0, <1>t, <1>e1, <1>e2, <1>e3 DEF Typing, Active, IsKeyCall
<1>fE. \A x \in Callers : Early(x)' <=> Early(x)
  BY <1>0, <1>t, <1>e1, <1>e2, <1>e3 DEF Typing, Early, IsKeyCall
<1>fW. \A y \in Workers : Working(y)' <=> Working(y)
  BY <1>0, <1>t, <1>e1, <1>e2, <1>e3 DEF Typing, Working
<1>fS. \A f, s \in Slots : Since(f, s)' <=> Since(f, s)
  BY <1>0, <1>t, <1>e1, <1>e2, <1>e3 DEF Typing, Since
<1>fR. \A s \in Slots : InRun(s)' <=> InRun(s)
  BY <1>0, <1>t, <1>e1, <1>e2, <1>e3 DEF Typing, InRun
<1>fT. \A x \in Callers : Waiting(x)' = Waiting(x)
  BY <1>0, <1>t, <1>e1, <1>e2, <1>e3 DEF Typing, Waiting
<1>fH. \A x \in Callers : Hands(x)' = Hands(x)
  <2>1. ASSUME NEW x \in Callers, NEW y \in Workers PROVE y \in Hands(x)' <=> y \in Hands(x)
    BY <1>0, <1>t, <2>1, <1>e1, <1>e2, <1>e3, <1>fW DEF Typing, Hands
  <2>2. \A x \in Callers : Hands(x)' \subseteq Workers /\ Hands(x) \subseteq Workers  BY DEF Hands
  <2> QED  BY <2>1, <2>2
<1>fU. \A s \in Slots, x \in Callers : Unprocessed(s, x)' <=> Unprocessed(s, x)
  BY <1>0, <1>t, <1>e1, <1>e2, <1>e3, <1>fW, <1>fR DEF Typing, Unprocessed
<1>g. \A x \in Callers : Opened(x) => Opened(x)' /\ call'[x].first = call[x].first
  BY <1>t, <1>e1, <1>e2, <1>e3, <1>fA DEF Typing, Opened, Active, IsKeyCall
<1>s. \A s \in Slots : (slot'[s].kind = slot[s].kind /\ slot'[s].owner = slot[s].owner
      /\ slot'[s].first = slot[s].first)
  BY <1>e1, <1>e2, <1>e3
<1>1. TypeOK'
  BY <1>0, <1>t, <1>e1, <1>e2, <1>e3, Flags, TypesKept, Constants DEF Typing
<1>2. Phases'
  BY <1>0, <1>t, <1>e1, <1>e2, <1>e3 DEF Typing, Phases
<1>3. Mutexes'
  BY <1>0, <1>t, <1>e1, <1>e2, <1>e3, PoolAssumption DEF Typing, Mutexes, Phases
<1>4. Division'
  <2>1. ASSUME NEW x \in Callers PROVE DivisionOf(x)'
    BY <1>0, <1>t, <2>1, <1>e1, <1>e2, <1>e3, <1>fA, <1>fE DEF Typing, Division, DivisionOf, Divided,
          IsKeyCall, Mutexes, Active, Early
  <2> QED  BY <2>1 DEF Division
<1>5. Groups'
  <2>1. ASSUME NEW x \in Callers PROVE GroupOf(x)'
    BY <1>0, <1>t, <2>1, <1>e1, <1>e2, <1>e3, <1>fA, <1>fE DEF Typing, Groups, GroupOf, OwnsFirst,
          Opened, IsFree, Mutexes, Division, DivisionOf, Active, IsKeyCall
  <2> QED  BY <2>1 DEF Groups
<1>6. Members'
  <2>1. ASSUME NEW s \in Slots, OfGroup(s) PROVE OfGroup(s)'
    BY <1>t, <2>1, <1>g, <1>s, <1>fS DEF Typing, OfGroup
  <2>2. \A s \in Slots : slot'[s].state = "ready" => slot[s].state = "ready"  BY <1>t, <1>e1, <1>e2,
        <1>e3 DEF Typing
  <2>3. \A y \in Workers : Working(y)' => wSlot'[y] = wSlot[y] /\ OfGroup(wSlot[y])
    BY <1>0, <1>t, <1>fW, <1>e1, <1>e2, <1>e3 DEF Typing, Members
  <2>4. \A s \in Slots : slot'[s].state = "ready" => OfGroup(s)'  BY <1>0, <2>1, <2>2 DEF Members
  <2>5. \A y \in Workers : Working(y)' => OfGroup(wSlot[y])'  BY <1>t, <1>fW, <2>1, <2>3 DEF Typing
  <2> QED  BY <2>4, <2>5 DEF Members
<1>7. Holding'
  <2>1. ASSUME NEW y \in Workers, y # w, Working(y)' PROVE Held(y)'
    BY <1>0, <1>t, <2>1, <1>e1, <1>e2, <1>e3, <1>fW DEF Typing, Holding, Held
  <2>2. Working(w)' => Held(w)'
    BY <1>0, <1>t, <1>e1, <1>e2, <1>e3, <1>fW DEF Typing, Holding, Held, Mutexes
  <2>3. \A y, z \in Workers : Working(y)' /\ Working(z)' /\ wSlot'[y] = wSlot'[z] => y = z
    BY <1>0, <1>t, <1>e1, <1>e2, <1>e3, <1>fW DEF Typing, Holding
  <2>4. \A y \in Workers : Working(y)' => Held(y)'  BY <2>1, <2>2
  <2> QED  BY <2>3, <2>4 DEF Holding
<1>8. Counted'
  <2>1. ASSUME NEW x \in Callers, Active(x)' PROVE CountOf(x)'
    <3>1. Active(x)  BY <2>1, <1>fA
    <3>2. call'[x].left = call[x].left /\ call'[x].first = call[x].first  BY <1>t, <2>1, <3>1, <1>e1,
          <1>e2, <1>e3, <1>fA DEF Typing
    <3>3. slot'[call[x].first].count = slot[call[x].first].count  BY <1>t, <1>e1, <1>e2,
          <1>e3 DEF Typing
    <3> QED  BY <1>0, <3>1, <3>2, <3>3, <1>fT, <1>fH DEF Counted, CountOf
  <2> QED  BY <2>1 DEF Counted
<1>9. Completion'
  <2>1. ASSUME NEW s \in Slots, slot'[s].completed PROVE EventOf(s)'
    BY <1>0, <1>t, <2>1, <1>g, <1>s, <1>e1, <1>e2, <1>e3 DEF Typing, Completion, EventOf
  <2>2. ASSUME NEW y \in Workers, wPc'[y] = "signalItem" PROVE slot'[wGroup'[y]].count = 0
        /\ ~slot'[wGroup'[y]].completed
    BY <1>0, <1>t, <2>2, <1>e1, <1>e2, <1>e3 DEF Typing, Completion
  <2>3. \A y, z \in Workers : wPc'[y] = "signalItem" /\ wPc'[z] = "signalItem"
        /\ wGroup'[y] = wGroup'[z] => y = z
    BY <1>0, <1>t, <1>e1, <1>e2, <1>e3 DEF Typing, Completion
  <2> QED  BY <2>1, <2>2, <2>3 DEF Completion
<1>10. Units'
  <2>1. DOMAIN times' = Callers  BY <1>0, <1>e1, <1>e2, <1>e3 DEF Units
  <2>2. ASSUME NEW x \in Callers, Early(x)' \/ Active(x)' PROVE UnitsOf(x)'
    <3>1. (Early(x) \/ Active(x))  BY <2>2, <1>t, <1>e1, <1>e2, <1>e3, <1>fA, <1>fE DEF Typing
    <3>2. call'[x].size = call[x].size /\ call'[x].next = call[x].next /\ times'[x] = times[x]
          BY <1>e1, <1>e2, <1>e3, <3>1 DEF Early, Active, IsKeyCall
    <3>3. \A s \in Slots : Unprocessed(s, x) => Unprocessed(s, x)' /\ slot'[s].lo = slot[s].lo
          /\ slot'[s].hi = slot[s].hi
      BY <1>e1, <1>e2, <1>e3, <1>fU
    <3>4. UnitsOf(x)  BY <1>0, <3>1 DEF Units
    <3>5. \A u \in 1 .. call[x].size : Pending(x, u) => Pending(x, u)'  BY <3>3 DEF Pending
    <3> QED  BY <3>2, <3>4, <3>5 DEF UnitsOf
  <2>3. ASSUME NEW x \in Callers, IsKeyCall(x)', cPc'[x] # "idle" PROVE DOMAIN times'[x] = {}
    BY <1>0, <1>e1, <1>e2, <1>e3, <2>3 DEF Units, IsKeyCall
  <2>4. ASSUME NEW x \in Callers, cPc'[x] \in {"free", "signal", "idle"} PROVE AllOnce(x)'
    BY <1>0, <1>e1, <1>e2, <1>e3, <2>4 DEF Units, IsKeyCall, AllOnce
  <2> QED  BY <2>1, <2>2, <2>3, <2>4 DEF Units
<1>11. Fragments'
  <2>1. ASSUME NEW x \in Callers, Active(x)'
        PROVE  /\ \A s \in Slots : Unprocessed(s, x)' => FragmentOfCall(s, x)'
               /\ \A s, t \in Slots : Unprocessed(s, x)' /\ Unprocessed(t, x)' /\ s # t => Apart(s, t)'
    <3>0. Active(x) \/ Early(x)  BY <2>1, <1>fA, <1>e1, <1>e2, <1>e3 DEF Early
    <3>1. \A s \in Slots : Unprocessed(s, x) => Active(x)
      BY <1>0, <1>t DEF Typing, Unprocessed, InRun, Working, Members, OfGroup, Opened
    <3>2. call'[x].next = call[x].next /\ times'[x] = times[x]  BY <2>1, <3>0, <1>fA, <1>e1, <1>e2,
          <1>e3
    <3>3. \A s \in Slots : Unprocessed(s, x) => slot'[s].lo = slot[s].lo
          /\ slot'[s].hi = slot[s].hi  BY <1>e1, <1>e2, <1>e3
    <3>4. \A s \in Slots : Unprocessed(s, x)' => Unprocessed(s, x)  BY <1>fU
    <3>5. \A s \in Slots : Unprocessed(s, x) => FragmentOfCall(s, x)  BY <1>0, <3>1 DEF Fragments
    <3>6. \A s, t \in Slots : Unprocessed(s, x) /\ Unprocessed(t, x) /\ s # t => Apart(s, t)  BY <1>0,
          <3>1 DEF Fragments
    <3>7. \A s \in Slots : Unprocessed(s, x)' => FragmentOfCall(s, x)'  BY <3>2, <3>3, <3>4,
          <3>5 DEF FragmentOfCall
    <3>8. \A s, t \in Slots : Unprocessed(s, x)' /\ Unprocessed(t, x)' /\ s # t => Apart(s, t)'
          BY <3>3, <3>4, <3>6 DEF Apart
    <3> QED  BY <3>7, <3>8
  <2> QED  BY <2>1 DEF Fragments
<1>12. Exceptions'
  <2>1. ASSUME NEW x \in Callers PROVE ExceptionOf(x)'
    BY <1>0, <1>t, <2>1, <1>e1, <1>e2, <1>e3, <1>fA, <1>fE DEF Typing, Exceptions, ExceptionOf,
          IsKeyCall
  <2> QED  BY <2>1 DEF Exceptions
<1> QED  BY <1>1, <1>2, <1>3, <1>4, <1>5, <1>6, <1>7, <1>8, <1>9, <1>10, <1>11, <1>12 DEF PoolInv

\* A fragment is counted off.
LEMMA CountKept ==
  ASSUME NEW w \in Workers, PoolInv, Count(w)
  PROVE  PoolInv'
<1>0. TypeOK /\ Phases /\ Mutexes /\ Division /\ Groups /\ Members /\ Holding /\ Counted
      /\ Completion /\ Units /\ Fragments /\ Exceptions  BY DEF PoolInv
<1>t. Typing  BY <1>0, Typed
<1>o. PICK o \in Callers : o = slot[wSlot[w]].owner /\ Opened(o)
      /\ slot[wSlot[w]].first = call[o].first /\ slot[wSlot[w]].kind = "units"
  <2>1. Working(w)  BY DEF Count, Working
  <2>2. OfGroup(wSlot[w]) /\ slot[wSlot[w]].kind = "units"  BY <1>0, <2>1 DEF Members, Holding, Held,
        Count
  <2> QED  BY <2>2 DEF OfGroup
<1>f. PICK f \in Slots : f = slot[wSlot[w]].first  BY <1>t DEF Typing
<1>p1. wPc[w] = "count" /\ Working(w)
  BY DEF Count, Working
<1>p2. o = slot[wSlot[w]].owner /\ f = slot[wSlot[w]].first /\ f = call[o].first /\ f = wGroup[w]
      /\ slot[wSlot[w]].kind = "units" /\ Opened(o) /\ Active(o)
  BY <1>0, <1>o, <1>f, <1>p1 DEF Opened, Holding, Held
<1>p3. w \in Hands(o)
  BY <1>0, <1>t, <1>p1, <1>p2 DEF Hands
<1>p4. CountOf(o)
  BY <1>0, <1>t, <1>p1, <1>p2, <1>p3 DEF Counted
<1>p5. slot[f].count \in Nat /\ slot[f].count >= 1
  <2>1. Cardinality(Hands(o)) \in Nat /\ Cardinality(Hands(o)) > 0 /\ Cardinality(Waiting(o)) \in Nat
    BY <1>p3, Finite, RemoveOne, FS_CardinalityType
  <2>2. call[o].left \in Nat /\ slot[f].count \in Nat  BY <1>t DEF Typing
  <2> QED  BY <1>p2, <1>p4, <2>1, <2>2 DEF CountOf
<1>p6. slot[f].completed => FALSE
  BY <1>0, <1>t, <1>p1, <1>p2, <1>p3, <1>p4, <1>p5 DEF Completion, EventOf
<1>p7. \A y \in Workers : wPc[y] = "signalItem" => wGroup[y] # f
  BY <1>0, <1>t, <1>p1, <1>p2, <1>p3, <1>p4, <1>p5, <1>p6 DEF Completion
<1>p8. \A x \in Callers : Active(x) /\ x # o => call[x].first # f
  <2>1. slot[f].state # "free" /\ slot[f].owner = o  BY <1>0, <1>p2 DEF Groups, GroupOf, OwnsFirst
  <2>2. ASSUME NEW x \in Callers, Active(x), x # o, call[x].first = f PROVE FALSE
    <3>1. call[x].next >= 1 /\ call[x].next \in Nat  BY <1>0, <1>t, <2>2 DEF Typing, Division,
          DivisionOf, Divided
    <3>2. CASE call[x].next = 1  BY <1>0, <2>1, <2>2, <3>2 DEF Groups, GroupOf, IsFree
    <3>3. CASE call[x].next > 1  BY <1>0, <2>1, <2>2, <3>3 DEF Groups, GroupOf, Opened, OwnsFirst
    <3> QED  BY <3>1, <3>2, <3>3
  <2> QED  BY <2>2
<1>e1. wPc' \in [Workers -> WorkStates]
      /\ \A x \in Workers : wPc'[x] = (IF x = w THEN IF slot[f].count = 1 THEN "signalItem" ELSE "loop" ELSE wPc[x])
  <2>1. WGoto(w, IF slot[f].count = 1 THEN "signalItem" ELSE "loop")  BY <1>f DEF Count
  <2> QED  BY <1>t, <2>1, WorkerGoes DEF Typing, WorkStates
<1>e2. slot' \in [Slots -> SlotRecord] /\ \A s \in Slots : slot'[s].kind = slot[s].kind
      /\ slot'[s].owner = slot[s].owner /\ slot'[s].first = slot[s].first
      /\ slot'[s].lo = slot[s].lo /\ slot'[s].hi = slot[s].hi
      /\ slot'[s].count = (IF s = f THEN slot[f].count - 1 ELSE slot[s].count)
      /\ slot'[s].exception = slot[s].exception /\ slot'[s].completed = slot[s].completed
      /\ slot'[s].state = slot[s].state
  <2>1. slot' = [slot EXCEPT ![f].count = slot[f].count - 1]  BY <1>f DEF Count
  <2>2. CountSetAt(f, slot[f].count - 1)  BY <2>1 DEF CountSetAt
  <2>3. slot \in [Slots -> SlotRecord] /\ f \in Slots /\ slot[f].count - 1 \in Nat  BY <1>t,
        <1>p5 DEF Typing
  <2> QED  BY <2>2, <2>3, CountSet
<1>e3. portable' = portable /\ running' = running /\ stopPending' = stopPending
      /\ threadCount' = threadCount /\ enq' = enq /\ deq' = deq /\ enqOwner' = enqOwner
      /\ deqOwner' = deqOwner /\ readyEvt' = readyEvt /\ doneEvt' = doneEvt /\ cPc' = cPc
      /\ call' = call /\ wSlot' = wSlot /\ sPc' = sPc /\ joined' = joined /\ wGroup' = wGroup
      /\ times' = times /\ broken' = broken /\ calls' = calls
  BY DEF Count, flags, events, stop, history, WGoto
<1>fA. \A x \in Callers : Active(x)' <=> Active(x)
  BY <1>0, <1>t, <1>e1, <1>e2, <1>e3, <1>p1, <1>p2, <1>p5, <1>p6, <1>p7 DEF Typing, Active, IsKeyCall
<1>fE. \A x \in Callers : Early(x)' <=> Early(x)
  BY <1>0, <1>t, <1>e1, <1>e2, <1>e3, <1>p1, <1>p2, <1>p5, <1>p6, <1>p7 DEF Typing, Early, IsKeyCall
<1>fW. \A y \in Workers : Working(y)' <=> (Working(y) /\ (y # w \/ slot[f].count = 1))
  BY <1>0, <1>t, <1>e1, <1>e2, <1>e3, <1>p1, <1>p2, <1>p5, <1>p6, <1>p7 DEF Typing, Working
<1>fS. \A g, s \in Slots : Since(g, s)' <=> Since(g, s)
  BY <1>0, <1>t, <1>e1, <1>e2, <1>e3, <1>p1, <1>p2, <1>p5, <1>p6, <1>p7 DEF Typing, Since
<1>fR. \A s \in Slots : InRun(s)' <=> InRun(s)
  BY <1>0, <1>t, <1>e1, <1>e2, <1>e3, <1>p1, <1>p2, <1>p5, <1>p6, <1>p7 DEF Typing, InRun
<1>fT. \A x \in Callers : Waiting(x)' = Waiting(x)
  <2>1. ASSUME NEW x \in Callers, NEW s \in Slots PROVE s \in Waiting(x)' <=> s \in Waiting(x)
    BY <1>0, <1>t, <2>1, <1>e1, <1>e2, <1>e3, <1>p1, <1>p2, <1>p5, <1>p6, <1>p7 DEF Typing, Waiting
  <2>2. \A x \in Callers : Waiting(x)' \subseteq Slots /\ Waiting(x) \subseteq Slots  BY <1>t, <1>e1,
        <1>e2, <1>e3, <1>p1, <1>p2, <1>p5, <1>p6, <1>p7 DEF Waiting, Slots
  <2> QED  BY <2>1, <2>2
<1>fH. \A x \in Callers : Hands(x)' = (IF x = o THEN Hands(x) \ {w} ELSE Hands(x))
  <2>1. ASSUME NEW x \in Callers, NEW y \in Workers PROVE y \in Hands(x)' <=> (y \in Hands(x)
        /\ ~(x = o /\ y = w))
    BY <1>0, <1>t, <2>1, <1>e1, <1>e2, <1>e3, <1>p1, <1>p2, <1>p5, <1>p6, <1>p7, <1>fW DEF Typing, Hands
  <2>2. \A x \in Callers : Hands(x)' \subseteq Workers /\ Hands(x) \subseteq Workers  BY DEF Hands
  <2>3. ASSUME NEW x \in Callers PROVE Hands(x)' = (IF x = o THEN Hands(x) \ {w} ELSE Hands(x))
    <3>1. CASE x = o  BY <2>1, <2>2, <3>1
    <3>2. CASE x # o  BY <2>1, <2>2, <3>2
    <3> QED  BY <3>1, <3>2
  <2> QED  BY <2>3
<1>fU. \A s \in Slots, x \in Callers : Unprocessed(s, x)' <=> Unprocessed(s, x)
  BY <1>0, <1>t, <1>e1, <1>e2, <1>e3, <1>p1, <1>p2, <1>p5, <1>p6, <1>p7, <1>fW, <1>fR DEF Typing,
        Unprocessed
<1>g. \A x \in Callers : Opened(x) => Opened(x)' /\ call'[x].first = call[x].first
  BY <1>t, <1>e1, <1>e2, <1>e3, <1>p1, <1>p2, <1>p5, <1>p6, <1>p7, <1>fA DEF Typing, Opened, Active,
        IsKeyCall
<1>s. \A s \in Slots : (slot'[s].kind = slot[s].kind /\ slot'[s].owner = slot[s].owner
      /\ slot'[s].first = slot[s].first)
  BY <1>e1, <1>e2, <1>e3, <1>p1, <1>p2, <1>p5, <1>p6, <1>p7
<1>1. TypeOK'
  BY <1>0, <1>t, <1>e1, <1>e2, <1>e3, <1>p1, <1>p2, <1>p5, <1>p6, <1>p7, Flags, TypesKept,
        Constants DEF Typing
<1>2. Phases'
  BY <1>0, <1>t, <1>e1, <1>e2, <1>e3, <1>p1, <1>p2, <1>p5, <1>p6, <1>p7 DEF Typing, Phases
<1>3. Mutexes'
  <2>1. cPc' = cPc /\ enqOwner' = enqOwner /\ deqOwner' = deqOwner /\ wSlot' = wSlot
        /\ stopPending' = stopPending  BY <1>e3
  <2>2. \A y \in Workers : y # w => wPc'[y] = wPc[y]  BY <1>e1
  <2>3. wPc'[w] \notin {"check", "wait", "take"} /\ wPc[w] \notin {"check", "wait", "take"}  BY <1>e1,
        <1>p1
  <2>4. \A y \in Workers : slot[wSlot[y]].state = "ready" => slot'[wSlot[y]].state = "ready"
    BY <1>t, <1>e2 DEF Typing
  <2>5. \A y \in Workers : wPc'[y] \in {"check", "wait", "take"} <=> deqOwner' = y
    BY <1>0, <2>1, <2>2, <2>3 DEF Mutexes
  <2>6. \A y \in Workers : wPc'[y] = "take" => stopPending' \/ slot'[wSlot'[y]].state = "ready"
    BY <1>0, <2>1, <2>2, <2>3, <2>4 DEF Mutexes
  <2>7. \A x \in Callers :
          cPc'[x] \in {"first", "firstWait", "next", "slotWait", "ready", "unlock"} <=> enqOwner' = x
    BY <1>0, <2>1 DEF Mutexes
  <2> QED  BY <2>5, <2>6, <2>7 DEF Mutexes
<1>4. Division'
  <2>1. call' = call /\ cPc' = cPc /\ enqOwner' = enqOwner  BY <1>e3
  <2>2. ASSUME NEW x \in Callers PROVE DivisionOf(x)'
    <3>1. DivisionOf(x) /\ (Active(x)' <=> Active(x)) /\ (Early(x)' <=> Early(x))  BY <1>0, <1>fA,
          <1>fE DEF Division
    <3> HIDE DEF Active, Early
    <3> QED  BY <2>1, <3>1 DEF DivisionOf, Divided, IsKeyCall
  <2> QED  BY <2>2 DEF Division
<1>5. Groups'
  <2>1. \A s \in Slots : slot[s].state = "free" => slot'[s].state = "free"  BY <1>e2
  <2>2. ASSUME NEW x \in Callers, OwnsFirst(x), Opened(x) \/ cPc[x] = "free" PROVE OwnsFirst(x)'
    <3>1. call[x].first \in Slots /\ call' = call  BY <1>t, <1>e3 DEF Typing
    <3>2. slot'[call[x].first].state = slot[call[x].first].state  BY <2>2, <3>1, <1>e2
    <3> QED  BY <1>s, <2>2, <3>1, <3>2 DEF OwnsFirst
  <2>3. ASSUME NEW x \in Callers PROVE GroupOf(x)'
    <3>1. call' = call /\ cPc' = cPc /\ enq' = enq  BY <1>e3
    <3>2. IsFree(enq) => IsFree(enq)'  BY <1>t, <2>1, <3>1 DEF IsFree, Typing
    <3>3. GroupOf(x) /\ (Active(x)' <=> Active(x)) /\ (Opened(x)' <=> Opened(x))  BY <1>0, <3>1,
          <1>fA DEF Groups, Opened
    <3> HIDE DEF Active, Opened
    <3> QED  BY <2>2, <3>1, <3>2, <3>3 DEF GroupOf
  <2> QED  BY <2>3 DEF Groups
<1>6. Members'
  <2>1. ASSUME NEW s \in Slots, OfGroup(s) PROVE OfGroup(s)'
    BY <1>t, <2>1, <1>g, <1>s, <1>fS DEF Typing, OfGroup
  <2>2. \A s \in Slots : slot'[s].state = "ready" => slot[s].state = "ready"  BY <1>t, <1>e1, <1>e2,
        <1>e3, <1>p1, <1>p2, <1>p5, <1>p6, <1>p7 DEF Typing
  <2>3. \A y \in Workers : Working(y)' => wSlot'[y] = wSlot[y] /\ OfGroup(wSlot[y])
    BY <1>0, <1>t, <1>fW, <1>e1, <1>e2, <1>e3, <1>p1, <1>p2, <1>p5, <1>p6, <1>p7 DEF Typing, Members
  <2>4. \A s \in Slots : slot'[s].state = "ready" => OfGroup(s)'  BY <1>0, <2>1, <2>2 DEF Members
  <2>5. \A y \in Workers : Working(y)' => OfGroup(wSlot[y])'  BY <1>t, <1>fW, <2>1, <2>3 DEF Typing
  <2> QED  BY <2>4, <2>5 DEF Members
<1>7. Holding'
  <2>1. ASSUME NEW y \in Workers, y # w, Working(y)' PROVE Held(y)'
    BY <1>0, <1>t, <2>1, <1>e1, <1>e2, <1>e3, <1>p1, <1>p2, <1>p5, <1>p6, <1>p7, <1>fW DEF Typing,
          Holding, Held
  <2>2. Working(w)' => Held(w)'
    BY <1>0, <1>t, <1>e1, <1>e2, <1>e3, <1>p1, <1>p2, <1>p5, <1>p6, <1>p7, <1>fW DEF Typing, Holding,
          Held, Mutexes
  <2>3. \A y, z \in Workers : Working(y)' /\ Working(z)' /\ wSlot'[y] = wSlot'[z] => y = z
    BY <1>0, <1>t, <1>e1, <1>e2, <1>e3, <1>p1, <1>p2, <1>p5, <1>p6, <1>p7, <1>fW DEF Typing, Holding
  <2>4. \A y \in Workers : Working(y)' => Held(y)'  BY <2>1, <2>2
  <2> QED  BY <2>3, <2>4 DEF Holding
<1>8. Counted'
  <2>1. ASSUME NEW x \in Callers, x # o, Active(x)' PROVE CountOf(x)'
    <3>1. Active(x) /\ CountOf(x)  BY <1>0, <2>1, <1>fA DEF Counted
    <3>2. call' = call /\ call[x].first # f /\ call[x].first \in Slots  BY <1>t, <1>e3, <1>p8, <2>1,
          <3>1 DEF Typing
    <3>3. slot'[call[x].first].count = slot[call[x].first].count  BY <3>2, <1>e2
    <3>4. Waiting(x)' = Waiting(x) /\ Hands(x)' = Hands(x)  BY <2>1, <1>fT, <1>fH
    <3> QED  BY <3>1, <3>2, <3>3, <3>4 DEF CountOf
  <2>2. CountOf(o)'
    <3>1. Hands(o)' = Hands(o) \ {w} /\ Waiting(o)' = Waiting(o)  BY <1>fT, <1>fH
    <3>2. Cardinality(Hands(o)') = Cardinality(Hands(o)) - 1 /\ Cardinality(Hands(o)) \in Nat
      BY <1>p3, <3>1, Finite, RemoveOne
    <3>3. call' = call /\ call[o].left \in Nat  BY <1>t, <1>e3 DEF Typing
    <3>4. slot'[f].count = slot[f].count - 1  BY <1>e2
    <3>5. Cardinality(Waiting(o)) \in Nat  BY Finite, FS_CardinalityType
    <3>6. slot[f].count = call[o].left + Cardinality(Waiting(o)) + Cardinality(Hands(o))  BY <1>p2,
          <1>p4 DEF CountOf
    <3>7. slot'[f].count = call[o].left + Cardinality(Waiting(o)) + Cardinality(Hands(o)')
      BY <3>2, <3>3, <3>4, <3>5, <3>6
    <3>8. call'[o].first = f /\ call'[o].left = call[o].left  BY <1>p2, <3>3
    <3>9. Cardinality(Waiting(o)') = Cardinality(Waiting(o))  BY <3>1
    <3> QED  BY <3>7, <3>8, <3>9 DEF CountOf
  <2> QED  BY <2>1, <2>2 DEF Counted
<1>9. Completion'
  <2>1. ASSUME NEW s \in Slots, slot'[s].completed PROVE EventOf(s)'
    <3>1. slot[s].completed /\ EventOf(s)  BY <1>0, <2>1, <1>e2 DEF Completion
    <3>2. slot'[s].count = slot[s].count  BY <3>1, <1>e2, <1>p6
    <3>3. slot'[s].kind = slot[s].kind /\ slot'[s].owner = slot[s].owner  BY <1>s
    <3>4. PICK x \in Callers : x = slot[s].owner /\ Opened(x) /\ call[x].first = s  BY <3>1 DEF EventOf
    <3>5. Opened(x)' /\ call'[x].first = s  BY <1>g, <3>4
    <3> QED  BY <3>1, <3>2, <3>3, <3>4, <3>5 DEF EventOf, Opened, Active, IsKeyCall
  <2>2. ASSUME NEW y \in Workers, wPc'[y] = "signalItem" PROVE slot'[wGroup'[y]].count = 0
        /\ ~slot'[wGroup'[y]].completed
    BY <1>0, <1>t, <2>2, <1>e1, <1>e2, <1>e3, <1>p1, <1>p2, <1>p5, <1>p6, <1>p7 DEF Typing, Completion
  <2>3. \A y, z \in Workers : wPc'[y] = "signalItem" /\ wPc'[z] = "signalItem"
        /\ wGroup'[y] = wGroup'[z] => y = z
    BY <1>0, <1>t, <1>e1, <1>e2, <1>e3, <1>p1, <1>p2, <1>p5, <1>p6, <1>p7 DEF Typing, Completion
  <2> QED  BY <2>1, <2>2, <2>3 DEF Completion
<1>10. Units'
  <2>1. DOMAIN times' = Callers  BY <1>0, <1>e1, <1>e2, <1>e3, <1>p1, <1>p2, <1>p5, <1>p6,
        <1>p7 DEF Units
  <2>2. ASSUME NEW x \in Callers, Early(x)' \/ Active(x)' PROVE UnitsOf(x)'
    <3>1. (Early(x) \/ Active(x))  BY <2>2, <1>t, <1>e1, <1>e2, <1>e3, <1>p1, <1>p2, <1>p5, <1>p6,
          <1>p7, <1>fA, <1>fE DEF Typing
    <3>2. call'[x].size = call[x].size /\ call'[x].next = call[x].next /\ times'[x] = times[x]
          BY <1>e1, <1>e2, <1>e3, <1>p1, <1>p2, <1>p5, <1>p6, <1>p7, <3>1 DEF Early, Active, IsKeyCall
    <3>3. \A s \in Slots : Unprocessed(s, x) => Unprocessed(s, x)' /\ slot'[s].lo = slot[s].lo
          /\ slot'[s].hi = slot[s].hi
      BY <1>e1, <1>e2, <1>e3, <1>p1, <1>p2, <1>p5, <1>p6, <1>p7, <1>fU
    <3>4. UnitsOf(x)  BY <1>0, <3>1 DEF Units
    <3>5. \A u \in 1 .. call[x].size : Pending(x, u) => Pending(x, u)'  BY <3>3 DEF Pending
    <3> QED  BY <3>2, <3>4, <3>5 DEF UnitsOf
  <2>3. ASSUME NEW x \in Callers, IsKeyCall(x)', cPc'[x] # "idle" PROVE DOMAIN times'[x] = {}
    BY <1>0, <1>e1, <1>e2, <1>e3, <1>p1, <1>p2, <1>p5, <1>p6, <1>p7, <2>3 DEF Units, IsKeyCall
  <2>4. ASSUME NEW x \in Callers, cPc'[x] \in {"free", "signal", "idle"} PROVE AllOnce(x)'
    BY <1>0, <1>e1, <1>e2, <1>e3, <1>p1, <1>p2, <1>p5, <1>p6, <1>p7, <2>4 DEF Units, IsKeyCall, AllOnce
  <2> QED  BY <2>1, <2>2, <2>3, <2>4 DEF Units
<1>11. Fragments'
  <2>1. ASSUME NEW x \in Callers, Active(x)'
        PROVE  /\ \A s \in Slots : Unprocessed(s, x)' => FragmentOfCall(s, x)'
               /\ \A s, t \in Slots : Unprocessed(s, x)' /\ Unprocessed(t, x)' /\ s # t => Apart(s, t)'
    <3>0. Active(x) \/ Early(x)  BY <2>1, <1>fA, <1>e1, <1>e2, <1>e3, <1>p1, <1>p2, <1>p5, <1>p6,
          <1>p7 DEF Early
    <3>1. \A s \in Slots : Unprocessed(s, x) => Active(x)
      BY <1>0, <1>t DEF Typing, Unprocessed, InRun, Working, Members, OfGroup, Opened
    <3>2. call'[x].next = call[x].next /\ times'[x] = times[x]  BY <2>1, <3>0, <1>fA, <1>e1, <1>e2,
          <1>e3, <1>p1, <1>p2, <1>p5, <1>p6, <1>p7
    <3>3. \A s \in Slots : Unprocessed(s, x) => slot'[s].lo = slot[s].lo
          /\ slot'[s].hi = slot[s].hi  BY <1>e1, <1>e2, <1>e3, <1>p1, <1>p2, <1>p5, <1>p6, <1>p7
    <3>4. \A s \in Slots : Unprocessed(s, x)' => Unprocessed(s, x)  BY <1>fU
    <3>5. \A s \in Slots : Unprocessed(s, x) => FragmentOfCall(s, x)  BY <1>0, <3>1 DEF Fragments
    <3>6. \A s, t \in Slots : Unprocessed(s, x) /\ Unprocessed(t, x) /\ s # t => Apart(s, t)  BY <1>0,
          <3>1 DEF Fragments
    <3>7. \A s \in Slots : Unprocessed(s, x)' => FragmentOfCall(s, x)'  BY <3>2, <3>3, <3>4,
          <3>5 DEF FragmentOfCall
    <3>8. \A s, t \in Slots : Unprocessed(s, x)' /\ Unprocessed(t, x)' /\ s # t => Apart(s, t)'
          BY <3>3, <3>4, <3>6 DEF Apart
    <3> QED  BY <3>7, <3>8
  <2> QED  BY <2>1 DEF Fragments
<1>12. Exceptions'
  <2>1. call' = call /\ cPc' = cPc /\ broken' = broken  BY <1>e3
  <2>2. \A s \in Slots : slot'[s].exception = slot[s].exception  BY <1>e2
  <2>3. ASSUME NEW x \in Callers PROVE ExceptionOf(x)'
    <3>1. ExceptionOf(x) /\ (Active(x)' <=> Active(x)) /\ (Early(x)' <=> Early(x))
          /\ call[x].first \in Slots
      BY <1>0, <1>t, <1>fA, <1>fE DEF Exceptions, Typing
    <3> HIDE DEF Active, Early
    <3> QED  BY <2>1, <2>2, <3>1 DEF ExceptionOf, IsKeyCall
  <2> QED  BY <2>3 DEF Exceptions
<1> QED  BY <1>1, <1>2, <1>3, <1>4, <1>5, <1>6, <1>7, <1>8, <1>9, <1>10, <1>11, <1>12 DEF PoolInv

\* The last one sets the event of the group.
LEMMA SignalItemKept ==
  ASSUME NEW w \in Workers, PoolInv, SignalItem(w)
  PROVE  PoolInv'
<1>0. TypeOK /\ Phases /\ Mutexes /\ Division /\ Groups /\ Members /\ Holding /\ Counted
      /\ Completion /\ Units /\ Fragments /\ Exceptions  BY DEF PoolInv
<1>t. Typing  BY <1>0, Typed
<1>o. PICK o \in Callers : o = slot[wSlot[w]].owner /\ Opened(o)
      /\ slot[wSlot[w]].first = call[o].first /\ slot[wSlot[w]].kind = "units"
  <2>1. Working(w)  BY DEF SignalItem, Working
  <2>2. OfGroup(wSlot[w]) /\ slot[wSlot[w]].kind = "units"  BY <1>0, <2>1 DEF Members, Holding, Held,
        SignalItem
  <2> QED  BY <2>2 DEF OfGroup
<1>f. PICK f \in Slots : f = slot[wSlot[w]].first  BY <1>t DEF Typing
<1>p1. wPc[w] = "signalItem" /\ Working(w)
  BY DEF SignalItem, Working
<1>p2. o = slot[wSlot[w]].owner /\ f = slot[wSlot[w]].first /\ f = call[o].first /\ f = wGroup[w]
      /\ slot[wSlot[w]].kind = "units" /\ Opened(o) /\ Active(o)
  BY <1>0, <1>o, <1>f, <1>p1 DEF Opened, Holding, Held
<1>p3. slot[f].state # "free" /\ slot[f].kind = "units" /\ slot[f].owner = o /\ slot[f].count = 0
  <2>1. OwnsFirst(o)  BY <1>0, <1>p2 DEF Groups, GroupOf
  <2>2. slot[f].count = 0  BY <1>0, <1>p1, <1>p2 DEF Completion
  <2> QED  BY <1>p2, <2>1, <2>2 DEF OwnsFirst
<1>p4. \A y \in Workers : wPc[y] = "signalItem" /\ y # w => wGroup[y] # f
  BY <1>0, <1>p1, <1>p2 DEF Completion
<1>e1. wPc' \in [Workers -> WorkStates]
      /\ \A x \in Workers : wPc'[x] = (IF x = w THEN "loop" ELSE wPc[x])
  BY <1>t, WorkerGoes DEF Typing, WorkStates, SignalItem, WGoto
<1>e2. slot' \in [Slots -> SlotRecord] /\ \A s \in Slots : slot'[s].kind = slot[s].kind
      /\ slot'[s].owner = slot[s].owner /\ slot'[s].first = slot[s].first
      /\ slot'[s].lo = slot[s].lo /\ slot'[s].hi = slot[s].hi /\ slot'[s].count = slot[s].count
      /\ slot'[s].exception = slot[s].exception /\ (s = f => slot'[s].completed = TRUE)
      /\ (~(s = f) => slot'[s].completed = slot[s].completed) /\ slot'[s].state = slot[s].state
  <2>1. CompletedSetAt(slot[wSlot[w]].first)  BY Zenon DEF SignalItem, CompletedSetAt
  <2>2. CompletedSetAt(f)  BY <1>f, <2>1
  <2>3. slot \in [Slots -> SlotRecord]  BY <1>t, Zenon DEF Typing
  <2> QED  BY <2>2, <2>3, CompletedSet
<1>e3. portable' = portable /\ running' = running /\ stopPending' = stopPending
      /\ threadCount' = threadCount /\ enq' = enq /\ deq' = deq /\ enqOwner' = enqOwner
      /\ deqOwner' = deqOwner /\ readyEvt' = readyEvt /\ doneEvt' = doneEvt /\ cPc' = cPc
      /\ call' = call /\ wSlot' = wSlot /\ sPc' = sPc /\ joined' = joined /\ wGroup' = wGroup
      /\ times' = times /\ broken' = broken /\ calls' = calls
  BY DEF SignalItem, flags, events, stop, history, WGoto
<1>fA. \A x \in Callers : Active(x)' <=> Active(x)
  BY <1>0, <1>t, <1>e1, <1>e2, <1>e3, <1>p1, <1>p2 DEF Typing, Active, IsKeyCall
<1>fE. \A x \in Callers : Early(x)' <=> Early(x)
  BY <1>0, <1>t, <1>e1, <1>e2, <1>e3, <1>p1, <1>p2 DEF Typing, Early, IsKeyCall
<1>fW. \A y \in Workers : Working(y)' <=> (Working(y) /\ y # w)
  BY <1>0, <1>t, <1>e1, <1>e2, <1>e3, <1>p1, <1>p2 DEF Typing, Working
<1>fS. \A g, s \in Slots : Since(g, s)' <=> Since(g, s)
  BY <1>0, <1>t, <1>e1, <1>e2, <1>e3, <1>p1, <1>p2 DEF Typing, Since
<1>fR. \A s \in Slots : InRun(s)' <=> InRun(s)
  BY <1>0, <1>t, <1>e1, <1>e2, <1>e3, <1>p1, <1>p2 DEF Typing, InRun
<1>fT. \A x \in Callers : Waiting(x)' = Waiting(x)
  <2>1. ASSUME NEW x \in Callers, NEW s \in Slots PROVE s \in Waiting(x)' <=> s \in Waiting(x)
    BY <1>0, <1>t, <2>1, <1>e1, <1>e2, <1>e3, <1>p1, <1>p2 DEF Typing, Waiting
  <2>2. \A x \in Callers : Waiting(x)' \subseteq Slots /\ Waiting(x) \subseteq Slots  BY <1>t, <1>e1,
        <1>e2, <1>e3, <1>p1, <1>p2 DEF Waiting, Slots
  <2> QED  BY <2>1, <2>2
<1>fH. \A x \in Callers : Hands(x)' = Hands(x)
  <2>1. ASSUME NEW x \in Callers, NEW y \in Workers PROVE y \in Hands(x)' <=> y \in Hands(x)
    BY <1>0, <1>t, <2>1, <1>e1, <1>e2, <1>e3, <1>p1, <1>p2, <1>fW DEF Typing, Hands
  <2>2. \A x \in Callers : Hands(x)' \subseteq Workers /\ Hands(x) \subseteq Workers  BY DEF Hands
  <2> QED  BY <2>1, <2>2
<1>fU. \A s \in Slots, x \in Callers : Unprocessed(s, x)' <=> Unprocessed(s, x)
  BY <1>0, <1>t, <1>e1, <1>e2, <1>e3, <1>p1, <1>p2, <1>fW, <1>fR DEF Typing, Unprocessed
<1>g. \A x \in Callers : Opened(x) => Opened(x)' /\ call'[x].first = call[x].first
  BY <1>t, <1>e1, <1>e2, <1>e3, <1>p1, <1>p2, <1>fA DEF Typing, Opened, Active, IsKeyCall
<1>s. \A s \in Slots : (slot'[s].kind = slot[s].kind /\ slot'[s].owner = slot[s].owner
      /\ slot'[s].first = slot[s].first)
  BY <1>e1, <1>e2, <1>e3, <1>p1, <1>p2
<1>1. TypeOK'
  BY <1>0, <1>t, <1>e1, <1>e2, <1>e3, <1>p1, <1>p2, Flags, TypesKept, Constants DEF Typing
<1>2. Phases'
  BY <1>0, <1>t, <1>e1, <1>e2, <1>e3, <1>p1, <1>p2 DEF Typing, Phases
<1>3. Mutexes'
  <2>1. cPc' = cPc /\ enqOwner' = enqOwner /\ deqOwner' = deqOwner /\ wSlot' = wSlot
        /\ stopPending' = stopPending  BY <1>e3
  <2>2. \A y \in Workers : y # w => wPc'[y] = wPc[y]  BY <1>e1
  <2>3. wPc'[w] \notin {"check", "wait", "take"} /\ wPc[w] \notin {"check", "wait", "take"}  BY <1>e1,
        <1>p1
  <2>4. \A y \in Workers : slot[wSlot[y]].state = "ready" => slot'[wSlot[y]].state = "ready"
    BY <1>t, <1>e2 DEF Typing
  <2>5. \A y \in Workers : wPc'[y] \in {"check", "wait", "take"} <=> deqOwner' = y
    BY <1>0, <2>1, <2>2, <2>3 DEF Mutexes
  <2>6. \A y \in Workers : wPc'[y] = "take" => stopPending' \/ slot'[wSlot'[y]].state = "ready"
    BY <1>0, <2>1, <2>2, <2>3, <2>4 DEF Mutexes
  <2>7. \A x \in Callers :
          cPc'[x] \in {"first", "firstWait", "next", "slotWait", "ready", "unlock"} <=> enqOwner' = x
    BY <1>0, <2>1 DEF Mutexes
  <2> QED  BY <2>5, <2>6, <2>7 DEF Mutexes
<1>4. Division'
  <2>1. call' = call /\ cPc' = cPc /\ enqOwner' = enqOwner  BY <1>e3
  <2>2. ASSUME NEW x \in Callers PROVE DivisionOf(x)'
    <3>1. DivisionOf(x) /\ (Active(x)' <=> Active(x)) /\ (Early(x)' <=> Early(x))  BY <1>0, <1>fA,
          <1>fE DEF Division
    <3> HIDE DEF Active, Early
    <3> QED  BY <2>1, <3>1 DEF DivisionOf, Divided, IsKeyCall
  <2> QED  BY <2>2 DEF Division
<1>5. Groups'
  <2>1. \A s \in Slots : slot[s].state = "free" => slot'[s].state = "free"  BY <1>e2
  <2>2. ASSUME NEW x \in Callers, OwnsFirst(x), Opened(x) \/ cPc[x] = "free" PROVE OwnsFirst(x)'
    <3>1. call[x].first \in Slots /\ call' = call  BY <1>t, <1>e3 DEF Typing
    <3>2. slot'[call[x].first].state = slot[call[x].first].state  BY <2>2, <3>1, <1>e2
    <3> QED  BY <1>s, <2>2, <3>1, <3>2 DEF OwnsFirst
  <2>3. ASSUME NEW x \in Callers PROVE GroupOf(x)'
    <3>1. call' = call /\ cPc' = cPc /\ enq' = enq  BY <1>e3
    <3>2. IsFree(enq) => IsFree(enq)'  BY <1>t, <2>1, <3>1 DEF IsFree, Typing
    <3>3. GroupOf(x) /\ (Active(x)' <=> Active(x)) /\ (Opened(x)' <=> Opened(x))  BY <1>0, <3>1,
          <1>fA DEF Groups, Opened
    <3> HIDE DEF Active, Opened
    <3> QED  BY <2>2, <3>1, <3>2, <3>3 DEF GroupOf
  <2> QED  BY <2>3 DEF Groups
<1>6. Members'
  <2>1. ASSUME NEW s \in Slots, OfGroup(s) PROVE OfGroup(s)'
    BY <1>t, <2>1, <1>g, <1>s, <1>fS DEF Typing, OfGroup
  <2>2. \A s \in Slots : slot'[s].state = "ready" => slot[s].state = "ready"  BY <1>t, <1>e1, <1>e2,
        <1>e3, <1>p1, <1>p2 DEF Typing
  <2>3. \A y \in Workers : Working(y)' => wSlot'[y] = wSlot[y] /\ OfGroup(wSlot[y])
    BY <1>0, <1>t, <1>fW, <1>e1, <1>e2, <1>e3, <1>p1, <1>p2 DEF Typing, Members
  <2>4. \A s \in Slots : slot'[s].state = "ready" => OfGroup(s)'  BY <1>0, <2>1, <2>2 DEF Members
  <2>5. \A y \in Workers : Working(y)' => OfGroup(wSlot[y])'  BY <1>t, <1>fW, <2>1, <2>3 DEF Typing
  <2> QED  BY <2>4, <2>5 DEF Members
<1>7. Holding'
  <2>1. ASSUME NEW y \in Workers, y # w, Working(y)' PROVE Held(y)'
    BY <1>0, <1>t, <2>1, <1>e1, <1>e2, <1>e3, <1>p1, <1>p2, <1>fW DEF Typing, Holding, Held
  <2>2. Working(w)' => Held(w)'
    BY <1>0, <1>t, <1>e1, <1>e2, <1>e3, <1>p1, <1>p2, <1>fW DEF Typing, Holding, Held, Mutexes
  <2>3. \A y, z \in Workers : Working(y)' /\ Working(z)' /\ wSlot'[y] = wSlot'[z] => y = z
    BY <1>0, <1>t, <1>e1, <1>e2, <1>e3, <1>p1, <1>p2, <1>fW DEF Typing, Holding
  <2>4. \A y \in Workers : Working(y)' => Held(y)'  BY <2>1, <2>2
  <2> QED  BY <2>3, <2>4 DEF Holding
<1>8. Counted'
  <2>1. ASSUME NEW x \in Callers, Active(x)' PROVE CountOf(x)'
    <3>1. Active(x)  BY <2>1, <1>fA
    <3>2. call'[x].left = call[x].left /\ call'[x].first = call[x].first  BY <1>t, <2>1, <3>1, <1>e1,
          <1>e2, <1>e3, <1>p1, <1>p2, <1>fA DEF Typing
    <3>3. slot'[call[x].first].count = slot[call[x].first].count  BY <1>t, <1>e1, <1>e2, <1>e3, <1>p1,
          <1>p2 DEF Typing
    <3> QED  BY <1>0, <3>1, <3>2, <3>3, <1>fT, <1>fH DEF Counted, CountOf
  <2> QED  BY <2>1 DEF Counted
<1>9. Completion'
  <2>1. ASSUME NEW s \in Slots, slot'[s].completed PROVE EventOf(s)'
    <3>1. CASE s = f
      <4>1. Opened(o)' /\ call'[o].first = f  BY <1>g, <1>p2
      <4>2. slot'[f].kind = "units" /\ slot'[f].owner = o /\ slot'[f].count = 0  BY <1>e2, <1>p3
      <4> QED  BY <3>1, <4>1, <4>2 DEF EventOf, Opened, Active, IsKeyCall
    <3>2. CASE s # f
      <4>1. slot[s].completed /\ EventOf(s)  BY <1>0, <1>e2, <2>1, <3>2 DEF Completion
      <4>2. slot'[s].kind = slot[s].kind /\ slot'[s].owner = slot[s].owner
            /\ slot'[s].count = slot[s].count  BY <1>e2
      <4>3. PICK x \in Callers : x = slot[s].owner /\ Opened(x) /\ call[x].first = s
            BY <4>1 DEF EventOf
      <4>4. Opened(x)' /\ call'[x].first = s  BY <1>g, <4>3
      <4> QED  BY <4>1, <4>2, <4>3, <4>4 DEF EventOf, Opened, Active, IsKeyCall
    <3> QED  BY <3>1, <3>2
  <2>2. ASSUME NEW y \in Workers, wPc'[y] = "signalItem" PROVE slot'[wGroup'[y]].count = 0
        /\ ~slot'[wGroup'[y]].completed
    <3>1. y # w /\ wPc[y] = "signalItem"  BY <1>e1, <2>2
    <3>2. wGroup'[y] = wGroup[y] /\ wGroup[y] \in Slots  BY <1>t, <1>e3, <3>1 DEF Typing
    <3>3. slot[wGroup[y]].count = 0 /\ ~slot[wGroup[y]].completed  BY <1>0, <3>1 DEF Completion
    <3>4. slot'[wGroup[y]].count = slot[wGroup[y]].count
          /\ slot'[wGroup[y]].completed = slot[wGroup[y]].completed
      BY <1>e2, <3>1, <3>2, <1>p4
    <3> QED  BY <3>2, <3>3, <3>4
  <2>3. ASSUME NEW y \in Workers, NEW z \in Workers, wPc'[y] = "signalItem", wPc'[z] = "signalItem",
        wGroup'[y] = wGroup'[z]
        PROVE  y = z
    <3>1. y # w /\ wPc[y] = "signalItem" /\ z # w /\ wPc[z] = "signalItem"  BY <1>e1, <2>3
    <3>2. wGroup'[y] = wGroup[y] /\ wGroup'[z] = wGroup[z]  BY <1>e3, <3>1
    <3> QED  BY <1>0, <2>3, <3>1, <3>2 DEF Completion
  <2> QED  BY <2>1, <2>2, <2>3 DEF Completion
<1>10. Units'
  <2>1. DOMAIN times' = Callers  BY <1>0, <1>e1, <1>e2, <1>e3, <1>p1, <1>p2 DEF Units
  <2>2. ASSUME NEW x \in Callers, Early(x)' \/ Active(x)' PROVE UnitsOf(x)'
    <3>1. (Early(x) \/ Active(x))  BY <2>2, <1>t, <1>e1, <1>e2, <1>e3, <1>p1, <1>p2, <1>fA,
          <1>fE DEF Typing
    <3>2. call'[x].size = call[x].size /\ call'[x].next = call[x].next /\ times'[x] = times[x]
          BY <1>e1, <1>e2, <1>e3, <1>p1, <1>p2, <3>1 DEF Early, Active, IsKeyCall
    <3>3. \A s \in Slots : Unprocessed(s, x) => Unprocessed(s, x)' /\ slot'[s].lo = slot[s].lo
          /\ slot'[s].hi = slot[s].hi
      BY <1>e1, <1>e2, <1>e3, <1>p1, <1>p2, <1>fU
    <3>4. UnitsOf(x)  BY <1>0, <3>1 DEF Units
    <3>5. \A u \in 1 .. call[x].size : Pending(x, u) => Pending(x, u)'  BY <3>3 DEF Pending
    <3> QED  BY <3>2, <3>4, <3>5 DEF UnitsOf
  <2>3. ASSUME NEW x \in Callers, IsKeyCall(x)', cPc'[x] # "idle" PROVE DOMAIN times'[x] = {}
    BY <1>0, <1>e1, <1>e2, <1>e3, <1>p1, <1>p2, <2>3 DEF Units, IsKeyCall
  <2>4. ASSUME NEW x \in Callers, cPc'[x] \in {"free", "signal", "idle"} PROVE AllOnce(x)'
    BY <1>0, <1>e1, <1>e2, <1>e3, <1>p1, <1>p2, <2>4 DEF Units, IsKeyCall, AllOnce
  <2> QED  BY <2>1, <2>2, <2>3, <2>4 DEF Units
<1>11. Fragments'
  <2>1. ASSUME NEW x \in Callers, Active(x)'
        PROVE  /\ \A s \in Slots : Unprocessed(s, x)' => FragmentOfCall(s, x)'
               /\ \A s, t \in Slots : Unprocessed(s, x)' /\ Unprocessed(t, x)' /\ s # t => Apart(s, t)'
    <3>0. Active(x) \/ Early(x)  BY <2>1, <1>fA, <1>e1, <1>e2, <1>e3, <1>p1, <1>p2 DEF Early
    <3>1. \A s \in Slots : Unprocessed(s, x) => Active(x)
      BY <1>0, <1>t DEF Typing, Unprocessed, InRun, Working, Members, OfGroup, Opened
    <3>2. call'[x].next = call[x].next /\ times'[x] = times[x]  BY <2>1, <3>0, <1>fA, <1>e1, <1>e2,
          <1>e3, <1>p1, <1>p2
    <3>3. \A s \in Slots : Unprocessed(s, x) => slot'[s].lo = slot[s].lo
          /\ slot'[s].hi = slot[s].hi  BY <1>e1, <1>e2, <1>e3, <1>p1, <1>p2
    <3>4. \A s \in Slots : Unprocessed(s, x)' => Unprocessed(s, x)  BY <1>fU
    <3>5. \A s \in Slots : Unprocessed(s, x) => FragmentOfCall(s, x)  BY <1>0, <3>1 DEF Fragments
    <3>6. \A s, t \in Slots : Unprocessed(s, x) /\ Unprocessed(t, x) /\ s # t => Apart(s, t)  BY <1>0,
          <3>1 DEF Fragments
    <3>7. \A s \in Slots : Unprocessed(s, x)' => FragmentOfCall(s, x)'  BY <3>2, <3>3, <3>4,
          <3>5 DEF FragmentOfCall
    <3>8. \A s, t \in Slots : Unprocessed(s, x)' /\ Unprocessed(t, x)' /\ s # t => Apart(s, t)'
          BY <3>3, <3>4, <3>6 DEF Apart
    <3> QED  BY <3>7, <3>8
  <2> QED  BY <2>1 DEF Fragments
<1>12. Exceptions'
  <2>1. call' = call /\ cPc' = cPc /\ broken' = broken  BY <1>e3
  <2>2. \A s \in Slots : slot'[s].exception = slot[s].exception  BY <1>e2
  <2>3. ASSUME NEW x \in Callers PROVE ExceptionOf(x)'
    <3>1. ExceptionOf(x) /\ (Active(x)' <=> Active(x)) /\ (Early(x)' <=> Early(x))
          /\ call[x].first \in Slots
      BY <1>0, <1>t, <1>fA, <1>fE DEF Exceptions, Typing
    <3> HIDE DEF Active, Early
    <3> QED  BY <2>1, <2>2, <3>1 DEF ExceptionOf, IsKeyCall
  <2> QED  BY <2>3 DEF Exceptions
<1> QED  BY <1>1, <1>2, <1>3, <1>4, <1>5, <1>6, <1>7, <1>8, <1>9, <1>10, <1>11, <1>12 DEF PoolInv

\* The stop begins: nothing is under way.
LEMMA StopBeginKept ==
  ASSUME PoolInv, StopBegin
  PROVE  PoolInv'
<1>0. TypeOK /\ Phases /\ Mutexes /\ Division /\ Groups /\ Members /\ Holding /\ Counted
      /\ Completion /\ Units /\ Fragments /\ Exceptions  BY DEF PoolInv
<1>t. Typing  BY <1>0, Typed
<1>p1. \A x \in Callers : cPc[x] = "idle" /\ ~Active(x) /\ ~Early(x) /\ ~Opened(x)
  BY <1>0, <1>t DEF StopBegin, Active, Early, Opened
<1>p2. \A s \in Slots : slot[s].state = "ready" => slot[s].kind # "units"
  BY <1>0, <1>t, <1>p1 DEF Members, OfGroup
<1>p3. \A y \in Workers : Working(y) => slot[wSlot[y]].kind # "units"
  BY <1>0, <1>t, <1>p1, <1>p2 DEF Members, OfGroup
<1>p4. \A s \in Slots, x \in Callers : Unprocessed(s, x) => FALSE
  BY <1>0, <1>t, <1>p1, <1>p2, <1>p3 DEF Unprocessed, InRun, Working
<1>e1. stopPending = FALSE /\ stopPending' = TRUE /\ sPc = "idle" /\ sPc' = "wake" /\ running = TRUE
  BY <1>0, Flags DEF StopBegin, Phases
<1>e2. portable' = portable /\ running' = running /\ threadCount' = threadCount /\ enq' = enq
      /\ deq' = deq /\ enqOwner' = enqOwner /\ deqOwner' = deqOwner /\ readyEvt' = readyEvt
      /\ doneEvt' = doneEvt /\ slot' = slot /\ cPc' = cPc /\ call' = call /\ wPc' = wPc
      /\ wSlot' = wSlot /\ joined' = joined /\ wGroup' = wGroup /\ times' = times
      /\ broken' = broken /\ calls' = calls
  BY DEF StopBegin, flags, events, stop, history
<1>fA. \A x \in Callers : Active(x)' <=> Active(x)
  BY <1>0, <1>t, <1>e1, <1>e2, <1>p1, <1>p2, <1>p3, <1>p4 DEF Typing, Active, IsKeyCall
<1>fE. \A x \in Callers : Early(x)' <=> Early(x)
  BY <1>0, <1>t, <1>e1, <1>e2, <1>p1, <1>p2, <1>p3, <1>p4 DEF Typing, Early, IsKeyCall
<1>fW. \A y \in Workers : Working(y)' <=> (Working(y) /\ wPc[y] # "run")
  BY <1>0, <1>t, <1>e1, <1>e2, <1>p1, <1>p2, <1>p3, <1>p4 DEF Typing, Working
<1>fS. \A f, s \in Slots : Since(f, s)' <=> Since(f, s)
  BY <1>0, <1>t, <1>e1, <1>e2, <1>p1, <1>p2, <1>p3, <1>p4 DEF Typing, Since
<1>fR. \A s \in Slots : InRun(s)' <=> FALSE
  BY <1>0, <1>t, <1>e1, <1>e2, <1>p1, <1>p2, <1>p3, <1>p4 DEF Typing, InRun
<1>fT. \A x \in Callers : Waiting(x)' = Waiting(x)
  BY <1>0, <1>t, <1>e1, <1>e2, <1>p1, <1>p2, <1>p3, <1>p4 DEF Typing, Waiting
<1>fH. \A x \in Callers : Hands(x)' = Hands(x)
  <2>1. ASSUME NEW x \in Callers, NEW y \in Workers PROVE y \in Hands(x)' <=> y \in Hands(x)
    BY <1>0, <1>t, <2>1, <1>e1, <1>e2, <1>p1, <1>p2, <1>p3, <1>p4, <1>fW DEF Typing, Hands
  <2>2. \A x \in Callers : Hands(x)' \subseteq Workers /\ Hands(x) \subseteq Workers  BY DEF Hands
  <2> QED  BY <2>1, <2>2
<1>fU. \A s \in Slots, x \in Callers : Unprocessed(s, x)' <=> Unprocessed(s, x)
  BY <1>0, <1>t, <1>e1, <1>e2, <1>p1, <1>p2, <1>p3, <1>p4, <1>fW, <1>fR DEF Typing, Unprocessed
<1>g. \A x \in Callers : Opened(x) => Opened(x)' /\ call'[x].first = call[x].first
  BY <1>t, <1>e1, <1>e2, <1>p1, <1>p2, <1>p3, <1>p4, <1>fA DEF Typing, Opened, Active, IsKeyCall
<1>s. \A s \in Slots : (slot'[s].kind = slot[s].kind /\ slot'[s].owner = slot[s].owner
      /\ slot'[s].first = slot[s].first)
  BY <1>e1, <1>e2, <1>p1, <1>p2, <1>p3, <1>p4
<1>1. TypeOK'
  BY <1>0, <1>t, <1>e1, <1>e2, <1>p1, <1>p2, <1>p3, <1>p4, Flags, TypesKept, Constants DEF Typing
<1>2. Phases'
  BY <1>0, <1>t, <1>e1, <1>e2, <1>p1, <1>p2, <1>p3, <1>p4 DEF Typing, Phases
<1>3. Mutexes'
  BY <1>0, <1>t, <1>e1, <1>e2, <1>p1, <1>p2, <1>p3, <1>p4, PoolAssumption DEF Typing, Mutexes, Phases
<1>4. Division'
  <2>1. ASSUME NEW x \in Callers PROVE DivisionOf(x)'
    BY <1>0, <1>t, <2>1, <1>e1, <1>e2, <1>p1, <1>p2, <1>p3, <1>p4, <1>fA, <1>fE DEF Typing, Division,
          DivisionOf, Divided, IsKeyCall, Mutexes, Active, Early
  <2> QED  BY <2>1 DEF Division
<1>5. Groups'
  <2>1. ASSUME NEW x \in Callers PROVE GroupOf(x)'
    BY <1>0, <1>t, <2>1, <1>e1, <1>e2, <1>p1, <1>p2, <1>p3, <1>p4, <1>fA, <1>fE DEF Typing, Groups,
          GroupOf, OwnsFirst, Opened, IsFree, Mutexes, Division, DivisionOf, Active, IsKeyCall
  <2> QED  BY <2>1 DEF Groups
<1>6. Members'
  <2>1. ASSUME NEW s \in Slots, OfGroup(s) PROVE OfGroup(s)'
    BY <1>t, <2>1, <1>g, <1>s, <1>fS DEF Typing, OfGroup
  <2>2. \A s \in Slots : slot'[s].state = "ready" => slot[s].state = "ready"  BY <1>t, <1>e1, <1>e2,
        <1>p1, <1>p2, <1>p3, <1>p4 DEF Typing
  <2>3. \A y \in Workers : Working(y)' => wSlot'[y] = wSlot[y] /\ OfGroup(wSlot[y])
    BY <1>0, <1>t, <1>fW, <1>e1, <1>e2, <1>p1, <1>p2, <1>p3, <1>p4 DEF Typing, Members
  <2>4. \A s \in Slots : slot'[s].state = "ready" => OfGroup(s)'  BY <1>0, <2>1, <2>2 DEF Members
  <2>5. \A y \in Workers : Working(y)' => OfGroup(wSlot[y])'  BY <1>t, <1>fW, <2>1, <2>3 DEF Typing
  <2> QED  BY <2>4, <2>5 DEF Members
<1>7. Holding'
  <2>1. ASSUME NEW y \in Workers, Working(y)' PROVE Held(y)'
    BY <1>0, <1>t, <2>1, <1>e1, <1>e2, <1>p1, <1>p2, <1>p3, <1>p4, <1>fW DEF Typing, Holding, Held,
          Mutexes
  <2>2. \A y, z \in Workers : Working(y)' /\ Working(z)' /\ wSlot'[y] = wSlot'[z] => y = z
    BY <1>0, <1>t, <1>e1, <1>e2, <1>p1, <1>p2, <1>p3, <1>p4, <1>fW DEF Typing, Holding
  <2> QED  BY <2>1, <2>2 DEF Holding
<1>8. Counted'
  <2>1. ASSUME NEW x \in Callers, Active(x)' PROVE CountOf(x)'
    <3>1. Active(x)  BY <2>1, <1>fA
    <3>2. call'[x].left = call[x].left /\ call'[x].first = call[x].first  BY <1>t, <2>1, <3>1, <1>e1,
          <1>e2, <1>p1, <1>p2, <1>p3, <1>p4, <1>fA DEF Typing
    <3>3. slot'[call[x].first].count = slot[call[x].first].count  BY <1>t, <1>e1, <1>e2, <1>p1, <1>p2,
          <1>p3, <1>p4 DEF Typing
    <3> QED  BY <1>0, <3>1, <3>2, <3>3, <1>fT, <1>fH DEF Counted, CountOf
  <2> QED  BY <2>1 DEF Counted
<1>9. Completion'
  <2>1. ASSUME NEW s \in Slots, slot'[s].completed PROVE EventOf(s)'
    BY <1>0, <1>t, <2>1, <1>g, <1>s, <1>e1, <1>e2, <1>p1, <1>p2, <1>p3, <1>p4 DEF Typing, Completion,
          EventOf
  <2>2. ASSUME NEW y \in Workers, wPc'[y] = "signalItem" PROVE slot'[wGroup'[y]].count = 0
        /\ ~slot'[wGroup'[y]].completed
    BY <1>0, <1>t, <2>2, <1>e1, <1>e2, <1>p1, <1>p2, <1>p3, <1>p4 DEF Typing, Completion
  <2>3. \A y, z \in Workers : wPc'[y] = "signalItem" /\ wPc'[z] = "signalItem"
        /\ wGroup'[y] = wGroup'[z] => y = z
    BY <1>0, <1>t, <1>e1, <1>e2, <1>p1, <1>p2, <1>p3, <1>p4 DEF Typing, Completion
  <2> QED  BY <2>1, <2>2, <2>3 DEF Completion
<1>10. Units'
  <2>1. DOMAIN times' = Callers  BY <1>0, <1>e1, <1>e2, <1>p1, <1>p2, <1>p3, <1>p4 DEF Units
  <2>2. ASSUME NEW x \in Callers, Early(x)' \/ Active(x)' PROVE UnitsOf(x)'
    <3>1. (Early(x) \/ Active(x))  BY <2>2, <1>t, <1>e1, <1>e2, <1>p1, <1>p2, <1>p3, <1>p4, <1>fA,
          <1>fE DEF Typing
    <3>2. call'[x].size = call[x].size /\ call'[x].next = call[x].next /\ times'[x] = times[x]
          BY <1>e1, <1>e2, <1>p1, <1>p2, <1>p3, <1>p4, <3>1 DEF Early, Active, IsKeyCall
    <3>3. \A s \in Slots : Unprocessed(s, x) => Unprocessed(s, x)' /\ slot'[s].lo = slot[s].lo
          /\ slot'[s].hi = slot[s].hi
      BY <1>e1, <1>e2, <1>p1, <1>p2, <1>p3, <1>p4, <1>fU
    <3>4. UnitsOf(x)  BY <1>0, <3>1 DEF Units
    <3>5. \A u \in 1 .. call[x].size : Pending(x, u) => Pending(x, u)'  BY <3>3 DEF Pending
    <3> QED  BY <3>2, <3>4, <3>5 DEF UnitsOf
  <2>3. ASSUME NEW x \in Callers, IsKeyCall(x)', cPc'[x] # "idle" PROVE DOMAIN times'[x] = {}
    BY <1>0, <1>e1, <1>e2, <1>p1, <1>p2, <1>p3, <1>p4, <2>3 DEF Units, IsKeyCall
  <2>4. ASSUME NEW x \in Callers, cPc'[x] \in {"free", "signal", "idle"} PROVE AllOnce(x)'
    BY <1>0, <1>e1, <1>e2, <1>p1, <1>p2, <1>p3, <1>p4, <2>4 DEF Units, IsKeyCall, AllOnce
  <2> QED  BY <2>1, <2>2, <2>3, <2>4 DEF Units
<1>11. Fragments'
  <2>1. ASSUME NEW x \in Callers, Active(x)'
        PROVE  /\ \A s \in Slots : Unprocessed(s, x)' => FragmentOfCall(s, x)'
               /\ \A s, t \in Slots : Unprocessed(s, x)' /\ Unprocessed(t, x)' /\ s # t => Apart(s, t)'
    <3>0. Active(x) \/ Early(x)  BY <2>1, <1>fA, <1>e1, <1>e2, <1>p1, <1>p2, <1>p3, <1>p4 DEF Early
    <3>1. \A s \in Slots : Unprocessed(s, x) => Active(x)
      BY <1>0, <1>t DEF Typing, Unprocessed, InRun, Working, Members, OfGroup, Opened
    <3>2. call'[x].next = call[x].next /\ times'[x] = times[x]  BY <2>1, <3>0, <1>fA, <1>e1, <1>e2,
          <1>p1, <1>p2, <1>p3, <1>p4
    <3>3. \A s \in Slots : Unprocessed(s, x) => slot'[s].lo = slot[s].lo
          /\ slot'[s].hi = slot[s].hi  BY <1>e1, <1>e2, <1>p1, <1>p2, <1>p3, <1>p4
    <3>4. \A s \in Slots : Unprocessed(s, x)' => Unprocessed(s, x)  BY <1>fU
    <3>5. \A s \in Slots : Unprocessed(s, x) => FragmentOfCall(s, x)  BY <1>0, <3>1 DEF Fragments
    <3>6. \A s, t \in Slots : Unprocessed(s, x) /\ Unprocessed(t, x) /\ s # t => Apart(s, t)  BY <1>0,
          <3>1 DEF Fragments
    <3>7. \A s \in Slots : Unprocessed(s, x)' => FragmentOfCall(s, x)'  BY <3>2, <3>3, <3>4,
          <3>5 DEF FragmentOfCall
    <3>8. \A s, t \in Slots : Unprocessed(s, x)' /\ Unprocessed(t, x)' /\ s # t => Apart(s, t)'
          BY <3>3, <3>4, <3>6 DEF Apart
    <3> QED  BY <3>7, <3>8
  <2> QED  BY <2>1 DEF Fragments
<1>12. Exceptions'
  <2>1. ASSUME NEW x \in Callers PROVE ExceptionOf(x)'
    BY <1>0, <1>t, <2>1, <1>e1, <1>e2, <1>p1, <1>p2, <1>p3, <1>p4, <1>fA, <1>fE DEF Typing, Exceptions,
          ExceptionOf, IsKeyCall
  <2> QED  BY <2>1 DEF Exceptions
<1> QED  BY <1>1, <1>2, <1>3, <1>4, <1>5, <1>6, <1>7, <1>8, <1>9, <1>10, <1>11, <1>12 DEF PoolInv

\* No call is under way and nothing is in the ring.
LEMMA Starts == Init => PoolInv
<1> SUFFICES ASSUME Init PROVE PoolInv  OBVIOUS
<1>0. portable \in BOOLEAN /\ running = TRUE /\ stopPending = FALSE
      /\ threadCount = Cardinality(Workers)
      /\ enq = 0 /\ deq = 0 /\ enqOwner = NoOne /\ deqOwner = NoOne /\ readyEvt = FALSE
            /\ doneEvt = FALSE
      /\ sPc = "idle" /\ joined = {}
  BY DEF Init
<1>1. slot = [s \in Slots |-> EmptySlot] /\ call = [c \in Callers |-> IdleCall]
      /\ times = [c \in Callers |-> <<>>] /\ calls = [c \in Callers |-> 0]
  BY DEF Init
<1>2. wPc = [w \in Workers |-> "loop"] /\ wSlot = [w \in Workers |-> 0]
      /\ wGroup = [w \in Workers |-> 0]
  BY DEF Init
<1>3. cPc = [c \in Callers |-> "idle"] /\ broken = [c \in Callers |-> FALSE]  BY DEF Init
<1>4. EmptySlot \in SlotRecord /\ EmptySlot.state = "free" /\ EmptySlot.completed = FALSE
  BY Constants DEF EmptySlot, SlotRecord
<1>5. IdleCall \in CallRecord /\ IdleCall.size = 0 /\ IdleCall.left = 0 /\ IdleCall.next = 1
      /\ IdleCall.per = 0
      /\ IdleCall.threw = FALSE
  BY Constants DEF IdleCall, CallRecord
<1>6. \A s \in Slots : slot[s].state = "free" /\ slot[s].completed = FALSE  BY <1>1, <1>4
<1>7. \A c \in Callers : cPc[c] = "idle" /\ IsKeyCall(c) /\ ~Active(c) /\ ~Early(c) /\ ~Opened(c)
  BY <1>1, <1>3, <1>5 DEF IsKeyCall, Active, Early, Opened
<1>8. \A w \in Workers : wPc[w] = "loop" /\ ~Working(w)  BY <1>2 DEF Working
<1>9. TypeOK
  <2>1. slot \in [Slots -> SlotRecord] /\ call \in [Callers -> CallRecord]  BY <1>1, <1>4, <1>5
  <2>2. 0 \in 0 .. MaxCalls  BY PoolAssumption
  <2>3. cPc \in [Callers -> CallStates] /\ broken \in [Callers -> BOOLEAN]
        /\ calls \in [Callers -> 0 .. MaxCalls]
    BY <1>1, <1>3, <2>2 DEF CallStates
  <2>4. wPc \in [Workers -> WorkStates] /\ wSlot \in [Workers -> Slots] /\ wGroup \in [Workers -> Slots]
    BY <1>2, Constants DEF WorkStates
  <2>5. {portable, running, stopPending, readyEvt, doneEvt} \subseteq BOOLEAN  BY <1>0
  <2>6. enq \in Slots /\ deq \in Slots /\ enqOwner \in Callers \cup {NoOne}
        /\ deqOwner \in Workers \cup {NoOne}
        /\ threadCount \in {0, Cardinality(Workers)} /\ joined \subseteq Workers
        /\ sPc \in {"idle", "wake", "join", "reset", "stopped"}
    BY <1>0, Constants
  <2> QED  BY <2>1, <2>3, <2>4, <2>5, <2>6 DEF TypeOK, SlotRecord, CallRecord
<1>10. Phases  BY <1>0, <1>7 DEF Phases
<1>11. Mutexes  BY <1>0, <1>7, <1>8, PoolAssumption DEF Mutexes
<1>12. Division /\ Groups /\ Counted /\ Exceptions
  <2>1. \A c \in Callers : call[c].left = 0 /\ call[c].next = 1 /\ call[c].per = 0
        /\ call[c].threw = FALSE /\ broken[c] = FALSE
    BY <1>1, <1>3, <1>5
  <2>2. Division  BY <1>7, <2>1 DEF Division, DivisionOf
  <2>3. Groups  BY <1>7 DEF Groups, GroupOf
  <2>4. ASSUME NEW c \in Callers PROVE ExceptionOf(c)
    <3>1. call[c].threw = broken[c]  BY <2>1, Zenon
    <3> QED  BY <1>7, <3>1 DEF ExceptionOf
  <2> QED  BY <1>7, <2>2, <2>3, <2>4 DEF Counted, Exceptions
<1>13. Members /\ Holding /\ Completion /\ Fragments
  BY <1>6, <1>7, <1>8 DEF Members, Holding, Completion, Fragments
<1>14. Units
  <2>1. \A c \in Callers : times[c] = <<>> /\ DOMAIN times[c] = {}  BY <1>1
  <2>2. DOMAIN times = Callers  BY <1>1
  <2> QED  BY <1>7, <2>1, <2>2 DEF Units, AllOnce
<1> QED  BY <1>9, <1>10, <1>11, <1>12, <1>13, <1>14 DEF PoolInv

LEMMA Stutters == PoolInv /\ UNCHANGED vars => PoolInv'
<1> SUFFICES ASSUME PoolInv, UNCHANGED vars PROVE PoolInv'  OBVIOUS
<1>1. portable' = portable /\ running' = running /\ stopPending' = stopPending
      /\ threadCount' = threadCount
      /\ enq' = enq /\ deq' = deq /\ enqOwner' = enqOwner /\ deqOwner' = deqOwner
            /\ readyEvt' = readyEvt /\ doneEvt' = doneEvt
      /\ slot' = slot /\ cPc' = cPc /\ call' = call /\ wPc' = wPc /\ wSlot' = wSlot /\ sPc' = sPc
            /\ joined' = joined
      /\ wGroup' = wGroup /\ times' = times /\ broken' = broken /\ calls' = calls
  BY DEF vars, flags, events, stop, history
<1>2. TypeOK' /\ Phases' /\ Mutexes'  BY <1>1 DEF PoolInv, TypeOK, Phases, Mutexes
<1> QED  BY <1>1, <1>2, NobodyMoves DEF ring

LEMMA CallKept == ASSUME NEW c \in Callers, PoolInv, CallStep(c) PROVE PoolInv'
<1>1. CASE Lock(c)  BY <1>1, LockKept
<1>2. CASE First(c)  BY <1>2, FirstFreeKept, FirstWaitKept
<1>3. CASE Completed(c)
  <2>1. cPc[c] = "firstWait" \/ cPc[c] = "slotWait"  BY <1>3 DEF Completed
  <2> QED  BY <1>3, <2>1, CompletedFirstKept, CompletedSlotKept
<1>4. CASE Fill(c)  BY <1>4, FillWaitKept, FillKeyKept, FillUnitsKept
<1>5. CASE SignalReady(c)  BY <1>5, SignalReadyKept
<1>6. CASE Unlock(c)  BY <1>6, UnlockKept
<1>7. CASE AwaitItem(c)  BY <1>7, AwaitItemKept
<1>8. CASE FreeFirst(c)  BY <1>8, FreeFirstKept
<1>9. CASE SignalFreed(c)  BY <1>9, SignalFreedKept
<1> QED  BY <1>1, <1>2, <1>3, <1>4, <1>5, <1>6, <1>7, <1>8, <1>9 DEF CallStep

LEMMA RunKept == ASSUME NEW w \in Workers, PoolInv, Run(w) PROVE PoolInv'
<1>0. Typing  BY Typed DEF PoolInv
<1>1. slot[wSlot[w]].kind = "units" \/ slot[wSlot[w]].kind = "key"  BY <1>0 DEF Typing
<1> QED  BY <1>1, RunDropKept, RunKeyKept, RunQuietKept, RunThrowKept

LEMMA WorkKept == ASSUME NEW w \in Workers, PoolInv, WorkStep(w) PROVE PoolInv'
<1>1. CASE Loop(w)  BY <1>1, LoopKept
<1>2. CASE Dequeue(w)  BY <1>2, DequeueKept
<1>3. CASE Check(w)  BY <1>3, CheckKept
<1>4. CASE Ready(w)  BY <1>4, ReadyKept
<1>5. CASE Take(w)  BY <1>5, TakeItemKept, TakeStopKept
<1>6. CASE Run(w)  BY <1>6, RunKept
<1>7. CASE FreeSlot(w)  BY <1>7, FreeSlotUnitsKept, FreeSlotKeyKept
<1>8. CASE SignalSlot(w)
  <2>1. wPc[w] = "signalSlot" \/ wPc[w] = "signalKey"  BY <1>8 DEF SignalSlot
  <2> QED  BY <1>8, <2>1, SignalSlotUnitsKept, SignalSlotKeyKept
<1>9. CASE Count(w)  BY <1>9, CountKept
<1>10. CASE SignalItem(w)  BY <1>10, SignalItemKept
<1> QED  BY <1>1, <1>2, <1>3, <1>4, <1>5, <1>6, <1>7, <1>8, <1>9, <1>10 DEF WorkStep

-----------------------------------------------------------------------------
(***************************************************************************)
(* Theorems                                                                 *)
(***************************************************************************)

\* Whatever the pool, its callers and its threads do, the invariant above
\* holds: the count of a group is that of its fragments under way, and each
\* unit is in one fragment until it was processed.
THEOREM Invariance == Spec => []PoolInv
<1>1. PoolInv /\ [Next]_vars => PoolInv'
  <2> SUFFICES ASSUME PoolInv, [Next]_vars PROVE PoolInv'  OBVIOUS
  <2>1. ASSUME NEW c \in Callers, NEW n \in UnitCounts, CallDoWork(c, n) PROVE PoolInv'
    <3>1. CASE ~running \/ n = 1  BY <2>1, <3>1, CallDoWorkDirectKept
    <3>2. CASE running /\ n # 1  BY <2>1, <3>2, CallDoWorkPoolKept
    <3> QED  BY <3>1, <3>2
  <2>2. ASSUME NEW c \in Callers, CallBegin(c) PROVE PoolInv'  BY <2>2, CallBeginKept
  <2>3. ASSUME NEW c \in Callers, CallStep(c) PROVE PoolInv'  BY <2>3, CallKept
  <2>4. ASSUME NEW w \in Workers, WorkStep(w) PROVE PoolInv'  BY <2>4, WorkKept
  <2>5. CASE StopBegin  BY <2>5, StopBeginKept
  <2>6. CASE StopStep  BY <2>6, StopWakeKept, StopJoinKept, StopResetKept DEF StopStep
  <2>7. CASE UNCHANGED vars  BY <2>7, Stutters
  <2> QED  BY <2>1, <2>2, <2>3, <2>4, <2>5, <2>6, <2>7 DEF Next
<1> QED  BY Starts, <1>1, PTL DEF Spec

\* Every variable keeps its type: positions stay in the ring, and neither the
\* count of a group nor the fragments left of a call go below zero.
\* (EncryptionThreadPoolDoWork, EncryptionThreadProc.)
THEOREM TypesHold == Spec => []TypeOK
<1>1. PoolInv => TypeOK  BY DEF PoolInv
<1> QED  BY Invariance, <1>1, PTL

\* A worker that has set its slot free still counts its fragment off from the
\* group it took it from, whoever fills the slot meanwhile.
THEOREM CountsItsGroup == Spec => []OwnGroupCounted
<1>1. PoolInv => OwnGroupCounted
  <2> SUFFICES ASSUME PoolInv, NEW w \in Workers, wPc[w] \in {"signalSlot", "count", "signalItem"}
               PROVE  /\ slot[wSlot[w]].first = wGroup[w]
                      /\ slot[wGroup[w]].state # "free"
                      /\ \E c \in Callers : /\ call[c].first = wGroup[w] /\ ~IsKeyCall(c)
                                            /\ cPc[c] \in {"next", "slotWait", "ready", "unlock",
                                                  "await"}
    BY DEF OwnGroupCounted
  <2>1. Working(w)  BY DEF Working
  <2>2. Held(w) /\ OfGroup(wSlot[w])  BY <2>1 DEF PoolInv, Holding, Members
  <2>3. slot[wSlot[w]].first = wGroup[w] /\ slot[wSlot[w]].kind = "units"  BY <2>2 DEF Held
  <2>4. PICK c \in Callers : Opened(c) /\ wGroup[w] = call[c].first  BY <2>2, <2>3 DEF OfGroup
  <2>5. OwnsFirst(c) /\ Active(c)  BY <2>4 DEF PoolInv, Groups, GroupOf, Opened
  <2> QED  BY <2>3, <2>4, <2>5 DEF OwnsFirst, Active
<1> QED  BY Invariance, <1>1, PTL

\* DoWork returns when each unit was encrypted or decrypted once, none twice.
THEOREM UnitsProcessedOnce == Spec => []EachUnitOnce
<1>1. PoolInv => EachUnitOnce
  <2> SUFFICES ASSUME PoolInv PROVE EachUnitOnce  OBVIOUS
  <2>0. Typing  BY Typed DEF PoolInv
  <2>1. ASSUME NEW c \in Callers
        PROVE  \A u \in DOMAIN times[c] :
                 /\ times[c][u] <= 1
                 /\ cPc[c] \in {"free", "signal", "idle"} => times[c][u] = 1
    <3>1. CASE cPc[c] \in {"free", "signal", "idle"}
      <4>1. AllOnce(c)  BY <3>1 DEF PoolInv, Units
      <4> QED  BY <4>1 DEF AllOnce
    <3>2. CASE cPc[c] \notin {"free", "signal", "idle"} /\ IsKeyCall(c)
      BY <3>2 DEF PoolInv, Units
    <3>3. CASE cPc[c] \notin {"free", "signal", "idle"} /\ ~IsKeyCall(c)
      <4>1. Early(c) \/ Active(c)  BY <2>0, <3>3 DEF Early, Active, Typing, CallStates
      <4>2. times[c] \in [1 .. call[c].size -> {0, 1}]  BY <4>1 DEF PoolInv, Units, UnitsOf
      <4>3. \A u \in DOMAIN times[c] : times[c][u] = 0 \/ times[c][u] = 1  BY <4>2
      <4> QED  BY <3>3, <4>3
    <3> QED  BY <3>1, <3>2, <3>3
  <2>2. ASSUME NEW s \in Slots, slot[s].state = "ready", slot[s].kind = "units"
        PROVE  slot[s].hi <= call[slot[s].owner].size
    <3>1. PICK c \in Callers : c = slot[s].owner /\ Opened(c) /\ Active(c)
      BY <2>2 DEF PoolInv, Members, OfGroup, Opened
    <3>2. FragmentOfCall(s, c)  BY <2>2, <3>1 DEF PoolInv, Fragments, Unprocessed
    <3>3. Divided(call[c]) /\ call[c] \in CallRecord  BY <2>0, <3>1 DEF PoolInv, Division, DivisionOf,
          Typing
    <3>4. call[c].next <= call[c].size + 1  BY <3>3, DividedEnds
    <3>5. slot[s].hi \in Nat /\ call[c].next \in Nat /\ call[c].size \in Nat  BY <2>0 DEF Typing
    <3> QED  BY <3>1, <3>2, <3>4, <3>5 DEF FragmentOfCall
  <2> QED  BY <2>1, <2>2 DEF EachUnitOnce
<1> QED  BY Invariance, <1>1, PTL

\* DoWork throws exactly when one of its own fragments threw.
THEOREM ExceptionsReported == Spec => []ExceptionReported
<1>1. PoolInv => ExceptionReported  BY DEF PoolInv, Exceptions, ExceptionOf, ExceptionReported
<1> QED  BY Invariance, <1>1, PTL
==============================================================================
