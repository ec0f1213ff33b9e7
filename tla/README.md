# A TLA+ model of VeraCrypt's core

This directory specifies, model-checks and proves properties of the VeraCrypt
sources kept in this repository (`src/VeraCrypt/src`; paths below are relative
to it). The repository adds a script that builds a hidden volume and a thin D
port to VeraCrypt; the program logic, and all of the concurrency, is
VeraCrypt's own.

Contents: the system's inventory, the modules, the runs, the proofs, what the
checks found, and what is left.

## 1. Inventory

| component | state it keeps | operations | hard behaviour | what makes it correct |
|---|---|---|---|---|
| Encrypted I/O queue, `Driver/EncryptedIoQueue.c` | three thread queues, counters, events, two fragment buffers, read-ahead buffer, pool, work items | add an IRP, hold when idle, resume, stop; three threads and work items | four kinds of thread on lock-free flags and synchronization events | transparent disk, quiescent hold, exact counts, complete drain |
| Drive filter, `Driver/DriveFilter.c` | encrypted area, header copy, setup status, mounted or not | mount, encrypt or decrypt in the background, abort, reopen the header, power events, dismount | rewrites blocks under running I/O; power loss between header saves; many control codes at once | a restart finds what it wrote, success is saved, every setup and abort ends |
| Boot encryption control, `Common/BootEncryption.cpp` | none of its own | start, abort, change the password | reads the header, works, writes it back, while another program starts a setup | writes back no stale header |
| In-place encryption, `Format/InPlace.c` | a header at each end, a count in the configuration | encrypt, resume, decrypt, scan | the file system moves; torn writes; the pause | no unit lost or transformed twice, nothing left behind |
| Creation, `Common/Format.c` | the file or device, the writer thread | create, quick and full | two events and one buffer between the threads | success means written |
| Expansion, `ExpandVolume/ExpandVolume.c` | host size, two headers | expand | failing steps, crashes | a header opens the volume at any time |
| Hibernation filter, boot loader, `Driver/DumpFilter.c`, `Boot/Windows/BootEncryptedIo.cpp` | the encrypted area, the moved partition | dump write, interrupt 13 | region arithmetic written anew in each | same places and unit numbers as the queue |
| Volume device and dispatcher, `Driver/Ntvol.c`, `Ntdriver.c` | mounted volumes, keys | open, close, mount list, control codes | several control requests at once, rollback of a failed mount | one owner per slot, nothing left behind |
| Encryption thread pool, `Common/EncryptionThreadPool.c`, `Volume/EncryptionThreadPool.cpp` | ring of work items, two positions, two events | DoWork, BeginKeyDerivation, Start, Stop; worker | many waiters on auto-reset events, slot reuse | each unit once, each group counted once, no one left asleep |
| Header reading, `Common/Volumes.c` | key derivation items, counter, two events | ReadVolumeHeader | results in any order, full queue, freeing after the workers | every PRF tried once, result names its PRF, freed last |
| Wizards, `Format/Tcformat.c`, `Mount/Mount.c` | a mutex, the configuration | start, pause and resume of conversions | two programs at once | at most one conversion; the count says what is unfinished |
| Password cache, `Common/Cache.c`, `Volume/VolumePasswordCache.cpp` | fixed slots, next index, PIMs | read header with cache, add, wipe | replacement, PIM updates | newest kept, no duplicates |
| Random pool, `Common/Random.c`, `Core/RandomNumberGenerator.cpp` | pool, two indices | add, mix, get | wrap-around, concurrent adders | no byte given out unmixed |
| Portable volumes, `Volume/Volume.cpp`, `VolumeLayout.cpp`, `VolumeHeader.cpp` | one open volume | open, read, write, re-encrypt header | layout order, protection | hidden data never written |
| Core and service, `Core/`, `Core/Unix/CoreService.cpp` | mounted list, pipes | mount, dismount; elevated requests | partial failure and rollback; two processes | answer matches request, mount undone on failure |
| Fuse service, `Driver/Fuse/FuseService.cpp` | the volume, slot, auxiliary control file | mount, read, write, control, close | requests during unmount | I/O only while open |
| Rest: file systems, keyfiles, tokens, cryptography, user interfaces, installers, D port, script | | | | not concurrent, or formats, system calls and pure functions |

How they interact. A dispatch routine of the filter or the volume device calls
`EncryptedIoQueueAddIrp`; the queue's main and completion threads call
`EncryptionThreadPoolDoWork`. The setup thread of the filter holds the queue,
transforms a block through the pool, moves `EncryptedAreaEnd`, resumes the
queue and now and then saves the header. The wizard and the main program start
and abort it, and change the password, through control codes that the
dispatcher serves under the root device mutex; so do the power and shutdown
handlers, which also call `EncryptedIoQueueStop`. After a power loss the boot
loader, then the filter, read the header that was saved. What the hibernation
filter and the boot loader write the queue reads back. Mounting calls
`ReadVolumeHeaderWCache`, then `ReadVolumeHeader`, which calls
`EncryptionThreadPoolBeginKeyDerivation` and is answered through a flag, two
events and a counter; a header that an in-place conversion has left unfinished
is refused. In the portable program, `CoreUnix::MountVolume` opens a `Volume`,
hands it to `FuseService`, and asks `CoreService` for what needs privileges.
`PROJECT.json` lists each component with its status, and each hazard with its
line.

## 2. Modules

| module | models | lines |
|---|---|---|
| `TransparentDisk` | abstract: what clients of the queue are promised | 96 |
| `SafeConversion` | abstract: what a conversion of a disk in the background promises | 39 |
| `EncryptedIoQueue` | the queue, its threads, hold, setup block, stop | 800 |
| `EncryptedIoQueue_pipeline` | where the requests are; counts; hold; work items | 1550 |
| `EncryptedIoQueue_resources` | pool, fragment buffers, stop, medium, read-ahead, hidden volume protection, types; it implements `TransparentDisk` | 4496 |
| `SystemEncryption` | encryption and decryption of the system drive, with the programs, power and crashes around it | 607 |
| `SystemEncryption_proofs` | its inductive invariant and what follows; it implements `SafeConversion` | 1753 |
| `InPlaceEncryption` | conversion of a partition, with the wizard and a mount | 510 |
| `InPlaceEncryption_proofs` | its inductive invariant and what follows; it implements `SafeConversion` | 2975 |
| `VolumeFormat` | creation and enlargement, with the writer thread | 387 |
| `VolumeFormat_proofs` | an enlargement keeps the volume open; success means written | 1450 |
| `DiskRegions` | where the bytes of one request go, in queue, hibernation filter and boot loader | 156 |
| `DiskRegions_proofs` | the three agree | 590 |
| `EncryptionThreadPool` | both thread pools | 392 |
| `EncryptionThreadPool_proofs` | its inductive invariant and what follows | 5873 |
| `HeaderKeyDerivation` | ReadVolumeHeader with the pool's workers | 269 |
| `HeaderKeyDerivation_proofs` | theorems about the PRFs tried, the items reused, the counters and the result | 1116 |
| `MC*` | operations and symmetry sets for TLC | |

In the models of threads an action is one access to something another
thread sees (an interlocked operation, a list operation under its lock, an
event, a device transfer), with the thread-local code around it; a thread's
place is a `pc` value. In the models of disks that a crash may stop, an action
is one write, with what leads to it. A definition `X_Fault`, placed next to
`X`, is `X` with a plausible bug; no action uses one. They record which property
would catch the bug, and `PROJECT.json` pairs each with its property.

### EncryptedIoQueue

State: `outstanding`, `ioPending`, `suspendPending`, `suspended`,
`stopPending` and the rest are the fields of `EncryptedIoQueue`; `evt` has
the events by name, synchronization events being consumed by `Await`;
`mainQ`, `ioQ` and `compQ` are the three lists; `items` and `requests` are the
pool buffers in use; `sem` and `freeWork` are the work item semaphore and the
length of `FreeWorkItemsList`, kept apart because the code changes them in
different steps. `served` and `arrival` are history.

Actions, by thread: `AddIrp*` is `EncryptedIoQueueAddIrp`; `Main*` is
`MainThreadProc`, with its checks, denial of writes, hidden volume protection,
fragments and buffer acquisition; `Io*` is `IoThreadProc` with read-ahead;
`Comp*` is `CompletionThreadProc`; `Work*` is `CompleteIrpWorkItemRoutine`;
`Hold*`, `Setup*` and `Resume` are `EncryptedIoQueueHoldWhenIdle`, one block
of `SetupThreadProc` and `EncryptedIoQueueResumeFromHold`; `Stop*` is
`EncryptedIoQueueStop`.

Abstractions. A fragment is one block. A block's contents are the fragment
last written to it and whether it lies encrypted; decrypting plain data makes
it unreadable. The encrypted area is a prefix of the device, its start fixed at
0. `aligned` stands for a whole-sector offset and length. A transfer may fail
only where `MayFail` is set. Fragments that lie partly in
the encrypted area, remapped fragments and the guard of the substituted sectors
are in `DiskRegions`. Not modelled: the start of the queue and allocation
failure.

### TransparentDisk and the refinement

The abstract disk has no cipher, threads, buffers or holds: IRPs are submitted,
served in arrival order block by block and answered once. `IsTransparentDisk`
in `EncryptedIoQueue` instantiates it with contents stripped of the cipher. It
says that neither read-ahead, nor fragments in two buffers, nor re-encryption
under a hold can be told from a plain disk: reads return the value last
written in arrival order, also when a fragment fails. A misaligned read is
exempt from the order (`ReadAtOnce`), since the code serves it in the main
thread, past requests that are queued.

### SystemEncryption and SafeConversion

`SystemEncryption` has the setup of `DriveFilter.c` end to end, with the queue
seen only through its hold, which `EncryptedIoQueue` models in detail and
which ends there by `HoldEnds`. State: `disk` is what lies on each unit,
`"plain"`, `"cipher"` or `"bad"`; `header` the record on the disk; `area` the
encrypted area of the queue; `pc` to `result` and `buffer` the setup thread;
`request`, `inProgress`, `abort`, `mutex` the control of a setup; `sysEnc` and
`change` the two programs.

`Begin` to `End` are `SetupThreadProc` and its epilogue: hold, read, wipe
passes, write, undo of a failed write, bad units left alone, the move of the
area, saves of the header every `Threshold`, the final save, the dismount after
a decryption. `StartBootEncryptionSetup`, `AbortRequest` and `AbortReturn`,
`ReopenBootVolumeHeader` and `EmergencyClearAllKeys` are the control codes;
`CreateSysEncMutex`, `Resume`, `Pause` and `Change*` the wizard and the main
program; `Shutdown`, `PowerAborts`, `PowerOff`, `PowerLoss` and `Boot` the
power and the restart.

`SafeConversion` is what the user is told: a unit that was intact stays intact
while the conversion is paused, resumed, reversed or undone, and a power loss
costs at most `Tolerance` units. Nothing is promised once `excused`, that is after
a block that can neither be written nor won back, a header that is not saved,
or keys erased on request. Its instance in `SystemEncryption` takes for intact
the units that the area in memory, or after a restart the header, tells how to read.

### InPlaceEncryption

The file system fills positions `0 .. N - 1` while plain and `O .. O + N - 1`
while encrypted, so that each unit moves by `O` into units that were read
before. Encryption goes backwards and decryption forwards; the backup header at
the end, with the length of the area, is all that tells which layout a unit
has. `WriteBackupHeader` to `Register` are `EncryptPartitionInPlaceBegin`;
`OpenVolume`, the loop `ReadChunk` to `FinalUpdate`, `Pause` and the last steps
`WritePrimaryHeader`, `RevealNTFS`, `ZeroRest`, `Unregister`, `Close` are
`EncryptPartitionInPlaceResume` and `DecryptPartitionInPlace`; `StartEncryption`
to `ExitWizard` are the wizard, with the number of conversions that it keeps in its
configuration file (`count`). `MountAccepts` is the test in `TCOpenVolume`,
`ScanFinds` that of the wizard's search. A crash tears the write on its way:
any part of it may have reached the disk.

The conversion refines the same `SafeConversion`, with the units by which the
header may lag as the tolerance. That instance compares layouts only: a unit 0
that decrypts to the concealed file system counts as readable there, since the
concealing can be undone. What the concealing and the count in the
configuration file do is said by `TracesAgree`, in terms of `found`: whether the
file system was visible, and the conversion not counted, when a header with
nothing encrypted was last opened. A first encryption finds a concealed file system
that is counted; one resumed after a crash between the backup header and the
concealing or the count does not, and the property says what becomes of it.
`ResumedSafely` is what a comment in the code says without such a condition, and
fails (section 5).

### VolumeFormat

The host is a function from units to what is on them: headers, the files of the volume
that is enlarged, written units in their place or not. `CreateVolume` and
`PrimaryFirst` begin `TCFormatVolume`, `ExpandVolume` and `Grow` the
enlargement; both share the filling of the data area, its end (`Filled`, with
the rollback of a file's size) and the headers. `FlushToThread`, `WriterLoops`, `WriterWakes`,
`WriterWrites`, `Stop` and `Join` are `FlushFormatWriteBuffer`,
`FormatWriteThreadProc` and `StopFormatWriteThread`: one buffer, two
synchronization events, and a result that is read a buffer later. Any write
may fail, done or not; `ProcessDies` may come at any step and tears the write on
its way.

### DiskRegions

Pure operators on one request, in sectors, translated from each of the places
that compute them: `GetIntersection` and `RegionsOverlap`; the cutting into
fragments; the first unit and length to encrypt; the transfers of a remapped
fragment; the guard of the substituted sectors; the same of `DumpFilterWrite`,
of the older filter and of the boot loader, with and without a hidden system.
The properties are statements about all integers, so that the module has
theorems and no run. Lengths and ends that the code keeps in 32 bits are reduced
modulo `Word`.

### EncryptionThreadPool

`slot` is `WorkItemQueue`; `CallDoWork`, `Lock`, `First`, `Fill`, ...,
`SignalFreed` are `EncryptionThreadPoolDoWork`; `CallBegin` enters the same
path as `EncryptionThreadPoolBeginKeyDerivation`; `Loop` ... `SignalItem` are
the worker; `Stop*` is Stop. The C++ pool has the same steps: where
`portable`, chosen at the start, holds, fragments may throw and there is no key
derivation, which is how that pool differs. `KeyCallers` bounds who derives
keys. Why a slot may be set free before its
`FirstFragment` is read: to refill it the ring must come around past the
group's first slot, and that slot is busy until the group is counted.

Assumption: `EncryptionThreadPoolStop` starts when no call is under way and no
call starts until it is over (driver unload, program exit). The code does not
guard against a caller that breaks this (see the hazards).

### HeaderKeyDerivation

`rPc` walks through the loop of `ReadVolumeHeader`, including the decrement of
the loop counter when the queue is full; `item` is `keyDerivationWorkItems`;
the workers' steps are the `DeriveKeyWork` case of the pool's thread. A key
is the PRF that made it, or 0 when the derivation was aborted; what the header
makes of each PRF's key is fixed at the start.

## 3. Runs

All bounds are in the `.cfg` files; every run takes less than four minutes with two
workers. Deadlock is checked in `sysenc` and `volume_jobs`: there, no thread
waits for another for ever until every job is over. It is off in the others, where the bounded
clients run out of requests and a stopped queue or pool ends.

| run | bounds | states | checks |
|---|---|---|---|
| `queue_hold` | filter device, 2 IRPs of one block (read or write), 1 hold with timeout | 1,020,089 | `TypeOK`, `HeldMeansQuiescent`, `MediumMatchesArea`, `ReadAheadCoherent`, `IsTransparentDisk` |
| `queue_volume` | mounted volume of 3 blocks, the last one protected, 2 IRPs of one to three fragments, reads and writes, transfers that fail part way, IRPs cancelled, out of range, 3 pooled requests | 959,073 | `ProtectionHolds`, `FragmentBuffersExclusive`, `PoolBuffersLive`, `IsTransparentDisk` |
| `queue_live` | filter device of one block, 1 write and 1 read that may be misaligned, 1 work item, 2 pooled items, 1 pooled request, 1 hold without timeout or a stop at any time, fair | 505,768 | `WorkItemAvailable`, `StopDrains`, `OutstandingExact`, `EveryIrpCompletes`, `HoldEnds`, `StopEnds` |
| `queue_free` | 1 IRP and a stop | | `PoolIdleWhenFreed` is violated |
| `pool_work` | either pool, 2 callers, 2 calls each of 1 or 3 units, one of them also derives keys, 2 workers, ring of 2, throws in the C++ pool, a stop, fair | 838,937 | `TypeOK`, `OwnGroupCounted`, `EachUnitOnce`, `ExceptionReported`, `CallsReturn`, `StopReturns` |
| `key_pool` | 3 PRFs, 2 at a time, 2 workers, fair | 97,195 | `TypeOK`, `EveryPrfTriedOnce`, `ResultNamesPrf`, `FreeItemsUntouched`, `ReaderReturns` |
| `key_free` | the same, without fairness | | `FreedAfterWorkers` is violated |
| `sysenc` | drive of 3 units, blocks of 2, header saved after 2, 2 setups in either direction, 1 power loss, 1 shutdown, 1 failure, 1 password change, fair | 992,896 | `TypeOK`, `SuccessIsSaved`, `NoStaleHeaderWrite`, `IsSafeConversion`, `AbortReturns`, `SetupEnds` |
| `inplace` | 7 units moved by 2, chunks of 3, header updated after 6, 3 starts or resumptions, 1 failure, 2 power losses | 793,491 | `TypeOK`, `FinishedLeavesNothing`, `TracesAgree`, `MountTellsTruth`, `IsSafeConversion` |
| `inplace_defer` | 5 units moved by 1, chunks of 2, 2 starts, no fault | | `DeferredIsFound` is violated |
| `inplace_conceal` | 5 units moved by 1, chunks of 2, 2 starts, 1 power loss once the backup header is found valid (`LossAfterCheck`) | | `ResumedSafely` is violated |
| `volume_jobs` | volumes of 4, 6 and 9 units, buffers of 2, 3 jobs, 2 failures, 2 crashes | 199,661 | `TypeOK`, `SuccessMeansWritten`, `VolumeOpens` |

Why the bounds are enough. Two IRPs are the least that let one be in the
pipeline while another is before the gate, and let a read follow a write to the
same block; two reads to the end make a read-ahead. In `queue_volume` a request
of three fragments comes back to the first of the two fragment buffers while it
may be in use, since three requests are pooled, and has fragments that do not
complete their IRP; with one pooled item the next IRP waits for it. A device of
two blocks with one of them encrypted lets the setup thread move the area up and
down. In `queue_live` the I/O thread completes the write and the completion
thread the read, so that with one work item each comes to wait for it while it
is in use for the other's IRP (TLC reaches both waits), and one pooled request
makes the main thread wait for the pool. Three units over two workers leave a
remainder and, on a ring of two slots, make groups straddle its end and reuse
slots of a group under way; two callers wait for each other's slots. Three PRFs
with two derivations at a time fill the queue, so that the loop counter is set
back.

A drive of three units in blocks of two has a last block that is short, and a
header saved after two units lags behind by a unit or is just saved; two setups
let a decryption undo an encryption half way, and a power loss before, between or in
them. A file system of seven units that moves by two in chunks of three has a first chunk,
a last short one and one between them, with the header updated before
each second one. Sizes of four, six and nine make the new area smaller and
larger than two buffers, with an end that fills no buffer; three jobs leave the
stale headers of two enlargements.

What these runs do not reach: two holds in a row, three IRPs in the pipeline, a
stop between two fragments of an IRP (`StopDrains` is a theorem for any
fragments), more workers than fragments plus one, more than two power losses of
one conversion.

Fairness. Each thread of the driver or pool is weakly fair as a whole: the
scheduler runs a runnable thread and a device transfer ends. System workers
run queued work items. Nobody is obliged to submit, hold or stop. Where two
threads wait for one synchronization event, weak fairness of each thread lets
either consume it, so that a property that needs a certain waiter to win would
fail. `ReaderReturns` assumes that a derivation ends. `sysenc` has weak
fairness of the setup thread and of the return of an abort that has been granted;
the programs are not obliged to do anything. `inplace` and
`volume_jobs` state no fairness. `queue_live` has the constraint `HoldOrStop`: of behaviours with a hold
and a stop it says nothing, since the shutdown handler aborts a setup before it
stops the queue (`Driver/Ntdriver.c:547`), and a plug-and-play removal in the middle of a setup
may indeed hang (section 5).

## 4. Proofs

`EncryptedIoQueue_pipeline` proves, at its end,

    THEOREM WorkItemsSuffice == Spec => []WorkItemAvailable

for any IRPs, operations, device and numbers of buffers and work items, from
the two assumptions on the constants. `HandleCompleteOriginalIrp` takes the
head of the list of free work items after waiting for a semaphore and never
tests whether the list is empty; work items come back in the reverse order,
list first and semaphore second, from several system threads.

The property is not inductive: that a thread finds an item depends on what the
semaphore allows and on the items in between. The invariant is

    WorkTypes:   the types of the few variables involved, phases and places
    WorkAccount: sem + [io past it] + [comp past it]
                     + |work items returned but not posted| <= freeWork

An item that is in the list and not in the semaphore belongs to a thread about
to take it or a work item about to post. Each step keeps the balance: waiting
moves one from the semaphore to a thread, taking removes one from thread and
list, returning adds one to the list and to the posting items, posting moves
one to the semaphore. The lemmas: `DispatchingCount` (the cardinality in the
property is the sum of the two threads), `PostingFinite`, `WorkUntouched` for
the actions that leave these variables alone, and one for each thread.

`EncryptedIoQueue_pipeline` and `EncryptedIoQueue_resources` prove the other
safety invariants of the queue. All rest on where the
requests in flight are, which `PipelineKept == Spec => []PipeInv` says:

    InOrder:   the fragments of an IRP rise from the completion thread's hands,
               through its queue and the I/O thread's hands, to the end of the
               I/O queue; so the last one to be handled is the last of the IRP
    Stations:  an IRP with a fragment in flight was taken, only reads go to the
               completion thread, only last fragments come to a completion
    MainPlace: an IRP is in the main queue once, or with the main thread, which
               has sent the fragments below `mFrag`, or only in flight

None of the properties is inductive by itself: that a last fragment may
complete the IRP, return the item and decrement the count depends on no other
fragment being behind it, and that depends on the order of both queues and of
what the two threads hold. On top of it:

| theorem | invariant added |
|---|---|
| `OutstandingIsExact` | `OutstandingExact` itself: a step moves one IRP, or the read-ahead, in or out of the sets it counts |
| `HoldIsQuiescent` | `HoldInv`: a hold that has found the count zero has `suspended` set and `resumed` cleared, so that nobody comes past the gate; the exact count gives that nobody was |
| `PoolBuffersStayLive` | `PoolInv`: the requests in use are those in flight and the one being filled; the items in use include those of every queued IRP that needs one |
| `StopIsClean` | `StopInv`: what `EncryptedIoQueueStop` has waited for so far, by its place; `ActiveWorkItems` counts the working work items |
| `FragmentBuffersNeverShared` | `BufInv`: a buffer in the I/O queue or under transfer is not free and no other such request has it |
| `MediumAlwaysMatchesArea`, `ReadAheadStaysCoherent` | `MediumInv`: what each request has in its buffer was encrypted for the area as it is now (`ReadyInv`); one block differs between the write of the setup thread and the move of the area (`Turned`); the read-ahead is invalid while a client owns the medium |
| `HiddenVolumeProtected` | `ArrivalInv`: IRPs are decided in the order of arrival, so that those not decided yet are its tail; `StatusInv`: their status is still good, and after a denied write to the protected area every later write that was decided is denied or failed; `SparedInv`: fragments in flight and what the main thread is splitting cover no protected block when they write, and the setup thread puts back what it has read |
| `TypesHold` | `TypesInv`: one part for each group of variables; the counters of work items are bounded because `freeWork`, the items at work and those about to return make up `MaxWorkItems`, and addresses because a fragment was checked against the device before it was split |
| `QueueIsDisk` | `ServedInv`, `TurnInv` and `PlainInv`, see below |

`ReadyInv` is the reason for the hold: a request that was encrypted before the
end of the area moved would be written wrong after it. It survives the move
because a hold leaves no request in flight. The steps of the main, I/O and
completion threads have one lemma each; `PipeAside`, `PoolAside` and their like
serve the actions that touch none of these variables.

`QueueIsDisk == Spec => IsTransparentDisk` is the sum of it: for any IRPs, operations,
encrypted area, holds, failures and stops, the queue with the setup thread implements
`TransparentDisk`. Three more invariants relate what the abstract disk sees to
where the requests are:

    ServedInv: of an IRP that is not answered, the fragments handed over
               (`Handed`) and not yet served are exactly those to be
               transferred; so the next one to be served is the next in number
    TurnInv:   requests are transferred in the order in which their IRPs
               arrived; what the main thread hands over arrived last
    PlainInv:  a good read has in its buffer one block for each fragment
               served, and one that is still encrypted has a request on its way
               to the completion thread

`InTurn` concludes that whatever arrived before the IRP under transfer is answered
or served to its end, `CompletingServed` and `CompletingPlain` that an IRP comes to its
work item served to the end and decrypted. The mapping is in two halves: `DiskSubmit`
to `DiskReadAtOnce` say what a step has to do to the mapped variables to be
that action of the disk, `InsertSubmits` to `ReadReads` show it of the steps of the
queue: insertion submits, the transfer of the I/O thread writes, reads, fails or skips,
the first step of the work item completes. All others are stutters
(`DiskStutters`), also the rewriting of a block by the setup thread, which changes only
whether it lies encrypted, and the decryption of a fragment that was read. A read takes what
the device holds, from the read-ahead buffer or not, by `ReadAheadCoherent`; it
is turned by the cipher exactly once, by `MediumMatchesArea`.

`HeaderKeyDerivation_proofs` proves

    THEOREM TriesEveryPrf    == Spec => []EveryPrfTriedOnce
    THEOREM FreeItemsAreFree == Spec => []FreeItemsUntouched

for any number of PRFs, threads of the pool and derivations at a time, from
`ReaderAssumption`. The invariant `TriesInv` says who has an item and what has
become of each PRF:

    Ownership:    an item in use waits in the queue, is in one worker's hands, is
                  about to be enqueued by the reader, or has a complete key
    PrfsDistinct: two items in use have different PRFs
    Account:      the PRFs tested, those in items in use and the one being
                  tested are disjoint and make up what the loop has come to
    QueuedCount:  queuedWorkItems counts the items in use

`Account` is why the loop counter may be set back when the queue is full, and
gives, when nothing is queued and the counter is past the last PRF, that every
PRF was tested. It leans on `Ownership`: a worker that wrote into an item taken
for another PRF would make a PRF tested twice and another one not at all. Two
facts need an argument of their own: the reader finds a free item whenever it
has room (`SomeItemFree`, by the pigeonhole principle: items in use have
different PRFs, all before the one the loop is at), and the counter is never
set back below the first PRF (`StepLoopFull`: at the first PRF nothing is in
use, so that there is room). Steps that leave the items alone share
`OwnershipKept`, `AccountKept` and `ReaderMoves`; each other step has a lemma
with one step for each part of the invariant. TLC checked `TriesInv` on the
instance of `key_pool` before the proof was written.

The same invariant gives `ResultNamesItsPrf == Spec => []ResultNamesPrf`: the key in
a complete item was made by the PRF of the item, whichever was enqueued last.
`TypesHold` adds what the counters count: `OutstandingCount` says that
`*outstandingWorkItemCount` is the item about to enter the ring, those in it and
those that workers have not counted off, so that it never goes below zero;
`QueueIsShort` bounds the ring, since its items are distinct.

`SystemEncryption_proofs` proves `SetupInvariant == Spec => []SetupInv` for
every size of drive, block and threshold, and any numbers of setups, crashes and failures. What the theorems
say is about the end of a setup, and what is true there depends on every step before it; the
invariant has the steps:

    Structure: Types;  Phases, the place of the setup thread and who may run
               beside it;  Position, where it is on the drive;  AreaForm and
               ZeroedForm, the two areas as functions of direction and position;
               Mutex, who has the root device mutex;  Change, what a password
               change has read and whether it is still true
    Unharmed:  unless excused, the keys exist, the header lags behind the area by less than a
               threshold and a block (Lag), and every unit of the disk and the
               buffer is what its position says (Blocks)
    Saved:     a setup that is about to report success has saved the header

From it: `TypesHold`, `DismountIsExclusive`, `NoHeaderIsStale` and
`SuccessMeansSaved`. On the same invariant rests `ConversionIsSafe ==
Spec => IsSafeConversion`: each step maps to a step of `SafeConversion` or a
stutter. The lemmas `Kept...` say of each step that it keeps the intact units;
`LossIsBounded` bounds what a power loss costs, by the units between the saved
end and the real one (`Faithful`), whose number `PromisedCardinality` and
`UnionBound` give from the lag.

`InPlaceEncryption_proofs` proves `ConversionInvariant == Spec => []ConversionInv`
for any sizes with an interval of whole chunks, as `TC_NONSYS_INPLACE_ENC_HEADER_UPDATE_INTERVAL`
is (`SizesAssumption`), and any number of conversions, failures and crashes:

    Control:   what the place of the thread says of its variables; while it works
               it is less than an interval ahead of the header and has whole
               chunks behind it, unless it has come to the end
    Told:      what the wizard has told is what the thread has come to
    Layout:    a content is where its kind allows it; length in memory and in the
               header differ by the distance; an open primary header says N
    Finish:    which of the last steps are done at which place
    Marks:     where the pattern is, for a file system that was found visible
               and for one that was found concealed
    Counts:    an unfinished header is counted in the configuration file, unless
               it was found uncounted
    Faithful:  unless excused, the buffer is what was read, and a unit that the
               length in memory finds, the saved header finds too, but for
               those in the Window; without a power loss every unit is found

`Faithful` is why an interval may exceed the shift at all: encrypting writes over
units that the header still calls plain, `O` positions later. Those already moved
by `O` from the header's border are overwritten, and they are `Window`. `WholeChunks`
bounds it: the loop saves the header as soon as the distance reaches the
interval, and if that were not whole chunks the last one would overshoot by part
of a chunk. Each step lemma also says that the step keeps every unit readable
(`Kept`) unless it excuses itself; a torn write is the exception, for which
`CrashLands` and `CrashCosts` say that the units lost are in `Window`, and
`WindowIsSmall` counts them. From the invariant follow `TypesHold`, `NothingIsLeft`,
`TracesDoAgree` and the refinement `ConversionIsSafe == Spec => IsSafeConversion`.
`MountIsTold` needs one more: `Costs` says that, unless excused, no more than
`losses * Lag` units are unreadable. Only a power loss adds to them, at most
`Lag` (`CostsKept`, from `CrashCosts`), and a header that a mount accepts while
no conversion runs is one by which the units that can be read are encrypted in
their place. TLC checked `ConversionInv` on the instance of the run `inplace`
and on five other sizes first.

`VolumeFormat_proofs` proves `EnlargementOpens == Spec => []VolumeOpens` for any
sizes, from the invariant `OpenInv`: the types and, while a volume is being
enlarged, `FilesKept` (its files are where they were), `PrimaryFits` (its
primary header is for the old or the new size, and the host is as large),
`JobFits` (what the job is about to write), `SomeHeader` (whichever header is
being written, another opens the volume) and `WriterBehind` (the buffer on its way lies
in the new space).

It also proves `SuccessIsWritten == Spec => []SuccessMeansWritten`, for creation and
enlargement, with and without the writer thread. A job learns of a failed
write one buffer late, and two threads use the one buffer and its two events in turn,
so that the invariant `WrittenInv` adds to `OpenInv`

    Handshake:  while the thread is up, the buffer is empty, or handed over, or
                being written, never two of these
    HandedOver: what was handed over last ends where the next buffer begins;
                all units before it are written, and its own are when the
                buffer is empty again without an error
    Outcome:    what a status "ok" means at each later place of the job
    Heads:      which headers are on the disk at each place

and bounds on each counter. `TypesHold` follows, in which `HandedOver` gives that
a write under way is at its place in the data area of the job.

`EncryptionThreadPool_proofs` proves `Invariance == Spec => []PoolInv` for any
number of callers and units, more than one thread and a ring with a slot for each
thread (`PoolAssumption`), both for the C and the C++ pool:

    Phases, Mutexes:      who stops, who is inside which critical section
    Division:             the units a call has not yet queued are what the
                          remaining fragments will take, remainder included
    Groups, Members:      the slot of a group's first fragment is its caller's
                          until the call sets it free, so that it names the
                          group; a fragment that waits or is worked on belongs
                          to a group under way, between its first slot and
                          EnqueuePosition
    Holding:              no two workers have the same slot
    Counted, Completion:  OutstandingFragmentCount is what is left to queue plus
                          what waits in the ring plus what workers have in hand;
                          one worker finds it zero
    Units, Fragments:     a unit is not yet queued, in exactly one fragment that
                          was not processed, or processed once
    Exceptions:           the exception of a group is that of its call

A worker sets its slot free (`EncryptionThreadPool.c:327`) before it reads
`FirstFragment` from it and counts itself off; `CountsItsGroup == Spec =>
[]OwnGroupCounted` says that it reads what it took. The argument is `Members` and
the ring: while the group's caller fills it, nobody else may; afterwards the
slot can be filled again only when `EnqueuePosition` has come round, and it
stops at the group's first slot, which is not free until the count is zero,
and by `Counted` it is not zero while this worker has not counted itself off.
`UnitsProcessedOnce == Spec => []EachUnitOnce`, `ExceptionsReported == Spec =>
[]ExceptionReported` and `TypesHold` follow. The module has one lemma for each
part of the invariant that an action can disturb; `NobodyMoves`,
`IdleWorkerMoves` and `CallerMoves` serve the others, and operators such as
`CountSetAt` name what an action does to one slot, so that the provers
see no nested record updates. TLC checked `PoolInv` on all states of the
instance of `pool_work` first.

`DiskRegions_proofs` proves, for sectors that are any positive number of bytes and any
request: `RegionsOverlap` and `GetIntersection` are exact (the latter for requests
below 4 GiB, where its length is not narrowed); fragments follow each other;
the queue encrypts and decrypts exactly the sectors in the area, each under its
own unit number; the up to three transfers of a remapped fragment move each
sector once; what the hibernation filters write, and what the boot loader reads
and writes for a normal or a hidden system, is where the queue looks for it and
has the same unit number, or is refused; and the guard of the substituted
sectors refuses what touches them below 4 GiB. `GuardErrs` exhibits a write past 4 GiB that
the guard misjudges.

Model-checked only: liveness (`EveryIrpCompletes`, `HoldEnds`, `StopEnds`,
`CallsReturn`, `StopReturns`, `ReaderReturns`, `AbortReturns`, `SetupEnds`), which is
outside the prover's reach. Every other property that a passing run checks is a
theorem.

## 5. What the checks showed

1. `queue_free`: `CompleteIrpWorkItemRoutine` decrements `ActiveWorkItems`
   (`Driver/EncryptedIoQueue.c:328`) before it returns the work item to its
   list, releases the semaphore and frees the item. `EncryptedIoQueueStop`
   waits for that counter only, then frees work items and pool: the assertion
   in `FreePoolBuffers` (line 141) can fail, and the routine goes on with freed
   memory.
2. `key_free`: the pool's worker decrements the counter to zero and sets
   `NoOutstandingWorkItemEvent` in a later step
   (`Common/EncryptionThreadPool.c:283`). When the reader enqueues the next PRF
   in between, the late set leaves the event signalled with a derivation
   outstanding, and `ReadVolumeHeader` may free what that derivation writes to
   (`Common/Volumes.c:652`).
3. `inplace_defer`: the encryption thread looks at the request to pause after
   the last chunk as well (`Format/InPlace.c:1077`). It then leaves a backup
   header that says that the volume is encrypted, no primary header, and a
   volume that the scan for interrupted conversions does not list.
4. `inplace_conceal`: after it has checked the backup header,
   `EncryptPartitionInPlaceBegin` says that the encryption can be resumed safely
   "even if the system/app crashes" (`Format/InPlace.c:672`). The file system is
   concealed only afterwards (677). After a crash in between, the resumption
   toggles the pattern of a file system that is visible
   (`Format/InPlace.c:961`), and the finished volume has a concealed first unit.
   `TracesAgree` says exactly when: if and only if the file system was visible when
   the conversion was last opened with nothing encrypted.

Met while modelling, and not shown by a run of its own:

- Hold and stop wait for the same synchronization event `NoOutstandingIoEvent`,
  which releases one of them; with a hold under way a stop can wait for ever.
- Mounting a volume that is decrypted in part: `FastVolumeHeaderUpdate` sets the
  flag of in-place encryption because otherwise "it would be possible to mount them
  partially encrypted" (`Format/InPlace.c:1882`), but it is first called after a
  whole interval (1654). A power loss before that leaves a header without the
  flag and with a full area over a data area whose beginning is plaintext, which
  `TCOpenVolume` accepts. The comment's claim therefore does not hold without a
  condition; `MountTellsTruth` has the bound on it, at most `Lag` units for each
  power loss, and would fail with any smaller one.
- In-place conversion: a crash between the backup header and the count in the
  configuration file (`InPlace.c:705`) leaves a conversion that is not resumed
  by itself at the next logon (`found.uncounted`); a crash between `RevealNTFS` and the
  zeroing of the header makes a decryption that is resumed conceal what it had
  revealed (`found.visible`); a decryption that a power loss interrupted and that is
  resumed as an encryption takes the units decrypted since the last header for
  encrypted, within `Lag`. A failed write of a decryption has no undo
  (`InPlace.c:1634`), and an encryption begun anew over a file system that is
  still visible loses what was encrypted before: both set `excused`, after
  which `MountTellsTruth` and `IsSafeConversion` promise nothing.
- Drive filter: after a failed final save, a later setup that has nothing to do
  reports success with the old header; the check after the save only tests for a null
  pointer (`DriveFilter.c:1514`); the main program may die between its write
  of a header and the reopening (`BootEncryption.cpp:5506`); the
  keys may be erased during a setup (`DriveFilter.c:1092`).
- Creation: `StopFormatWriteThread` does not look at the last buffer's
  result, so that a device whose last write failed is reported as created.
- Expansion: `StopFormatWriteThread` is called whether the thread was started
  or not (`ExpandVolume.c:835`) and frees its buffers twice after a device job;
  the header of an interrupted enlargement stays in the data area.
- Regions: a later sub-fragment's status hides the failure of an earlier one
  (`EncryptedIoQueue.c:537`); the guard of the substituted sectors is given an end as a
  length (`EncryptedIoQueue.c:867`); the boot loader returns without
  `ReleaseSectorBuffer` (`BootEncryptedIo.cpp:93`), and for a hidden system its
  writes, not its reads, are moved when wholly outside the partition.

## 6. What is left

| module | about | composes with | properties |
|---|---|---|---|
| `MountSession` | mount and dismount of `CoreUnix` with Fuse and loop devices, failing steps | | rollback leaves nothing attached |
| `CoreService` | requests and responses between the two processes | `MountSession` | every answer belongs to its request |
| `PasswordCache` | both caches against an abstract set of recent passwords | | newest kept, no duplicates, PIM belongs to its password |
| `RandomPool`, `PortableVolume` | as in the inventory | | as in the inventory |

In the modelled components: plug-and-play removal, the thread that wipes the
decoy system, the installation of the boot loader, starting the queue and the
pool, creation of hidden volumes.

Not modelled: cryptographic primitives, formats of headers and file
systems, user interfaces, installers and token libraries. They are pure
functions on large data or calls of other systems.
