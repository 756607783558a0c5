# A TLA+ model of the AMD KFD driver

The repository holds a copy of the Linux compute driver for AMD GPUs, the KFD
(`src/kfd`), the graphics driver below it, amdgpu (`src/kfd_amdgpu`), and some
small experiments.  This directory models the parts of the KFD whose correctness
rests on concurrency, on counters, or on index arithmetic, and checks them with
TLC.  For seven of them (kernel queue, event waiting, interrupt ring, GTT sub-allocator,
device queue manager, eviction, process objects) it proves the safety properties with
TLAPS for every value of the constants.

`PROJECT.json` lists the components, the runs, the source lines of every
definition, the hazards of the code with the properties that watch them, and
the theorems.

## The system

A process opens `/dev/kfd` and gets a `kfd_process`.  It creates compute queues
in user memory; the *device queue manager* (DQM) gives the active ones to a
hardware scheduler.  The older scheduler (HWS) takes runlists, sent as packets
through a *kernel queue*, a ring shared with the command processor (CP); the
newer one (MES) takes one queue at a time.  The kernel queue, runlists and queue
descriptors live in one GTT buffer, cut up by a *sub-allocator*.  The GPU reports
back with interrupts: amdgpu's handlers put them into a *software ring* per node,
a worker takes them out, and most of them signal an *event*, on which user
threads *wait*.  The GPU uses memory of the process that may go away: TTM may
need the VRAM, and the kernel may take user pages behind a *userptr* buffer object
or a *shared virtual memory* (SVM) range.  All of them *evict* the process, which
stops its queues, and *restore* it later.

| Part | Code | Modules |
| --- | --- | --- |
| kernel queue | `kfd_kernel_queue.c` | `KernelQueue`, `KernelQueueFifo` (what it promises), `KernelQueueProofs` |
| waiting on events | `kfd_events.c` | `EventWait`, and its proofs `EventWaitSteps`, `EventWaitProofs` |
| event ids, signal page, interrupt lookup | `kfd_events.c` | `EventSignal` |
| interrupt ring and its workers | `kfd_interrupt.c`, `kfd_device.c` | `InterruptFifo`, `InterruptChannel` (what it promises), `InterruptFifoProofs` |
| GTT sub-allocator | `kfd_device.c` | `GttSa`, `GttSaProofs` |
| device queue manager | `kfd_device_queue_manager.c`, `kfd_process_queue_manager.c` | `Dqm`, `DqmProofs` |
| eviction of a process | `kfd_process.c`, `kfd_device.c`, `amdgpu_amdkfd_fence.c`, `amdgpu_amdkfd_gpuvm.c`, `kfd_svm.c` | `EvictQueues` (what the evictors share), `TtmEviction`, `UserptrEviction`, `SvmEviction`, composed in `Eviction`; `EvictionProofs` |
| process objects | `kfd_process.c`, `kfd_device.c` | `ProcessTable`, `ProcessTableProofs` |

A module `MC_X` gives the constants of module `X` values for TLC.  Definitions
keep the names of the functions they model; where a function is more than one
step, the steps after the first have names that say what they do.  An operator
`F_What` just before `F`, under a comment "Mutant:", is a version of `F` with a
bug that somebody might write.  It is not part of the model; it shows that a
property notices such a bug.

## The models

**KernelQueue.**  `ring` is the memory of the queue in dwords; `pending_wptr` and
`pending_wptr64` are the two pointers the driver keeps, `wptr_mem` what it has
published, `rptr_mem` what the CP last reported and `cp_rptr` where the CP really
is.  Actions: `kq_acquire_packet_buffer` (with the filling by nops when a packet
would cross the end of the ring), `BuildPacket` (the packet manager writes through
the pointer it got), `kq_submit_packet`, `kq_rollback_packet`; the CP reads and
reports at its own pace and is external.  A failing acquire changes
nothing but its own return value and is no step.  The low word of the 64-bit
pointer is taken modulo `WordSpan`, because rollback computes with it.

**EventWait.**  Each thread in `kfd_wait_on_events` goes through its steps one by
one: `init_event_waiter` for each slot under `event_mutex`, the first test, the
loop (set the task state, test each slot, sleep), and copying data and freeing
the waiters under the mutex again.  Setters hold only `rcu_read_lock` and the lock of the
event, so `set_event` and `kfd_reset_event` come between any two steps; a setter
may hold a pointer to an event found before.  Timeouts, signals, fatal signals
and faults in user memory are actions.  Structures are never reused (ids are),
so a pointer to a destroyed event stays recognisable.  `wake_up_all` and
`schedule_timeout` are external: waking unlinks an entry only if it really woke
the task.  An event destroyed while the task of a queued waiter was awake keeps that
entry (state "stray"), as `free_waiters` finds no event to take it from.

**EventSignal.**  `slots` is the signal page, `idr` the table of ids.  The GPU
marks a slot and sends an interrupt with some bits of the id.  The handler of each
GPU follows `kfd_signal_event_interrupt` one slot at a time: the id itself if
complete, the ids with the same low bits, all slots, or all events of the idr,
whichever the code chooses.  Events are created (published in the idr
before their slot is cleared) and destroyed.  `kfd_event_mmap` takes the size of
each mapping that succeeds, so a second, smaller one shrinks what the searches see.

**InterruptFifo.**  A kfifo of words for each node.  Interrupt contexts go over
the nodes in `kgd2kfd_interrupt`: take `interrupt_lock`, put an entry if all of
it fits, queue the work, unlock.  `interrupt_wq` takes entries without the
lock and requeues itself when its time is up.  `kgd2kfd_device_exit` takes node after
node: flush, destroy the work queue, free the ring, free the node; then it frees the
device.  It does not stop the handlers.  At unload amdgpu has freed its interrupts
before (`enabled`), which waits for the handlers but not for the works of IH rings 1
and 2 (`Works`); a switch of partitions leaves interrupts on.  `late` records the
first handler that runs into the exit, and a behaviour ends there.

**GttSa.**  `kfd_gtt_sa_allocate` one turn of its loops at a time: find a free
chunk, extend the run chunk by chunk, restart behind a gap; and
`kfd_gtt_sa_free`.

**Dqm.**  All `_cpsch` operations, one step for each hold of `dqm->lock`:
registering a process and creating a queue (with every failure on the way),
destroying, updating, nested eviction and restore, suspension and resumption by
the debugger, termination, and stopping and starting the scheduler around a
reset.  `hw` is what the hardware may be running, for either firmware.  The
firmware may hang, sending a runlist may fail, and memory may be short.  A destroyer
that finds its queue suspended waits without the mutex of the process, so a second
one may come.  A destroy that failed leaves its queue known to the process
(`unlisted`), and the process may be entered in `dqm->queues` twice or not at all.
`astray` records the first step after which the driver works with freed memory or
counts a queue twice: "queue", "count" or "entry" (see Findings); a behaviour ends there.

**Eviction.**  `evicted` is the nesting count of a process, `lock` is
`process_info->lock`; each evictor has its own module and the composition
interleaves their steps.  Pages are version numbers, so "the GPU uses a page that
was taken away" is a comparison of what the page table maps with what the
kernel has.  `TtmEviction`: the eviction fence, `evict_process_worker`,
`restore_process_worker`, suspend and resume of all processes.  An eviction counts
even when the scheduler fails, so "the queues are stopped" here means that
`evicted` is not 0 (what then runs is a matter of `Dqm`); `lost` records that it failed for
`evict_process_worker`, which then neither signals the fence nor schedules a restore.
`UserptrEviction`: the notifier, the three phases of the restore worker,
allocation, mapping (also when it fails half-way), unmapping, and freeing, which
takes a BO off the lists first and unregisters its notifier later.
`SvmEviction`: the notifier, step by step because it has only atomic counters and the lock of its range, and
`svm_range_restore_work`.

**ProcessTable.**  The table of processes, the references of each, the MMU
notifier, and the works.  Threads open `/dev/kfd` (`kfd_create_process` under
`kfd_processes_mutex`), lookups find a process inside an srcu section and take a
reference, the address space ends (`kfd_process_notifier_release`), the driver
is unloaded (`kfd_cleanup_processes`), and `kfd_process_wq_release` frees.
`ending` holds who is in the release path and, in `wait`, whom it waits for in
`synchronize_srcu` or `mmu_notifier_synchronize`: only for those it found at its
start.  A structure that was freed may be allocated again, as the first free
place, so stale pointers meet the new process.  `evict` and `restore` are the
processes whose works are pending.  `kfd_locked` is a count: suspends raise it with
processes in the table, and a switch of partitions (`check_and_lock_kfd`,
`switching`) only without.  Two things the code does not survive are recorded.
`astray = "unwind"`: `create_process` frees a process that a lookup has found.
`late`: an eviction was scheduled for a process whose works had been cancelled;
`astray = "work"` when that process is freed first.  A behaviour ends at `astray`.

## The runs

States are distinct states.

| Run | What it asks | States |
| --- | --- | --- |
| `kernel_queue` | Is what the driver writes always free, although it sees an old read pointer (`BufferIsFree`, `UnreadIsIntact`)?  Does a drained ring accept again (`DrainedRingAccepts`)?  Does the CP read whole packets in order (`ImplementsFifo`, a refinement)? | 43,539 |
| `event_wait` | No lost wake-up (`NoLostWakeup`), no age change slept through (`AgeChangeActivates`), the signal of an auto-reset event is kept over interrupted waits (`SignalIsKept`), a freed waiter is in no queue, but for stray ones (`FreedWaitersHaveLeft`), the WARN_ON after the first test is right (`FirstCheckNeverFails`). | 790,427 |
| `event_wait_live` | Two waiters compete for one signal: waits that may return do (`MetWaitReturns`, `TimedWaitReturns`). | 319,076 |
| `event_wait_copy` | Refuted, see Findings. | |
| `event_signal` | Signaled events are set whatever the lookup finds first (`SignalsAreSeen`, and once the GPU is silent `SignaledIsSet`); the count that limits events and chooses the search is that of the ids in use (`CountIsExact`). | 493,795 |
| `event_signal_two_gpus` | Refuted, see Findings. | |
| `interrupt_fifo` | The ring of words is, for each node, a bounded queue of whole entries handled in order (`IsChannel`, a refinement; when entries are dropped is not part of it); no entry without a worker (`NothingStranded`); no work on a freed ring until a handler is late, and none that `free_irq` waits for is (`NoWorkAfterFree`); rings are emptied (`EntriesAreHandled`). | 320,446 |
| `gtt_sa` | Objects partition the bitmap (`ObjectsPartitionBitmap`); the search ends (`SearchEnds`), fails only when nothing fits (`FailsOnlyWhenFull`) and takes the first fit (`TakesFirstFit`). | 344,809 |
| `dqm` | Counters (`CountsAreExact`), eviction marks (`EvictedTogether`) and the hardware (`HardwareMatches`, `RunlistIsKnown`) stay in step through hangs, failures and restarts, until something is astray; a destroyer that waits for the debugger goes on (`DestroyerGoesOn`). | 366,726 |
| `eviction` | The count is that of the evictors (`HoldsAreCounted`); running queues never use pages that were taken away (`UserPagesAreCurrent`, `RangesAreCurrent`, `SignaledMeansStopped`); the worker's consistency warning never fires (`PagesNeverUnexpected`); evictions are served and queues come back, unless the scheduler failed (`EvictionIsServed`, `QueuesComeBack`). | 144,441 |
| `eviction_svm_return` | Refuted, see Findings. | |
| `process` | Nobody has a pointer to a freed process, nor have its works unless late, until a creation is unwound under a lookup (`NoUseAfterFree`); references are exact (`RefsAreExact`); one process for an address space (`OneProcessPerMm`), taken down once (`OneReleaser`) and freed (`ProcessIsFreed`); unloading ends (`UnloadEnds`). | 62,541 |

Deadlock is checked for the kernel queue only: its CP and its producer can always
do something.  Everywhere else the system may rightly come to rest: all threads
are back in user space, or the bounds are used up.

### Bounds, and why they suffice

- `kernel_queue`: a ring of 8 dwords and packets of 2 and 3 dwords reach every
  remainder at the end of the ring; `MaxWptr = 36` is four and a half rounds and two wraps
  of the low word (`WordSpan = 16`).  32-bit doorbells, and all other sizes,
  are in the proofs.
- `event_wait`: one waiter with two slots is needed for "all" and for a slot that
  fails after one that succeeded; a setter and the destroyer interleave with it.
  `event_wait_live` has two waiters on one event instead.  Ages stop at 2, which
  is one change; signals to tasks at 1, in both runs.
- `event_signal`: ids 1 and 3 share the one id bit of an interrupt, id 2 does
  not; sizes 2, 3 and 4 let the page be mapped larger and smaller; `FewEvents = 3`
  makes both searches happen.
- `interrupt_fifo`: rings of two entries of two words overflow with the fourth
  call; two contexts, one of them a work, and two nodes give all orders of queueing
  and exit.
- `gtt_sa`: six chunks hold every pattern of gaps that matters (a gap too short,
  one that fits, one at the end); sizes are exact multiples and not, zero, the
  whole buffer, and one byte more.
- `dqm`: eight devices (`MC_Dqm`): two queues of one process with a debugger and nested
  evictions, two destroyers of one queue, processes entered twice or not at all,
  and two processes that compete for one place, each with either firmware and the
  failures that matter to it.
- `eviction`: every mix of two evictors; two BOs, two ranges or two fences alone.
  One failing eviction, restore or mapping.
- `process`: places for two structures, so that one is reused under a stale
  pointer; two threads that race to create, two lookups against one end.  Four
  setups: failing creations while KFD is locked and suspended (`MaxLocks = 2`), failing
  creations with a lookup and evictions, two address spaces that end, and evictions of
  a process that ends.

### Fairness

Weak fairness is given to code that runs once it is started: a thread past its
entry into the driver, an interrupt handler, a queued work, a timer, a callback.
Strong fairness is given to steps that take a mutex (`event_mutex`,
`process_info->lock`, `kfd_processes_mutex`, the mutex of a process): kernel
mutexes queue their waiters and hand over to the first, so nobody is passed over for
ever.  Nothing makes users open, close, signal, wait, destroy or debug, nor the
GPU signal, nor TTM evict; but a suspended system resumes, a lookup lets its
reference go, and pages that are being changed are changed at last.
`SignaledIsSet` assumes a GPU that falls silent, as the lookup may prefer another
event as long as that one is signaled again and again.  `QueuesComeBack` is true
because the pages of a setup change a bounded number of times and restores fail a
bounded number of times; under endless invalidation the code retries for ever.  An
eviction that failed (`lost`) stays.  `DestroyerGoesOn` assumes a scheduler that works:
with a hang the code gives up.  It, `ProcessIsFreed`, `UnloadEnds` and
`EntriesAreHandled` promise their end, or that the behaviour ended before as recorded
in `astray` or `late`.

## The proofs

TLC looks at the instances above; the theorems hold for all values of the
constants that satisfy the assumptions of the modules.  Each rests on an
invariant that is inductive: it holds at first, every action keeps it, and it
implies the property.  The properties alone are not inductive, because they say
nothing of the states in the middle of an operation.

| Module | Theorem | Property |
| --- | --- | --- |
| `KernelQueueProofs` | `BufferAlwaysFree`, `UnreadNeverChanges`, `DrainedAlwaysAccepts`, `PointersAlwaysAgree` | `BufferIsFree`, `UnreadIsIntact` (an action property), `DrainedRingAccepts`, that both write pointers agree |
| `EventWaitProofs` | `NoWakeupIsLost`, `AgeChangeAlwaysActivates`, `FirstCheckCannotFail`, `SignalIsAlwaysKept`, `FreedWaitersLeft` | `NoLostWakeup`, `AgeChangeActivates`, `FirstCheckNeverFails`, `SignalIsKept`, `FreedWaitersHaveLeft` |
| `InterruptFifoProofs` | `NothingIsStranded`, `NoWorkOnFreedRing`, `FifoIsChannel`, `WantedEntriesAreKept` | `NothingStranded`, `NoWorkAfterFree`, `IsChannel` (a refinement), `DropsOnlyWhenFull` (an action property) |
| `GttSaProofs` | `ObjectsAlwaysPartition`, `ObjectsAlwaysFit`, `FailureMeansFull`, `AlwaysFirstFit` | `ObjectsPartitionBitmap`, `ObjectsFit`, `FailsOnlyWhenFull` and `TakesFirstFit` (action properties) |
| `DqmProofs` | `QueuesEvictedTogether`, `RunlistAlwaysKnown`, `CountsAlwaysExact`, `HardwareAlwaysMatches` | `EvictedTogether`, `RunlistIsKnown`, `CountsAreExact`, `HardwareMatches` |
| `EvictionProofs` | `EvictionsAreCounted`, `EvictionStopsFirst`, `UserptrsAreCurrent`, `UserPagesAreExpected`, `SvmRangesAreCurrent` | `HoldsAreCounted`, `SignaledMeansStopped`, `UserPagesAreCurrent`, `PagesNeverUnexpected`, `RangesAreCurrent` |
| `ProcessTableProofs` | `UsesAreBeforeFree`, `ReferencesAreExact`, `OneProcess`, `OneTakesDown` | `NoUseAfterFree`, `RefsAreExact`, `OneProcessPerMm`, `OneReleaser` |

**Kernel queue** (`KQInv`).  Going round the ring from the reported read pointer
one meets the CP, the published and the pending write pointer in this order, and
the packet being built ends at the pending pointer.  The arithmetic rests on
lemmas about the modulo of the ring size and of the word.

**Event waiting** (`EWInv`).  `Own(w)` says where a thread is and what its scan has
read; `Shared` says that the queues of the live events hold exactly the slots that
still have to be told.  A setter sees only the queues, so this is why it
reaches every wait it should.  The queue of a destroyed event is empty unless it is
stray (`DeadIsEmpty`).

**Interrupt ring** (`IFInv`).  A kfifo of words is always a number of whole entries
(`WholeEntries`), so `kfifo_in` stores an entry or nothing and `kfifo_out` takes an
entry or finds the kfifo empty.  A handler holds the lock of the node it writes to
(`LocksAreHeld`).  With interrupts off only `Works` run, and once the exit frees nodes no
work is pending or running until a handler is late (`ExitIsQuiet`).
With `NothingStranded` this makes a kfifo empty when it is freed, so that freeing it changes no queue of `InterruptChannel`.  In that module dropping
an entry changes nothing and is like doing nothing, so the refinement holds also for
a ring that drops what it could store; `WantedEntriesAreKept` proves that this
ring does not.  No run checks that one.

**GTT sub-allocator** (`IInv`).  `SearchIsComplete` says what a search has ruled out:
nothing fits at a chunk it has passed.

**Device queue manager.**  `EvictInv` is inductive by itself.  It adds to
`EvictedTogether` and `RunlistIsKnown` that flags belong to queues on a list,
that a stopped scheduler has only evicted processes, and that a suspended queue
is inactive unless the MES hung.  `CountInv` adds that a process with queues is
registered and one being torn down is not; the counts and the hardware need each
other, because a runlist is sent only if the count is not 0.  What the firmware
may answer is examined once for each call, in the lemmas `...Outcome`.  Limits of
these theorems:

- `CountsAlwaysExact` and `HardwareAlwaysMatches` have no hypothesis: processes may be
  entered twice in `dqm->queues` or not at all, destroys may fail, and several threads may
  destroy one queue.  They speak of a behaviour up to the step that `astray`
  records; that such steps exist is in Findings.
- `EvictedTogether` leaves out a process whose restore stopped half-way with
  the MES (`partial`), until a later restore succeeds or the process is freed.
- `HardwareMatches` speaks of a firmware that does not hang; with the HWS also of
  a running device that is not resetting and whose last runlist could be sent.

**Eviction** (`EvInv`).  Of the driver's state the evictors share only `evicted`
and `process_info->lock`, so there is one part for each of them, kept by its own steps and
untouched by those of the others, and `HoldsAreCounted`, which adds up what they hold.
`TtmInv`: while the fence is signaled or memory is away, somebody who holds the
queues has yet to restore the BOs.  `UserInv`: a BO that is not marked invalid has its
current pages; one that is mapped is marked, or left to the worker, or up to date; and
if `evicted_bos` is still what the worker read at its start, only the BOs it has not
reached are invalid (`WorkerProgress`).  The last part is what makes the late comparison
of `evicted_bos` enough.  `SvmInv` says the same of ranges, and that from the first
eviction to the restore exactly one is in charge: the callback that raised
`evicted_ranges` from 0, the pending work, or the worker (`OneInCharge`); without it
a restore could be counted twice.  `RangesAreCurrent` leaves out the time in which a
callback has yet to stop the queues; that a second callback may return in it is a
finding below.

Steps that fail are steps of the proof too: an eviction that fails adds `lost` to
the sum; a mapping that fails may leave an entry of a BO that does not count as mapped, of
which `UserPagesAreCurrent` says nothing (see Findings).

**Process objects** (`IInv`).  `PTInv`: whoever may use a process owns a reference, or
found it inside an srcu section for which the remover waits, or is a callback or
`kfd_cleanup_processes` while the notifier is registered or being put.  `WorksInv`:
a process whose notifier was put, or never registered unless that is still to come, had its
works cancelled (`TakenDown`), and one that had, or was freed, has none unless it is late
(`Quiet`).  `LockInv`: `kfd_locked` is not 0 during a switch of partitions.
When `create_process` frees a process that a lookup has found, `PTInv` is lost; what still holds then (`Safe`) is enough for
the properties, as the behaviour ends there.  No hypothesis excludes failing creations.

### What is only model-checked

- Liveness (`MetWaitReturns`, `TimedWaitReturns`, `SignaledIsSet`,
  `EntriesAreHandled`, `SearchEnds`, `DestroyerGoesOn`, `EvictionIsServed`,
  `QueuesComeBack`, `ProcessIsFreed`, `UnloadEnds`): the prover cannot reason about
  fairness and `ENABLED`.
- The refinement `ImplementsFifo`: its mapping drops the nops from the ring with
  `SelectSeq`, which is recursive, and what a recursive definition computes for
  every input is out of the prover's reach.
- The invariants of `EventSignal` (`CountIsExact`, `SignalsAreSeen`): no inductive
  invariant has been worked out for them yet.

## Findings

Three runs show that the code does not do what a comment in it says:

- `event_wait_copy`: a waiter that was activated keeps its pointer when the event is
  destroyed, and `copy_signaled_event_data` reads from the destroyed event
  (`kfd_events.c:1038`; the comment at 1033 says that it confirms that the event
  still exists).
- `event_signal_two_gpus`: the workers of two GPUs find the same event for the
  interrupts of two events that share a partial id; the other one stays marked
  with no interrupt left (`kfd_events.c:737`, comment at 149).
- `eviction_svm_return`: a callback that finds `evicted_ranges` not 0 returns
  although the callback that raised it has not stopped the queues yet
  (`kfd_svm.c:1982`, comment at 1934).

More cases came up while modelling.  The models contain the steps, and the number is the
length of the shortest behaviour that TLC finds.  The properties and theorems hold up to
that step, or leave out exactly what it concerns; the one exception is said below:

- `kfd_process_queue_manager.c:515`: a destroy that failed has taken the queue off its list,
  and the process destroys or updates it again; or a second destroyer waited for a queue
  that the first one frees (`astray = "queue"`, 8 states).
- `kfd_device_queue_manager.c:1276`: a retry of a restore that stopped half-way with the MES
  counts queues a second time (`"count"`, 7 states).
- A process entered in `dqm->queues` twice leaves an entry at its end, which points into
  freed memory (`"entry"`, 4 states).
- `kfd_process.c:1569`: `create_process` frees a process, when `mmu_notifier_get`
  fails, that a lookup may just have found (7 states).
- `kfd_device.c:1130`: an eviction scheduled by a lookup that found the process before
  it left the table starts a worker after both works were cancelled (21 states until the
  process is freed); the comments at `kfd_process.c:1958` and 2009 say the process outlives
  its workers.
- `kgd2kfd_device_exit`: an IH ring 1 or 2 work runs into the exit at unload (9 states), or any
  handler at a switch of partitions, where interrupts stay on (8 states).
- `kfd_events.c`: a waiter whose task is awake when its event is destroyed stays in the
  queue when it is freed (13 states); a setter that had found the event before can then
  reach it (14 states).
- `kfd_process.c:1976`: an eviction that fails in `evict_process_worker` stays counted; the
  fence is not signaled and no restore is scheduled (3 states).
- `amdgpu_amdkfd_gpuvm.c:2063`: when the page directories cannot be updated, the page table
  entry of the BO stays, but the BO does not count as mapped, and the restore worker
  does not update the entry when the pages change (11 states).
- `kfd_events.c:705`: an event destroyed while a handler runs may hand its id to
  another one, whose slot the handler then clears.  With `Destroys = "any"` TLC
  refutes `SignalsAreSeen` (19 states); the run destroys events only between handlers.
- `kfd_process.c:1246`: at unload `WARN_ON(p->mm != mm)` in the notifier can fire, as
  `kfd_cleanup_processes` may have cleared `p->mm` before (15 states).  It only warns and
  returns; the action models the return, and no property states that it never happens.

## What is left out

- *Events*: exception events, the end of the process, checkpoints (CRIU).
- *Kernel queue*: allocation and freeing of its memory.
- *DQM*: operation without a hardware scheduler, the debugger's kernel queues (DIQ),
  GWS, SDMA engines and doorbells, VMIDs, and what follows a step that is astray.
- *Eviction*: addresses that are no longer mapped, CRIU, reset, the end of the
  process, several devices in one process (so not the rollback in
  `kfd_process_evict_queues`), a failing resume, and for SVM
  attributes, splitting, unmapping, migration and retry faults.
- *Process objects*: PASIDs as numbers, data for each device, sysfs, references of the
  debugger, CRIU.

Not modelled at all, each with its reason in `PROJECT.json`: ioctl checks, packet
and MQD formats, interrupt decoding, apertures, topology, doorbells, the debugger
beyond suspend and resume, migration, SMI events, trap handlers and debugfs of
the KFD.  Of amdgpu, almost everything: its memory manager and
submission rest on TTM and the DRM scheduler, which are not in the repository,
and its IP blocks are register sequences defined by the hardware.  They are
most of the lines of the repository; the models cover the concurrent core of the KFD.
