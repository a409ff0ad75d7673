# Verification of the Arise GPU driver

This directory models the core of the Arise kernel driver (`src/kernel`) in
TLA+. TLC checks the models on small instances; TLAPS proves the central
properties for every instance. Every definition is translated from the source;
`PROJECT.json` maps it to the lines it stands for.

The models cover the scheduler, the memory manager, the life of contexts and
sync objects, the Linux DMA fences and three utilities. That is a small part of
the repository's lines: most of it is cbios, register headers and mode setting,
sequential register programming with little for a model checker to explore.

## 1. The system

The driver's own logic is `src/kernel/core`; `src/kernel/linux` attaches it to
DRM, `src/kernel/cbios` programs display outputs.

| Component | State | Operations | Interacts with |
|---|---|---|---|
| **Scheduler engine** (`core/vidsch`, `core/e3k/vidsch`) | per engine: `last_send_fence_id`, `returned_fence_id`, `uncomplete_task_num`, `prepare_task_num`, `submitted_task_list`; per task: fence id, reference count | prepare, submit a render or paging DMA, accept a fence, release completed tasks | the worker submits renders, the memory manager's threads submit paging; the GPU writes fence words and interrupts |
| **Hang daemon** (`vidsch_daemon_thread.c`) | `disable_schedule`, `hw_hang` | find a task that exceeded its time, reset the hardware, drop the dead tasks, resume; destroy deferred allocations | engine state of every engine, without the engines' locks |
| **Pending queue and worker thread** (`vidsch_workerthread.c/.h`) | `normal_task_pool`, `normal_pool_sema`, `total_task_num`, the two order counters | add a task, scan the pool, submit what is ready, wait for idle | clients (ioctls), fence interrupts, sync objects |
| **Sync objects** (`vidsch_sync.c`) | values, wait instances, references, the list of deferred objects | create, wait on client or server, signal, force, destroy | wait and signal tasks go through the pending queue |
| **Render path** (`vidsch_render.c`, `vidsch_submit.c`) | a task's commands, allocation list, patch list | render, implicit synchronisation, make resident, submit | queue, memory manager, DMA fences |
| **Memory manager** (`core/vidmm`) | segments, allocations, their fences, `render_count`, `submit_ref_cnt`, `force_unpagable` | allocate, page in and out, pin, destroy (also deferred) | submits paging tasks, waits for fences |
| **Context manager** (`core/context`) | devices, contexts, reference counts, `task_dropped` | create, wait for idle, destroy | queue and memory manager |
| **DMA fences** (`linux/gf_fence.c`) | fences, `fence_list`, `fence_count`, DMA sync objects with callbacks | export a render's fence, enable signaling, signal from the event thread, collect the fences of a buffer | interrupts, other drivers, the worker |
| **Ring buffer** (`util/ring_buffer.c`) | `head`, `tail`, `left_size` | init, get space | submission under `engine_lock`; the GPU reads it |
| **Handle manager** (`util/handle_manager.c`) | bitmap, table, `free_start`, `left_num` | add, look up, remove | every object user space can name |
| **Heap manager** (`util/heap_manager.c`) | free list sorted by size, in-use list | allocate from either end, release | segments, DMA buffers |
| **Event threads** (`util/util.c`) | wake-up flag | wake, wait with or without timeout | worker, daemons |
| **Power, performance events, setup** | registers, measured load | gating, frequency, tracing | scheduler statistics |
| **DRM glue** (`src/kernel/linux`) | GEM objects, interrupts | ioctls, fence tasklet | kernel interface |
| **cbios** | display state | mode setting, EDID, VBIOS | DRM glue |

What is hard here, and what correctness means:

* *Concurrency.* An engine is used by its worker thread, by any thread that
  pages memory, by the interrupt tasklet and by the daemon. Fence ids must be
  in ring order, a fence that is back must mean finished work, and a task must
  not be freed while the GPU executes it.
* *Lifetime.* Contexts, sync objects, allocations and fences are referenced by
  tasks that end on many paths (satisfied, timed out, discarded, completed,
  reset) and destroyed while still in use. References must balance on each
  path, and what is deferred must go in the end.
* *Failure.* The GPU hangs, interrupts get lost, timeouts are false alarms,
  creations and page-ins fail. Fences, slots and counts must stay consistent,
  and every task must be released in the end.
* *Ordering.* Tasks are ordered per context and (on every engine in use) per
  engine, with ids taken in separate steps. Memory is given to the next allocation only
  after the copy out of it.
* *Limits.* The hardware queue, the pending queue, the ring, the handle table,
  the heaps and the objects of a device are bounded.

`PROJECT.json` lists the hazards at the lines where they bite and the
properties that cover them.

## 2. Modules

The models share interfaces, not variables: each reduces its neighbour to what
the neighbour's model shows.

| Module | Uses of its neighbours |
|---|---|
| `VidSchEngine` | none; the lowest layer: fences of one engine |
| `VidSchQueue` | the engine is a number of busy slots that an interrupt frees |
| `TaskOrder` | abstract; implemented by `VidSchQueue` |
| `SyncObject` | the worker may look at any pending task whose turn it is; the engine is the list of submitted tasks |
| `VidMmPaging` | engines retire in order; the heap is a set of places |
| `DmaFence` | an engine is its last sent and last returned fence id |
| `RingBuffer`, `HandleManager`, `HeapManager` | none |

### VidSchEngine: one hardware engine

A task goes `none, allocated, prepared, fenced, kicked, submitted, released`.
`fenced` is the critical section of `engine_lock` from
`vidschi_inc_send_fence_id` to `chip_func->submit`; `kicked` is the gap between
dropping `engine_lock` and `vidschi_set_dma_task_submitted`. The model keeps
these gaps because the daemon and the interrupt run in them. Paging tasks skip
`prepared` (they reserve no slot) and are referenced by their creator.

The engine kinds differ in the way they read the fence: `max` of two words
(graphics), `min` of two words (VCP), one word (VPP, which also jumps over a
window of fence ids). `FenceRead` selects one. `vidsch_notify_interrupt`
checks `disable_schedule` and reads the fence in two separate steps
(`notify`), because nothing holds the daemon off in between.

Daemon: `idle, hung, stop, reset, restore, drop, resume` follow
`vidschi_check_hang_and_recovery`; `halted` is the assertion without recovery.
The reset has two steps, as in `vidsch_reset_hw_e3k`: `DaemonMoveFence` writes
the main fence word, `DaemonRestore` is `chip_func->restore`, which restarts the
ring. In between the GPU executes on and may write its own fence over the moved
word, tasks are kicked off and later thrown away, and a notification that passed
the `disable_schedule` check declares tasks back. `DaemonFakeTimeout` is the
early return of a false alarm. `raced` are the tasks whose critical section the
restart fell into: their ring space may be of the old ring, so that their
kick-off may be lost. Two history variables: `overtaken`, the tasks the word was
moved over while the GPU had still to execute them, and `skipped`, those a hung
GPU was left with at that moment.
Time is abstracted: a task that is not back may time out at any moment, so a
hang report may be true or a false alarm.

Abstractions: commands, patching and allocations are dropped; a reset acts on
one engine at a time here, while the code resets all (they share no state the
model keeps). `restore` of the graphics engine resets the hardware of all
engines first; the others' restarts of their rings follow, and the order of the
hardware reset and a ring's restart makes no difference to the ring's contents,
so the two are one step. The reset of another engine than GFXL therefore happens
before its own word is moved; that only closes the window. The VPP window and
the 64-bit fence ids are small numbers; the word is written in two halves, of
which the upper one is 0 until an engine has sent 2^32 ids.
The GPU (external) retires its ring in fence order.

### VidSchQueue: pending pool and worker thread, and TaskOrder

A task goes `new, enter, slot, numbered, queued, done`, one state per step of
`vidschi_add_task_to_pending_queue`: context id, semaphore, global id and
count, pool and wake-up. Client waits and signals have their own short paths.
The worker moves the pool to `schedule_pool`, looks at each task once, and
splices what is not ready back. The wake-up flag `event` is that of
`util_wakeup_event_thread`. A server wait may also end by its timeout whenever
the worker looks at it. `setup` is chosen by `Init` and never changes: which
kind each task is, and whether the engine is serialized (has a global order).
In the runs it always is: `vidschi_init_engine_schedule_profile_e3k` sets
`schedule_serialize` for every engine in use; the theorems cover both. Taking
the context id (`++context->task_id`, also without a lock) is one step: a lost
increment is not modelled.

`TaskOrder` is what the queue promises: an accepted task goes through exactly
once, after the tasks its context had accepted before it. It has no ids, pools,
semaphores or threads. The refinement mapping is
`Order == INSTANCE TaskOrder WITH CtxOfTask <- Ctx, accepted <- Accepted,
before <- Before, through <- Through`: accepted are the tasks that have an id,
`Before` is read off the context ids, and a task is through when it is `done`.

### SyncObject: contexts, sync objects and their holders

A wait task holds its object through an instance on `instance_list`, a render
the object its DMA signals, both their context. The model has the creation of
objects with its limit and its failure, client waits, server waits and renders,
satisfaction, the timeout, forced values, the discarded and the reset task,
the release in its two parts (`deinit_task_desc` gives the context back,
`do_release_task` the object), the destruction of an object at once or later
(`vidschi_destroy_defer_sync_obj` runs inside the calls for other objects), and
`cm_destroy_context` with both polling loops of `cm_wait_context_idle` and
`task_dropped`. `RenderShared` is a render with an implicit wait in front of it.
`submitting` is the worker on its way back from
`vidschi_prepare_and_submit_dma`, about to write `last_submit_to_sw`.

`TestLimit` and `CreateSyncObject` are two steps, as the limit of objects is
tested and the count raised without a lock. `Creators` bounds how many threads
are past the test at once.

Assumed of the client: it does not destroy an object or a context while one of
its threads is in a call on it. `GiveUp` is whether the last polling loop may
run out (after 1000 polls the code frees a context that is still held).

### VidMmPaging: residency and destruction of allocations

A task goes `new, pending, lock, paging, ready, patch, hw`, back over `retry`,
or ends as `drop, dropped`: the steps of `vidschi_resident_task_allocations`
and of the submission that follows. Whoever holds `paging_lock` goes through
`in, build, outsub, outwait, submit, set`: take memory, choose allocations to
page out, submit the copies and wait for them, submit the copies in, record
their fences. A client pins (`vidmm_mark_allocation_unpagable`), raising
`force_unpagable` and looking at the segment without a lock. The last reference
may go at any time; an allocation that is not idle is deferred and destroyed by
the daemon. There is one local segment, a place is the memory of one allocation
(`HeapManager` has the heap), and `segment_id`, the list node and the address
change together. The history variable `failed` counts pins that found no memory
(see the errors below).

### DmaFence: fences for other drivers

A render emits a fence with the value 2^64 - 1 before it has a fence id, and
attaches it to its buffer. The model has the emission, the fence's id at
submission, the discard, the poll (`gf_dma_fence_signaled`), the enabling of
signaling, `post_event`, the event thread with its private list, and a DMA sync
object that collects the fences of a buffer, adds a callback to each and wakes
the worker when the last is signaled. The history variable `missed` holds the
fences whose wake-up came while a thread was on its way to put them on the list
(see the races below). The locks are kept, since the sync
object takes them in the order opposite to that of the callbacks. `dma_fence_t`, callbacks and
reservations are Linux (external).

### RingBuffer, HandleManager, HeapManager

`RingBuffer` has the three parts of `ring_buffer_get_space` as steps, with the
GPU reading in between, since head is a register, and the daemon restarting the
ring between any two of them, since it does not take `engine_lock` (`Restart`;
its race with the read and write of one pointer is not modelled). Any request may
come at any time: renders wait for a hardware queue slot, but paging tasks do
not, and the video engines' requests are whole DMA buffers. A request as large as
the ring is written over its end; there the model stops (`overrun`). The history
variable `crowded` says that more was asked for than the ring had free.
`reserved_size` is 0, as for the only user. `HandleManager` has
`add_handle` and `remove_handle` as atomic steps (they hold `bitmap_lock`); the
searched bit is described by what it is, not by the loop. `HeapManager` keeps
the free list as a sequence in list order, because the first node that fits is
taken; its calls are atomic under the heap's lock. A release removes its lower and
then its upper neighbour; the code looks for both first, which is the same, since
no node is both. Alignment is by division; the code's masks do the same for the
powers of two it is called with. The history variable `lost`
holds the parts a failing `gf_calloc` leaves in no list.

The `MC...` modules only name instances; `MCUtilities` puts the three data
structures, which share nothing, side by side for one run, one moving at a time. The `...Proofs` modules hold theorems.

## 3. Model-checking runs

Every passing property has a mutant: a plausible bug (`Bug...` definitions next
to the code they replace) that makes TLC report a violation.

| Run | Shows | Bounds |
|---|---|---|
| `engine_gfx` | `FenceBackIsDone`, `ReleasedIsIdle`, `HwQueueBound`, `ResetSkipsDeadDma` | 2 renders, 1 paging task, 1 slot, 1 GPU hang; false alarms unlimited. A second task is needed for id order, paging to bypass the slot; three tasks leave one in front of, one in and one behind the window of the reset |
| `engine_live` | `HwQueueBound` across the VPP jump, `EveryTaskReleased` | 2 renders, 1 slot, 1 hang, interrupts lost at will; the first id jumps, so the slot is tested while a task behind the jump is in flight |
| `queue` | `NoTaskLost`, `SemaAccounts`, `PendingIsCounted`, `NoCircularWait`, `RendersSubmitted`, the refinement `ImplementsOrder` | 4 tasks of 2 threads and contexts, a pool of 2 places so that clients block, 1 hardware slot, a serialized engine; once 4 kinds of tasks, once 4 renders |
| `sync_tasks` | `RefsAccount`, `InstancesAccount`, `HeldIsAlive`, `LimitHolds`, `DestroyReturns` | 1 context, 2 objects, 3 tasks, 2 creating threads at a limit that lets one through, 1 failing creation: two tasks share an object while the third is in another state |
| `paging` | `PlacesAccount`, `GpuMemoryStays`, `CountsAccount`, `NeededIsAlive`, `PinnedIsResident`, `DeferredIsDestroyed` | 2 allocations that share 1 place, a task on the paging engine and one on another, 1 pinning client, 1 retry (1000 in the code): every page-in pages out, and may fail |
| `dma_fence` | `SignaledIsFinished`, `RefsAccount`, `CreateReturns`, `SignalsFollow` | 2 fences of one engine (they share a lock), a sync object of another engine, pollers |
| `utilities` | `HandlesResolve`, `LeftNumAccounts`, `RefusedOnlyWhenFull`; `HeapIsTiled`, `UsedIsInside`, `NoFragments`, `FreeListOrdered`; `NeverRefused`, `UnreadStays` | table: 4 usable slots, 5 objects, so that it fills and wraps. Heap: 16 units starting off-alignment, 3 sizes, alignments below and above the heap's, 1 failing `gf_calloc`. Ring: 8 units, requests 1, 3, 5 and 9, so that requests fit, wrap, meet unread commands and exceed the ring |

`TypeOK` is checked in `engine_gfx`, `queue` and `paging`, `RingTypeOK` in
`utilities`. `CHECK_DEADLOCK FALSE` is used where the finite set of tasks is used
up (the scheduler, sync, paging and fence models); the utility models never stop.

### Disagreements

Each has a run TLC must refute (details under `findings`):

* `engine_vcp_reset`: "update fence id skip the dead dma" writes one of the two
  words a VCP engine reads the minimum of. The dead tasks are not back.
* `queue_orders`: "must not re-entry, guranteed by kernel interface lock"
  (`vidsch_render.c:41`), but `krnl_render` takes no lock. Two threads that render
  to one context can take its ids and the engine's in opposite orders, and then
  each of the two tasks waits for the other. (Two threads, one context, 4 renders.)
* `queue_wakeup`: "worker thread will be wakeup in three place"
  (`vidsch_workerthread.c:219`); the third, the v-sync interrupt, does not exist.
  A scan skips task 2, gets the satisfied wait 1 in front of it through without GPU
  work and puts 2 back: nothing wakes the worker for it. (The four kinds of tasks
  of `queue`, with contexts of their own.)
* `context_late_write`: the worker writes `last_submit_to_sw` of a task's
  context after the task can have been released and the context freed; a
  comment in the same call says deletion "would not happened".
* `paging_wait`: a task reads `last_paging` before it takes `paging_lock`. What
  another worker pages in meanwhile is resident at the second look, and its copy
  is not waited for ("multi-engine sync: wait paging back"). The theorem
  `UnsharedPagedIn` shows that it takes an allocation tasks of two engines use.

### Errors and races the properties make an exception for

* *Reset race.* The daemon takes neither `engine_lock` nor `hw_reset_lock`
  (commented out, `vidsch_submit.c:51`). From the move of the fence word to the
  restart of the ring, a stale notification declares back, and lets be released,
  whatever the GPU has still to execute; what it executes until the restart it
  executes with a freed DMA buffer. After the restart the same holds of at most one
  task, the one whose critical section lasted from before the move until after the
  restart. `FenceBackIsDone` and `ReleasedIsIdle` except these tasks
  (`overtaken`) and state the "at most one"; without the exception TLC finds both
  releases.
* *Word written back.* In the same window the GPU may write its own fence over
  the moved word (when it was not hung), and a DMA with a newer id can be kicked
  off and thrown away. These are not back when the daemon resumes.
  `ResetSkipsDeadDma` is about what a hung GPU was left with; the rest is found by
  the next hang detection (`EveryTaskReleased`).
* *Failed pin.* `vidmmi_prepare_one_allocation` sets `paging_allocation_num` to
  1 before it knows whether there is memory (`vidmm_paging.c:851`): a failure
  takes back a `render_count` that was never added. `CountsAccount` states the
  count with this error in it; the others except such allocations (`failed`).
* *Five bits.* `force_unpagable` has 5 bits, so the 32nd pin makes an allocation
  pagable. With two clients and `PinModulus = 2` TLC finds `PinnedIsResident`
  violated; the run has one client. A second pin also returns while the copy of
  the first page-in still runs.
* *Idle test.* `vidschi_wait_worker_thread_idle` looks at `normal_task_pool`
  alone and returns while the worker holds tasks in its own pools.
* *Lost wake-up of the event thread.* Between the look at a fence's id and the
  increment of `fence_count` (`gf_fence.c:65`), `post_event` may see zero; the
  thread waits without a timeout. `SignalsFollow` says that a fence is signaled
  unless this happened to it, and a sync object unless it happened to one of its
  fences (`missed`). No interrupt for other work is assumed: such a fence waits for
  one, for ever if none comes.
* *Count of objects.* The test and the increment of `sync_obj_count` are two steps
  (`vidsch_sync.c:131`, `:138`), so as many creators as test it at once pass the
  limit together; and a failed creation keeps its place. `LimitHolds` states this
  bound.
* *Space left in the ring.* `ring_buffer_get_space` computes `size + head - tail`
  also when the GPU's head is in front of the tail (`ring_buffer.c:76`). It
  therefore refuses nothing that is smaller than the ring (`NeverRefused`), the
  caller's loop never goes round, and space with unread commands is handed out when
  more is asked for than is free. `UnreadStays` is about rings in which that did
  not happen. A graphics engine takes a fixed, small structure per task from 256 KB;
  5 slots bound its renders, nothing bounds the paging tasks
  (`vidsch_submit.c:139`), and nothing bounds a DMA buffer that a video engine
  copies (`vidsch_engine_submit_e3k.c:846`).

### Conditions the passing runs rest on

* `NoCircularWait` has the agreement of the orders as its premise; that premise
  can fail (`queue_orders`). The refinement of `TaskOrder` does not need it.
* `RendersSubmitted` is about engines that get only renders (see `queue_wakeup`),
  with one thread per context: with two, `queue_orders` would block them.
* `DestroyReturns` needs `GiveUp = FALSE`, and rests on the timeout for waits on
  DMA fences, which `task_dropped` does not force. A forced value may lower
  that of a fence.
* `CreateReturns` rests on `num_pending` being set before the loop
  (`gf_fence.c:374`): a signaler takes the sync object's lock only when the loop
  needs no more locks.
* When `gf_calloc` fails in `heap_allocate`, the space cut off the free node is
  in no list any more (`lost`); `heap_destroy` will find the heap "not merged".

### Fairness

Creating, discarding, pinning, destroying and hanging are never forced. Forced,
weakly, are:

* Engine: the worker's and paging threads' steps (kernel threads are
  scheduled), the GPU unless it hangs, a pending interrupt, the waiters'
  timeouts (`vidsch_wait_fence_back` waits with a timeout and then notifies by
  itself), and the daemon, an event thread with a period
  (`DAEMON_THREAD_INTERVAL`). Interrupts may be lost in every write.
* Queue: a thread inside the driver, the worker, the GPU and the interrupt.
  Here interrupts are not lost; `VidSchEngine` covers lost ones.
* Sync objects: the worker's look at a task only while a context is in the last
  loop of `cm_wait_context_idle`, which wakes the worker each 10 ms; the GPU
  finishes or the daemon resets it; completed tasks are released; the destroyer
  keeps polling.
* Paging: threads inside the driver, the GPU, and the daemon, which looks at
  `defer_destroy_list` again in each period.
* DMA fences: the event thread once woken, threads inside the driver, and the
  end of a spin on a lock that is released. Interrupts for other work may come and
  need not.

## 4. Proofs

Constants are arbitrary within the named assumptions of the modules
(`EngineAssumption`, `QueueAssumption`, `SyncAssumption`, `PagingAssumption`,
`FenceAssumption`, `RingAssumption`, `HandleAssumption`, `HeapAssumption`). Sets that are counted
are finite there: the tasks of the queue and of paging, clients, allocations and
fences. Hypotheses beyond these are in the theorems' statements: `GiveUp = FALSE`,
`FenceRead # "min"`, `FewPins`, `NotShared`.

* `VidSchEngineProofs`: `TypeCorrect`, `FenceBackSafe`, `ReleaseSafe`.
  `FenceBackIsDone` alone is not inductive. `IndInv` adds: ids are distinct and
  the task in the critical section holds the newest (`FenceIdsOK`); what is in
  the ring was kicked off, and has not written both words (`RingOK`); a word
  has not reached a task that has still to write it (`WordsOK`), except for the
  tasks a reset overtook; the worker's reservation and the daemon's reference are
  counted, so that counters stay natural numbers (`CountersOK`); the overtaken
  tasks are, before the restart of the ring, what the GPU had to execute when the
  word was moved, afterwards at most the one in the critical section, and without
  recovery there are none (`OvertakenOK`). There is one lemma per action; the
  fence that is read is below every unfinished task by `WordsOK`
  (`HwFenceBelowUnfinished`), for each of the three ways of reading it, VCP's
  included. `ReleaseSafe` adds that without recovery `overtaken` is empty.
  `QueueBounded`: the slot test reads `uncomplete_task_num`, which jumps with the
  VPP ids and is computed before the jump. `BoundInv` says that it is never below
  the number of render tasks that are not back (`Outstanding`), which are no more
  than the ids between the two fence ids (`OutstandingFits`). `ResetSkips`, for
  the engines that do not read the minimum: by `SkipInv` a hung GPU does not write
  the word until the ring restarts, and then only ids above it, in ring order, so
  the word stays past the skipped tasks.
  With "min" the property is false; the run `engine_vcp_reset` shows it.
* `VidSchQueueProofs`, for any number of threads on a context.
  `QueueKeepsOrder`, the refinement of `TaskOrder`: `FifoInv` adds that the ids up
  to `last_submit_to_sw` are exactly those that went through (`FifoIds`), and that
  the task in the worker's hands is queued and next in its context
  (`FifoPools`). Each step maps to `Accept`, `Submit` or a stutter.
  `TurnsNeverBlock`: ids are handed out without gaps, in a context
  (`ContextIdsHeld`) and on the engine, where those above `last_submit_task_id`
  belong to tasks on their way (`GlobalIds`). So the next task of the engine is
  queued once no thread is on its way into the pool; if an earlier one of its
  context were queued too, it would come later on the engine, against the
  agreement of the orders.
  `SemaBalanced`, `PendingCounted`, `QueueTypeCorrect`: `CountInv` splits
  `total_task_num` into the tasks on their way in, the pool and the round of the
  worker. `TasksKept`: `PlacesInv` adds what the worker's hand may hold at each
  of its steps, and that no list holds a task twice: the proof is about `Append`,
  `Tail` and the splice of two lists without common tasks.
* `SyncObjectProofs`: `RefsBalanced`, `HeldStaysAlive` under `GiveUp = FALSE`,
  for any number of contexts, objects and tasks. `RefInv` adds which states
  hold an object and whose tasks are on an engine's list. `LimitKept` by
  `LimitInv`: the count is that of the client's objects and of the failures, and
  with the threads that are past the test it stays within the bound.
  `InstancesCorrect` holds whether or not a context is given up: a wait's object was
  created (`WaitersOK`), which is all that is needed to show that `TakeOff` and
  `AddOn` find a wait's instance where it is. The lists of all objects are related
  to all waits at once, so the two lemmas are about a list and the waits on it.
* `VidMmPagingProofs`, in six layers, each resting on those before it:
  1. `PlacesCorrect`. `PlacesInv` adds that a place is held in one of three roles
     (resident, coming, leaving), that allocations come and leave only under
     `paging_lock`, and that what is paged was created.
  2. `PagingTypes`, `CountsCorrect`. `PagerOK` adds who holds `paging_lock` and
     for whose allocations, and that a pin with nothing to page in has failed;
     a claim is only given back by the task that took it.
  3. `NeededAlive`. By `AliveOK`, what has users or a fence that is not back is
     not idle, which is what destruction tests; it needs 2, since the code tests
     the counts and not the users.
  4. `MemoryStays`. `JobsOK` relates each job on an engine to the fences of what
     it uses: an allocation leaves only after these are back. `ResidentOK`
     carries what a task was made resident with to its submission.
  5. `PinnedStays`, under `FewPins`: one allocation has fewer pins than
     `force_unpagable` can count. `PinCounts` then makes it the number of pins, and
     a pinned allocation is no candidate for paging out. Without the hypothesis
     the property is false (see the five bits above).
  6. `UnsharedPagedIn`: `PagedInBeforeUse`, which `paging_wait` refutes, holds as
     long as no allocation is used by tasks of two engines (`NotShared`). Then only
     the task itself or a pin pages an allocation in while the task is at it, since
     an engine has one worker (`OneTask`); `CoveredOK` says that the fence the task
     waits for is no older than the last copy of each of its allocations, or that
     copy is still waited for under `paging_lock`. `SettledOK` (no copy is sent for
     what a ready task uses) needs 2, 3 and 4; `WaitInv` puts them together. TLC
     checked `WaitInv` on the instance of `paging_wait` and on one with three
     tasks, one pin and two engines (3.4 million states) before it was proved.
* `DmaFenceProofs`: `SignaledFinished`, `FenceRefsBalanced`, from one invariant,
  `FencesInv`. A fence's references are held by its render until it is sent, its
  reservation, the lists of the event thread and the sync object, so `RefsAccount`
  needs that a fence is on one list once (`ListsOK`), that what is listed was
  enabled (`EmittedOK`), and that the sync object waits for it in one way
  (`SyncOK`). `SignaledIsFinished` needs that an id not given yet is larger than
  any that is back (`SentOK`).
* `RingBufferProofs`: `RingTypes`, `SpaceNeverRefused`, `UnreadKept`, for any
  size and any requests, with a restart between any two steps. `SpaceOK` says why
  nothing is refused: after the wrap test the request fits in front of the end, and
  the recomputed space is at least that. `RoomOK` follows the tail, relative to the
  GPU's two registers, through the steps of a request that had room; `UnreadKept`
  adds that the unread offsets are then the stretch from the GPU's head to the
  tail. None of them uses `left_size`, which does not protect the ring.
* `HandleManagerProofs`: `HandlesCorrect`, `LeftNumCorrect`, `RefusalCorrect`
  for a table of any size greater than one. `HandleInv` adds that bitmap, table
  and live handles describe the same slots.
* `HeapManagerProofs`: `HeapTiled`, `UsedInsideNode`, `NothingFragmented`,
  `FreeListCorrect`, for any start, size, alignments and requests. Nodes are sets of
  addresses: `Tiled` says that no two nodes meet and that together they are the
  heap, and a split and a merge keep it (`SplitTiled`, `MergeTiled`) because the
  parts cover what the whole covers. `PlaceFacts` is the arithmetic of the two
  directions. The list is tied to the set of its nodes by `NoRepeats`; `AddNode` and
  `TakeNode` say what insertion and removal do to both. The size of the free list is
  the number of free addresses, which needs no sum over a list.

Every safety property the passing runs check is a theorem. Only model-checked is
liveness, which is outside the prover's reach: `EveryTaskReleased`,
`RendersSubmitted`, `DestroyReturns`, `DeferredIsDestroyed`, `CreateReturns`,
`SignalsFollow`.

## 5. Not modelled

* Splitting of DMA buffers (switched off in `global.c:81`) and patching.
* Mutex and semaphore objects, waits on several objects at once.
* Gart and further segments, temporary paging memory, swap files, CPU locking
  (`vidmm_lock.c`), creation that must succeed.
* Suspend and resume: freezing of threads, saving of fences and memory.
* Primary buffers of the display in `gf_fence.c`, and fences of other drivers.
  The sync object's filter for its own engine is in `DmaFence`, but the run has
  no fence of that engine.
* Failed allocations that the code does not test (`gf_fence.c:361`), and reads
  of freed debug data (`vidsch_daemon_thread.c:113`): nothing can be said of
  the state afterwards.
* Power and frequency control, performance events, the kernel interface (it
  unpacks arguments and calls), cbios and mode setting (register programming
  without concurrency of its own), prebuilt user-mode libraries.

`PROJECT.json` gives the reason for each component.

## 6. Plan

In this order: suspend and resume as one model across worker, event thread and
memory manager; CPU locking against paging; mutex and semaphore objects. Of the
five statements that runs refute, two are theorems under a condition (`ResetSkips`,
`UnsharedPagedIn`); for `context_late_write`, `HeldStaysAlive` gives the part that is
true, that the context exists as long as a task holds it; `TurnsNeverBlock` says
what follows where the orders agree, and `RendersSubmitted` (model-checked) where no
wake-up is missing.
