----------------------------- MODULE VidSchQueue -----------------------------
(***************************************************************************)
(* The pending task pool of one engine: client threads create render, wait *)
(* and signal tasks and add them to normal_task_pool; the worker thread    *)
(* submits them in the order of two ids, the id a task has within its      *)
(* context and (on a serialized engine) the id it has within the engine.   *)
(*                                                                         *)
(* A task moves through                                                    *)
(*   new -> enter -> slot -> numbered -> queued -> done                    *)
(* where "enter" has its context task id, "slot" has passed                *)
(* normal_pool_sema, "numbered" has its global id and is counted in        *)
(* total_task_num, and "queued" is in a pool.  A client wait goes          *)
(* new -> client -> done; a signal is first tried on the spot, in "try".   *)
(*                                                                         *)
(* The engine behind the pool is abstracted to the number of hardware      *)
(* queue slots in use; VidSchEngine has the details.  A render that needs  *)
(* implicit synchronisation is a wait followed by a render of one thread   *)
(* (vidsch_render queues the two with swapped ids).                        *)
(***************************************************************************)
EXTENDS Naturals, Sequences, SequencesExt, FiniteSets

CONSTANTS
  Tasks, Threads, Contexts,
  ThreadOf,       \* the client thread that creates a task
  CtxOf,          \* the context a thread submits to
  NoTask,
  Setups,         \* the engines and mixes of tasks that are looked at
  QueueLength,    \* PENDING_TASK_QUEUE_LENGTH
  HwQueueSize     \* sch_mgr->hw_queue_size

ASSUME QueueAssumption ==
  /\ IsFiniteSet(Tasks)
  /\ ThreadOf \in [Tasks -> Threads] /\ CtxOf \in [Threads -> Contexts]
  /\ Setups \subseteq [kind : [Tasks -> {"render", "wait", "client", "signal"}],
                       serialize : BOOLEAN]
  /\ NoTask \notin Tasks
  /\ QueueLength \in Nat \ {0} /\ HwQueueSize \in Nat \ {0}

VARIABLES
  setup,                              \* chosen once, by Init
  st,
  ctx_task_id, last_submit_to_sw,     \* gpu_context_t
  context_task_id, global_task_id,    \* task_desc_t
  task_id, last_submit_task_id,       \* vidsch_mgr_t, serialized engines
  notifying,                          \* signals whose thread has still to notify
  sema,                               \* normal_pool_sema
  total_task_num,
  pool,                               \* normal_task_pool
  event,                              \* the worker thread's wake-up flag
  worker, schedule_pool, unready_pool, cur, submited_count,
  busy,                               \* slots in use, as the driver knows
  retired,                            \* of those, retired by the GPU
  irq,                                \* a fence interrupt is pending
  signaled,                           \* wait tasks whose object is signaled
  waiter                              \* a thread in vidsch_wait_engine_idle

ctxVars == <<ctx_task_id, last_submit_to_sw, context_task_id>>
idVars == <<global_task_id, task_id, last_submit_task_id>>
poolVars == <<sema, total_task_num, pool>>
workerVars == <<worker, schedule_pool, unready_pool, cur, submited_count>>
hwVars == <<busy, retired, irq, signaled>>
vars == <<setup, st, ctxVars, idVars, notifying, poolVars, event, workerVars,
          hwVars, waiter>>

Ctx(t) == CtxOf[ThreadOf[t]]

\* "wait" is a wait of the worker (server wait), "client" one of its thread.
Kind(t) == setup.kind[t]

\* task_id_lock exists: schedule_serialize of the engine.
Serialize == setup.serialize

Init ==
  /\ setup \in Setups
  /\ st = [t \in Tasks |-> "new"]
  /\ ctx_task_id = [c \in Contexts |-> 0]
  /\ last_submit_to_sw = [c \in Contexts |-> 0]
  /\ context_task_id = [t \in Tasks |-> 0]
  /\ global_task_id = [t \in Tasks |-> 0]
  /\ task_id = 0 /\ last_submit_task_id = 0
  /\ notifying = {} /\ sema = QueueLength /\ total_task_num = 0
  /\ pool = <<>> /\ event = FALSE
  /\ worker = "asleep" /\ schedule_pool = <<>> /\ unready_pool = <<>>
  /\ cur = NoTask /\ submited_count = 0
  /\ busy = 0 /\ retired = 0 /\ irq = FALSE
  /\ signaled = {t \in Tasks : Kind(t) # "wait"}
  /\ waiter = "none"

-----------------------------------------------------------------------------
(* Client threads.                                                         *)

ThreadFree(th) ==
  \A t \in Tasks :
    ThreadOf[t] = th => st[t] \in {"new", "queued", "done"} /\ t \notin notifying

\* Plausible bug: any task newer than the last one may go.
BugAnyNewer(t) == context_task_id[t] > last_submit_to_sw[Ctx(t)]

\* vidschi_can_submit_task: every earlier task of the context went through.
CanSubmit(t) == context_task_id[t] = last_submit_to_sw[Ctx(t)] + 1

\* Plausible bug: the interrupt never wakes the worker.
BugNeverWake == UNCHANGED event

\* A wake-up from vidschi_notify_fence_interrupt, only if tasks are pending.
WakeIfPending == event' = (event \/ total_task_num > 0)

\* Plausible bug: the id is derived from the last submitted task.
BugIdFromLastSubmitted(c) == last_submit_to_sw[c] + 1

\* ++context->task_id
NewContextTaskId(c) == ctx_task_id[c] + 1

\* The id is taken on entry of vidsch_render, vidsch_wait_sync_object and
\* vidsch_signal_sync_object.  A wait is first tried without a context id, which
\* never succeeds for a fence object.
Create(t) ==
  LET c == Ctx(t) IN
  /\ st[t] = "new" /\ ThreadFree(ThreadOf[t]) /\ waiter = "none"
  /\ ctx_task_id' = [ctx_task_id EXCEPT ![c] = NewContextTaskId(c)]
  /\ context_task_id' = [context_task_id EXCEPT ![t] = NewContextTaskId(c)]
  /\ st' = [st EXCEPT ![t] = CASE Kind(t) = "client" -> "client"
                               [] Kind(t) = "signal" -> "try"
                               [] OTHER -> "enter"]
  /\ UNCHANGED <<last_submit_to_sw, idVars, notifying, poolVars, event,
                 workerVars, hwVars, waiter, setup>>

\* The task went through; later tasks of its context may follow.
Finish(t) ==
  /\ last_submit_to_sw' = [last_submit_to_sw EXCEPT ![Ctx(t)] = context_task_id[t]]
  /\ st' = [st EXCEPT ![t] = "done"]

\* A client wait ends on its thread, without a global id, when it is satisfied
\* or timed out; a timeout only counts when it is the wait's turn.
ClientWait(t) ==
  /\ st[t] = "client" /\ CanSubmit(t)
  /\ Finish(t)
  /\ UNCHANGED <<ctx_task_id, context_task_id, idVars, notifying, poolVars,
                 event, workerVars, hwVars, waiter, setup>>

\* vidsch_signal_sync_object: signal on the spot if it is its turn, else queue.
TrySignal(t) ==
  /\ st[t] = "try"
  /\ IF CanSubmit(t) THEN Finish(t) /\ notifying' = notifying \cup {t}
     ELSE /\ st' = [st EXCEPT ![t] = "enter"]
          /\ UNCHANGED <<last_submit_to_sw, notifying>>
  /\ UNCHANGED <<ctx_task_id, context_task_id, idVars, poolVars, event,
                 workerVars, hwVars, waiter, setup>>

\* The vidsch_notify_interrupt at its end.
SignalNotify(t) ==
  /\ t \in notifying /\ notifying' = notifying \ {t}
  /\ WakeIfPending
  /\ UNCHANGED <<st, ctxVars, idVars, poolVars, workerVars, hwVars, waiter,
                 setup>>

\* vidschi_add_task_to_pending_queue, first step: gf_down(normal_pool_sema).
DownSema(t) ==
  /\ st[t] = "enter"
  /\ sema > 0 /\ sema' = sema - 1
  /\ st' = [st EXCEPT ![t] = "slot"]
  /\ UNCHANGED <<ctxVars, idVars, notifying, total_task_num, pool, event,
                 workerVars, hwVars, waiter, setup>>

\* Plausible bug: the task is not counted when it is added.
BugNotCounted == UNCHANGED total_task_num

CountTask == total_task_num' = total_task_num + 1

\* The global id, under task_id_lock; total_task_num is incremented after it.
Number(t) ==
  /\ st[t] = "slot"
  /\ IF Serialize
     THEN /\ task_id' = task_id + 1
          /\ global_task_id' = [global_task_id EXCEPT ![t] = task_id + 1]
     ELSE UNCHANGED <<task_id, global_task_id>>
  /\ CountTask
  /\ st' = [st EXCEPT ![t] = "numbered"]
  /\ UNCHANGED <<ctxVars, last_submit_task_id, notifying, sema, pool, event,
                 workerVars, hwVars, waiter, setup>>

\* util_wakeup_event_thread
WakeWorker == event' = TRUE

\* vidschi_add_task_to_pool and the wake-up.
AddToPool(t) ==
  /\ st[t] = "numbered"
  /\ pool' = Append(pool, t)
  /\ WakeWorker
  /\ st' = [st EXCEPT ![t] = "queued"]
  /\ notifying' = IF Kind(t) = "signal" THEN notifying \cup {t} ELSE notifying
  /\ UNCHANGED <<ctxVars, idVars, sema, total_task_num, workerVars, hwVars,
                 waiter, setup>>

-----------------------------------------------------------------------------
(* The worker thread.                                                      *)

\* gf_thread_wait returns; the pool is moved to schedule_pool as a whole.
WorkerWake ==
  /\ worker = "asleep" /\ event
  /\ event' = FALSE
  /\ IF pool # <<>>
     THEN /\ worker' = "scan" /\ schedule_pool' = pool /\ pool' = <<>>
          /\ submited_count' = Len(pool)
     ELSE UNCHANGED <<worker, schedule_pool, pool, submited_count>>
  /\ UNCHANGED <<st, ctxVars, idVars, notifying, sema, total_task_num,
                 unready_pool, cur, hwVars, waiter, setup>>

\* It is the task's turn in both orders.
Ready(t) ==
  /\ CanSubmit(t)
  /\ Serialize => global_task_id[t] = last_submit_task_id + 1

\* Plausible bug: the place in the pool is not given back.
BugNoUp == UNCHANGED sema

UpSema == sema' = sema + 1

\* A task went through: its two ids become the last submitted ones and a place
\* in the pool is free again.
Submitted(t) ==
  /\ Finish(t)
  /\ IF Serialize THEN last_submit_task_id' = global_task_id[t]
     ELSE UNCHANGED last_submit_task_id
  /\ UpSema

SlotFree == busy < HwQueueSize

\* The worker fetches the first task of schedule_pool.
Fetch(t) ==
  /\ worker = "scan" /\ schedule_pool # <<>> /\ t = Head(schedule_pool)
  /\ schedule_pool' = Tail(schedule_pool)

\* It goes to unready_pool: it is not its turn, or its object is not signaled,
\* or no hardware queue slot is free.
WorkerSkip(t) ==
  /\ Fetch(t)
  /\ \/ ~Ready(t)
     \/ Kind(t) = "wait" /\ t \notin signaled
     \/ Kind(t) = "render" /\ ~SlotFree
  /\ unready_pool' = Append(unready_pool, t)
  /\ UNCHANGED <<st, ctxVars, idVars, notifying, poolVars, event, worker, cur,
                 submited_count, hwVars, waiter, setup>>

\* A wait whose object is signaled, or that exceeded its server wait time, or a
\* signal.
WorkerSync(t) ==
  /\ Fetch(t)
  /\ Kind(t) \in {"wait", "signal"} /\ Ready(t)
  /\ Submitted(t)
  /\ UNCHANGED <<ctx_task_id, context_task_id, global_task_id, task_id, notifying,
                 total_task_num, pool, event, worker, unready_pool, cur,
                 submited_count, hwVars, waiter, setup>>

\* A render enters vidschi_prepare_and_submit_dma: it is kicked off in a slot,
\* or it is discarded, which gives the slot back and notifies.
WorkerPrepare(t) ==
  /\ Fetch(t)
  /\ Kind(t) = "render" /\ Ready(t) /\ SlotFree
  /\ \/ busy' = busy + 1 /\ UNCHANGED event
     \/ WakeIfPending /\ UNCHANGED busy
  /\ cur' = t /\ worker' = "submit"
  /\ UNCHANGED <<st, ctxVars, idVars, notifying, poolVars, unready_pool,
                 submited_count, retired, irq, signaled, waiter, setup>>

\* vidschi_prepare_and_submit_dma returned; the task may have completed since.
WorkerSubmit ==
  /\ worker = "submit"
  /\ Submitted(cur)
  /\ worker' = "scan" /\ cur' = NoTask
  /\ UNCHANGED <<ctx_task_id, context_task_id, global_task_id, task_id, notifying,
                 total_task_num, pool, event, schedule_pool, unready_pool,
                 submited_count, hwVars, waiter, setup>>

\* Plausible bugs: the unready tasks replace the pool, or count as submitted.
BugReplacePool == pool' = unready_pool
BugCountUnready == total_task_num' = total_task_num - submited_count

\* vidschi_splice_task_pool
SplicePool == pool' = unready_pool \o pool

\* gf_atomic_sub(total_task_num, submited_count)
UncountSubmitted ==
  total_task_num' = total_task_num - (submited_count - Len(unready_pool))

\* The unready tasks go back in front of the pool.
WorkerEnd ==
  /\ worker = "scan" /\ schedule_pool = <<>>
  /\ SplicePool
  /\ unready_pool' = <<>>
  /\ UncountSubmitted
  /\ submited_count' = 0
  /\ worker' = "asleep"
  /\ UNCHANGED <<st, ctxVars, idVars, notifying, sema, event, schedule_pool, cur,
                 hwVars, waiter, setup>>

WorkerStep ==
  \/ WorkerWake \/ WorkerSubmit \/ WorkerEnd
  \/ \E t \in Tasks : WorkerSkip(t) \/ WorkerSync(t) \/ WorkerPrepare(t)

-----------------------------------------------------------------------------
(* The rest of the system.                                                 *)

\* The GPU (external) retires a task, or the fence object of a wait is signaled
\* by another engine.
GpuRetire ==
  /\ retired < busy
  /\ retired' = retired + 1 /\ irq' = TRUE
  /\ UNCHANGED <<st, ctxVars, idVars, notifying, poolVars, event, workerVars,
                 busy, signaled, waiter, setup>>

GpuSignal(t) ==
  /\ t \notin signaled
  /\ signaled' = signaled \cup {t} /\ irq' = TRUE
  /\ UNCHANGED <<st, ctxVars, idVars, notifying, poolVars, event, workerVars,
                 busy, retired, waiter, setup>>

\* vidschi_notify_fence_interrupt: returned_fence_id moves, the worker is woken
\* when tasks are pending.
FenceInterrupt ==
  /\ irq /\ irq' = FALSE
  /\ busy' = busy - retired /\ retired' = 0
  /\ WakeIfPending
  /\ UNCHANGED <<st, ctxVars, idVars, notifying, poolVars, workerVars, signaled,
                 waiter, setup>>

\* vidsch_wait_engine_idle, vidsch_destroy, once no thread submits any more:
\* vidschi_wait_worker_thread_idle, then vidsch_wait_fence_back.
WaitWorkerIdle ==
  /\ waiter = "none" /\ \A th \in Threads : ThreadFree(th)
  /\ pool = <<>>
  /\ waiter' = "worker_idle"
  /\ UNCHANGED <<st, ctxVars, idVars, notifying, poolVars, event, workerVars,
                 hwVars, setup>>

WaitFenceBack ==
  /\ waiter = "worker_idle" /\ busy = 0
  /\ waiter' = "engine_idle"
  /\ UNCHANGED <<st, ctxVars, idVars, notifying, poolVars, event, workerVars,
                 hwVars, setup>>

ThreadStep(t) ==
  \/ ClientWait(t) \/ TrySignal(t) \/ SignalNotify(t)
  \/ DownSema(t) \/ Number(t) \/ AddToPool(t)

Next ==
  \/ \E t \in Tasks : Create(t) \/ ThreadStep(t) \/ GpuSignal(t)
  \/ WorkerStep
  \/ GpuRetire \/ FenceInterrupt
  \/ WaitWorkerIdle \/ WaitFenceBack

Spec == Init /\ [][Next]_vars

\* Threads that entered the driver and the worker keep running, the GPU makes
\* progress and its interrupts arrive; nobody has to create a task or to wait
\* for the engine to become idle.
Fairness ==
  /\ \A t \in Tasks : WF_vars(ThreadStep(t)) /\ WF_vars(GpuSignal(t))
  /\ WF_vars(WorkerStep) /\ WF_vars(GpuRetire) /\ WF_vars(FenceInterrupt)

FairSpec == Spec /\ Fairness

-----------------------------------------------------------------------------
(* Properties.                                                             *)

\* The worker's and the clients' variables keep their types.
TypeOK ==
  /\ st \in [Tasks -> {"new", "client", "try", "enter", "slot", "numbered",
                       "queued", "done"}]
  /\ ctx_task_id \in [Contexts -> Nat] /\ last_submit_to_sw \in [Contexts -> Nat]
  /\ context_task_id \in [Tasks -> Nat] /\ global_task_id \in [Tasks -> Nat]
  /\ task_id \in Nat /\ last_submit_task_id \in Nat
  /\ notifying \subseteq Tasks
  /\ sema \in Nat /\ total_task_num \in Nat
  /\ pool \in Seq(Tasks) /\ event \in BOOLEAN
  /\ worker \in {"asleep", "scan", "submit"} /\ cur \in Tasks \cup {NoTask}
  /\ schedule_pool \in Seq(Tasks) /\ unready_pool \in Seq(Tasks)
  /\ submited_count \in Nat
  /\ busy \in Nat /\ retired \in Nat /\ irq \in BOOLEAN
  /\ signaled \subseteq Tasks
  /\ waiter \in {"none", "worker_idle", "engine_idle"}

Pending == {t \in Tasks : st[t] = "queued"}
Inside == {t \in Tasks : st[t] \in {"slot", "numbered", "queued"}}

\* A queued task is in exactly one of the three pools or in the worker's hands:
\* moving tasks between pools without a common lock neither loses nor doubles one.
NoTaskLost ==
  LET all == pool \o schedule_pool \o unready_pool
               \o (IF cur = NoTask THEN <<>> ELSE <<cur>>) IN
  Range(all) = Pending /\ Len(all) = Cardinality(Pending)

\* normal_pool_sema bounds the tasks between gf_down and gf_up: every path of
\* the worker gives back exactly the places of the tasks it got rid of.
SemaAccounts == sema + Cardinality(Inside) = QueueLength

\* total_task_num covers every task in a pool: an interrupt that comes while
\* one is pending never takes the "nothing to do" branch.
PendingIsCounted == Cardinality(Pending) <= total_task_num

\* vidschi_can_submit_in_main_thread: "must not re-entry, guranteed by kernel
\* interface lock".  Under such a lock the two orders agree: of two tasks of one
\* context, the one with the smaller global id has the smaller context id.
\* Otherwise each waits for the other.
OrdersAgree ==
  \A t, u \in Tasks :
    /\ Ctx(t) = Ctx(u)
    /\ 0 < global_task_id[t] /\ global_task_id[t] < global_task_id[u]
    => context_task_id[t] < context_task_id[u]

\* While the orders agree, the two turns cannot block each other: whenever no
\* thread is on its way into the pool, one of the tasks that are queued has both
\* its turn in its context and its turn on the engine.
NoCircularWait ==
  OrdersAgree /\ Pending # {} /\ (\A th \in Threads : ThreadFree(th)) =>
    \E t \in Pending : Ready(t)

-----------------------------------------------------------------------------
(* The queue implements TaskOrder.                                         *)

Accepted == {t \in Tasks : st[t] # "new"}

\* The tasks a task follows, read off the ids of its context.
Before ==
  [t \in Tasks |-> {u \in Accepted : /\ Ctx(u) = Ctx(t)
                                     /\ context_task_id[u] < context_task_id[t]}]

Through == {t \in Tasks : st[t] = "done"}

Order == INSTANCE TaskOrder
           WITH CtxOfTask <- Ctx, accepted <- Accepted, before <- Before,
                through <- Through

\* Seen from the clients, the ids, the pools and the worker amount to one rule:
\* each accepted task goes through once, after the earlier ones of its context.
ImplementsOrder == Order!Spec

\* Every accepted task goes through: the worker thread "will be wakeup" for
\* whatever a client handed over (main thread, fence interrupt, v-sync
\* interrupt), so that no task is left behind in a pool.
EveryTaskSubmitted ==
  \A t \in Tasks : (t \in Accepted) ~> (t \in Through)

\* On an engine that only gets renders each of them goes through: the fence
\* interrupt of an earlier one, or the notification when it is discarded, comes
\* after the worker put the later ones back.
RendersSubmitted ==
  \A t \in Tasks :
    (t \in Accepted /\ \A u \in Tasks : Kind(u) = "render") ~> (t \in Through)
-----------------------------------------------------------------------------
(* Types of the ids.                                                       *)

OrderTypeOK ==
  /\ st \in [Tasks -> {"new", "client", "try", "enter", "slot", "numbered",
                       "queued", "done"}]
  /\ ctx_task_id \in [Contexts -> Nat]
  /\ context_task_id \in [Tasks -> Nat] /\ global_task_id \in [Tasks -> Nat]
  /\ task_id \in Nat

-----------------------------------------------------------------------------
(* The inductive invariant behind ImplementsOrder.                         *)

\* What a pool holds was queued; whether it still is follows from its id.
Pooled(p) == \A i \in 1 .. Len(p) : st[p[i]] \in {"queued", "done"}

FifoTypeOK ==
  /\ OrderTypeOK
  /\ last_submit_to_sw \in [Contexts -> Nat]
  /\ pool \in Seq(Tasks) /\ schedule_pool \in Seq(Tasks)
  /\ unready_pool \in Seq(Tasks)

\* The ids of a context are handed out without repeats, and those up to
\* last_submit_to_sw are the ones that went through.
FifoIds ==
  /\ \A c \in Contexts : last_submit_to_sw[c] <= ctx_task_id[c]
  /\ \A t \in Tasks :
       /\ st[t] = "new" <=> context_task_id[t] = 0
       /\ st[t] = "done" <=> /\ context_task_id[t] # 0
                             /\ context_task_id[t] <= last_submit_to_sw[Ctx(t)]
       /\ context_task_id[t] <= ctx_task_id[Ctx(t)]
  /\ \A t, u \in Tasks :
       t # u /\ Ctx(t) = Ctx(u) /\ context_task_id[t] # 0 =>
         context_task_id[t] # context_task_id[u]

\* The task in the worker's hands is the next one of its context.
FifoPools ==
  /\ Pooled(pool) /\ Pooled(schedule_pool) /\ Pooled(unready_pool)
  /\ worker = "submit" => cur \in Tasks /\ st[cur] = "queued" /\ CanSubmit(cur)

FifoInv == FifoTypeOK /\ FifoIds /\ FifoPools

-----------------------------------------------------------------------------
(* The inductive invariant behind NoCircularWait.                          *)

\* No context id was handed out without a task.
ContextIdsHeld ==
  \A c \in Contexts : \A k \in 1 .. ctx_task_id[c] :
    \E t \in Tasks : Ctx(t) = c /\ context_task_id[t] = k

\* Each global id has one task, which is on its way through until
\* last_submit_task_id reaches it; the worker has the next one in its hands.
GlobalIds ==
  /\ last_submit_task_id \in Nat /\ last_submit_task_id <= task_id
  /\ \A k \in 1 .. task_id : \E t \in Tasks : global_task_id[t] = k
  /\ \A t \in Tasks :
       /\ global_task_id[t] <= task_id
       /\ st[t] \in {"numbered", "queued"} <=> last_submit_task_id < global_task_id[t]
       /\ global_task_id[t] # 0 => st[t] \in {"numbered", "queued", "done"}
  /\ \A t, u \in Tasks :
       t # u /\ global_task_id[t] # 0 => global_task_id[t] # global_task_id[u]
  /\ worker = "submit" => global_task_id[cur] = last_submit_task_id + 1

TurnOK == ContextIdsHeld /\ (Serialize => GlobalIds)

TurnInv == FifoInv /\ TurnOK

-----------------------------------------------------------------------------
(* The inductive invariant behind SemaAccounts and PendingIsCounted.       *)

Numbered == {t \in Tasks : st[t] = "numbered"}

\* The tasks the worker took from the pool and did not get rid of yet.
InHand ==
  Len(schedule_pool) + Len(unready_pool) + (IF worker = "submit" THEN 1 ELSE 0)

\* total_task_num counts the tasks on their way into the pool, those in it and
\* the round of the worker, of which submited_count has the size.
CountsAdd ==
  /\ total_task_num = Cardinality(Numbered) + Len(pool) + submited_count
  /\ InHand <= submited_count
  /\ worker = "asleep" => submited_count = 0
  /\ Cardinality(Pending) <= Len(pool) + InHand

CountInv == TypeOK /\ FifoInv /\ SemaAccounts /\ CountsAdd /\ retired <= busy

-----------------------------------------------------------------------------
(* The inductive invariant behind NoTaskLost.                              *)

InHands == {cur} \ {NoTask}

\* Each queued task has one place, in a pool or in the worker's hands; between
\* two rounds the worker has none.
PlacesOK ==
  /\ IsInjective(pool) /\ IsInjective(schedule_pool) /\ IsInjective(unready_pool)
  /\ Range(pool) \cap Range(schedule_pool) = {} /\ Range(pool) \cap Range(unready_pool) = {}
  /\ Range(schedule_pool) \cap Range(unready_pool) = {}
  /\ InHands \cap (Range(pool) \cup Range(schedule_pool) \cup Range(unready_pool)) = {}
  /\ Range(pool) \cup Range(schedule_pool) \cup Range(unready_pool) \cup InHands = Pending
  /\ cur # NoTask <=> worker = "submit"
  /\ worker = "asleep" => schedule_pool = <<>> /\ unready_pool = <<>>

PlacesInv == FifoInv /\ PlacesOK
=============================================================================
