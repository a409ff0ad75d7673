---------------------------- MODULE VidSchEngine ----------------------------
(***************************************************************************)
(* One hardware engine of the video scheduler: how a DMA task gets its     *)
(* fence id, is kicked off, completes, is released, and what the hang      *)
(* daemon does when the hardware stops answering.                          *)
(*                                                                         *)
(* Actors: the engine's single worker thread (render tasks), the threads   *)
(* that submit paging tasks, the GPU, the fence interrupt, and the hang    *)
(* daemon.  A task moves through                                           *)
(*   none -> allocated -> prepared -> fenced -> kicked -> submitted ->     *)
(*   released, where "fenced" is the critical section of engine_lock       *)
(*   between vidschi_inc_send_fence_id and chip_func->submit, and "kicked" *)
(*   is after engine_lock was dropped but before the task is on            *)
(*   submitted_task_list.  Paging tasks skip "prepared".                   *)
(*                                                                         *)
(* Time is abstracted: a task on the submitted list may time out whenever  *)
(* its fence is not back.                                                  *)
(***************************************************************************)
EXTENDS Naturals, Sequences, FiniteSets

CONSTANTS
  Render,          \* DMA tasks submitted by the worker thread
  Paging,          \* paging tasks, submitted by any thread (GFXL engine only)
  NoTask,          \* no hung task
  HwQueueSize,     \* sch_mgr->hw_queue_size
  FenceRead,       \* chip_func->update_fence_id: "max" gfx, "min" vcp, "main" vpp
  SkipAt, SkipLen, \* window of fence values the VPP engine must not use
  RecoveryEnable,  \* ctl_flags.recovery_enable
  MaxHangs         \* bound: how often the GPU stops by itself

ASSUME EngineAssumption ==
  /\ Render \cap Paging = {}
  /\ NoTask \notin Render \cup Paging
  /\ HwQueueSize \in Nat \ {0}
  /\ FenceRead \in {"max", "min", "main"}
  /\ SkipAt \in Nat /\ SkipLen \in Nat
  /\ RecoveryEnable \in BOOLEAN
  /\ MaxHangs \in Nat

Tasks == Render \cup Paging

VARIABLES
  last_send_fence_id, returned_fence_id, \* vidsch_mgr_t, under fence_lock
  uncomplete_task_num, prepare_task_num,
  st,                  \* task state, see above
  fence_id, ref_cnt, reset_dropped,      \* task_desc_t
  submitted_task_list,
  fence_be, fence_fe,  \* the fence words the GPU writes (main and "fake")
  ring,                \* tasks in the ring buffer the GPU has not retired
  gpu_done,            \* of those, the ones whose commands have executed
  be_done, fe_done,    \* of those, the ones whose fence word was written
  gpu_stuck, hangs,
  irq,                 \* a fence interrupt is pending
  notify,              \* some thread in vidsch_notify_interrupt is past the
                       \* disable_schedule check and will read the fence
  daemon, hang_task, disable_schedule,
  raced,               \* tasks inside the critical section when the ring was
                       \* restarted: their ring space may be of the old ring
  overtaken,           \* history: tasks the daemon moved the fence word over
                       \* although the GPU had still to execute them
  skipped              \* history: of those, the ones a hung GPU was left with

fenceVars == <<last_send_fence_id, returned_fence_id, uncomplete_task_num,
               prepare_task_num>>
taskVars  == <<st, fence_id, ref_cnt, reset_dropped, submitted_task_list>>
gpuVars   == <<fence_be, fence_fe, ring, gpu_done, be_done, fe_done,
               gpu_stuck, hangs>>
historyVars == <<overtaken, skipped>>
daemonVars == <<daemon, hang_task, disable_schedule, raced, historyVars>>
irqVars == <<irq, notify>>
vars == <<fenceVars, taskVars, gpuVars, irqVars, daemonVars>>

TaskStates == {"none", "allocated", "prepared", "fenced", "kicked",
               "submitted", "fake", "released"}
DaemonStates == {"idle", "hung", "stop", "reset", "restore", "drop", "resume",
                 "halted"}

Init ==
  /\ last_send_fence_id = 0 /\ returned_fence_id = 0
  /\ uncomplete_task_num = 0 /\ prepare_task_num = 0
  /\ st = [t \in Tasks |-> "none"]
  /\ fence_id = [t \in Tasks |-> 0]
  /\ ref_cnt = [t \in Tasks |-> 0]
  /\ reset_dropped = [t \in Tasks |-> FALSE]
  /\ submitted_task_list = <<>>
  /\ fence_be = 0 /\ fence_fe = 0
  /\ ring = {} /\ gpu_done = {} /\ be_done = {} /\ fe_done = {}
  /\ gpu_stuck = FALSE /\ hangs = 0
  /\ irq = FALSE /\ notify = FALSE
  /\ daemon = "idle" /\ hang_task = NoTask /\ disable_schedule = FALSE
  /\ raced = {} /\ overtaken = {} /\ skipped = {}

-----------------------------------------------------------------------------
(* Fence ids.                                                              *)

\* The value chip_func->update_fence_id reads from the fence words.
HwFence ==
  CASE FenceRead = "max"  -> IF fence_be > fence_fe THEN fence_be ELSE fence_fe
    [] FenceRead = "min"  -> IF fence_fe > fence_be THEN fence_be ELSE fence_fe
    [] FenceRead = "main" -> fence_be

\* The id after f; the VPP engine jumps over the values its parser misreads.
NextFenceId(f) ==
  IF FenceRead = "main" /\ f + 1 \in SkipAt .. (SkipAt + SkipLen - 1)
  THEN f + 1 + SkipLen ELSE f + 1

\* Plausible bug: the slot is given back for paging tasks too.
BugIncAlwaysDecPrepare(t, dec_prepare) ==
  /\ last_send_fence_id' = NextFenceId(last_send_fence_id)
  /\ uncomplete_task_num' = (last_send_fence_id + 1) - returned_fence_id
  /\ prepare_task_num' = prepare_task_num - 1
  /\ fence_id' = [fence_id EXCEPT ![t] = NextFenceId(last_send_fence_id)]
  /\ UNCHANGED returned_fence_id

\* Plausible bug: uncomplete_task_num is only refreshed when a fence returns.
BugIncStaleUncomplete(t, dec_prepare) ==
  /\ last_send_fence_id' = NextFenceId(last_send_fence_id)
  /\ prepare_task_num' = prepare_task_num - dec_prepare
  /\ fence_id' = [fence_id EXCEPT ![t] = NextFenceId(last_send_fence_id)]
  /\ UNCHANGED <<returned_fence_id, uncomplete_task_num>>

\* uncomplete_task_num is computed before the VPP jump, as the code does.
vidschi_inc_send_fence_id(t, dec_prepare) ==
  /\ last_send_fence_id' = NextFenceId(last_send_fence_id)
  /\ uncomplete_task_num' = (last_send_fence_id + 1) - returned_fence_id
  /\ prepare_task_num' = prepare_task_num - dec_prepare
  /\ fence_id' = [fence_id EXCEPT ![t] = NextFenceId(last_send_fence_id)]
  /\ UNCHANGED returned_fence_id

AcceptFence(new) ==
  /\ new > returned_fence_id
  /\ new <= last_send_fence_id
  /\ returned_fence_id <= last_send_fence_id

vidschi_update_fence_id ==
  /\ IF AcceptFence(HwFence)
     THEN /\ returned_fence_id' = HwFence
          /\ uncomplete_task_num' = last_send_fence_id - HwFence
     ELSE UNCHANGED <<returned_fence_id, uncomplete_task_num>>
  /\ UNCHANGED <<last_send_fence_id, prepare_task_num>>

\* A call of vidsch_notify_interrupt by any thread.  It returns early while the
\* daemon has disabled scheduling; the fence is read later (NotifyUpdate), when
\* that check may be stale.
vidsch_notify_interrupt == notify' = (notify \/ ~disable_schedule)

\* The rest of the call: vidschi_notify_fence_interrupt on this engine.
NotifyUpdate ==
  /\ notify
  /\ notify' = FALSE
  /\ vidschi_update_fence_id
  /\ UNCHANGED <<taskVars, gpuVars, irq, daemonVars>>

-----------------------------------------------------------------------------
(* Release.                                                                *)

Releasable(t, refs) == refs[t] = 0 /\ fence_id[t] <= returned_fence_id

\* vidsch_release_completed_tasks frees tasks from the head of the submitted
\* list, stopping at the first that is referenced or whose fence is not back;
\* n is how many it frees and cur the task states it starts from.
vidsch_release_completed_tasks(n, refs, cur) ==
  LET list == submitted_task_list IN
  /\ \A i \in 1..n : Releasable(list[i], refs)
  /\ n < Len(list) => ~Releasable(list[n + 1], refs)
  /\ submitted_task_list' = SubSeq(list, n + 1, Len(list))
  /\ st' = [t \in Tasks |->
              IF \E i \in 1..n : list[i] = t THEN "released" ELSE cur[t]]

-----------------------------------------------------------------------------
(* Submission.                                                             *)

\* vidsch_allocate_task_dma
AllocateRender(t) ==
  /\ st[t] = "none"
  /\ st' = [st EXCEPT ![t] = "allocated"]
  /\ UNCHANGED <<fenceVars, fence_id, ref_cnt, reset_dropped,
                 submitted_task_list, gpuVars, irqVars, daemonVars>>

\* vidsch_allocate_paging_task, then vidsch_task_inc_reference by its creator,
\* who keeps the reference until the task was submitted (or waited for).
AllocatePaging(t) ==
  /\ st[t] = "none"
  /\ st' = [st EXCEPT ![t] = "allocated"]
  /\ ref_cnt' = [ref_cnt EXCEPT ![t] = @ + 1]
  /\ UNCHANGED <<fenceVars, fence_id, reset_dropped, submitted_task_list,
                 gpuVars, irqVars, daemonVars>>

\* The worker thread handles one render task at a time.
WorkerFree ==
  \A t \in Render : st[t] \notin {"prepared", "fenced", "kicked"}

\* Plausible bug: engine_lock is not taken.
BugNoEngineLock == TRUE

\* engine_lock is held from the fence id to the kick-off.
EngineLockFree == \A t \in Tasks : st[t] # "fenced"

\* Plausible bug: off by one at the limit of the hardware queue.
BugSlotFree == uncomplete_task_num + prepare_task_num <= HwQueueSize

SlotFree == uncomplete_task_num + prepare_task_num < HwQueueSize

\* vidschi_can_prepare_task_dma: reserve a hardware queue slot.
CanPrepare(t) ==
  /\ st[t] = "allocated"
  /\ WorkerFree
  /\ SlotFree
  /\ prepare_task_num' = prepare_task_num + 1
  /\ st' = [st EXCEPT ![t] = "prepared"]
  /\ UNCHANGED <<last_send_fence_id, returned_fence_id, uncomplete_task_num,
                 fence_id, ref_cnt, reset_dropped, submitted_task_list,
                 gpuVars, irqVars, daemonVars>>

\* Plausible bug: the slot of a discarded task is not given back.
BugFakeKeepsSlot(t) ==
  /\ st[t] = "prepared"
  /\ st' = [st EXCEPT ![t] = "released"]
  /\ vidsch_notify_interrupt
  /\ UNCHANGED <<fenceVars, fence_id, ref_cnt, reset_dropped,
                 submitted_task_list, gpuVars, irq, daemonVars>>

\* vidschi_fake_submit_dma: preparing failed, the task is discarded.  Its slot
\* is given back and, being unreferenced, it is released; then notify.
FakeSubmitRender(t) ==
  /\ st[t] = "prepared"
  /\ prepare_task_num' = prepare_task_num - 1
  /\ st' = [st EXCEPT ![t] = "released"]
  /\ vidsch_notify_interrupt
  /\ UNCHANGED <<last_send_fence_id, returned_fence_id, uncomplete_task_num,
                 fence_id, ref_cnt, reset_dropped, submitted_task_list,
                 gpuVars, irq, daemonVars>>

\* vidschi_submit_dma up to chip_func->submit.
SubmitRender(t) ==
  /\ st[t] = "prepared"
  /\ EngineLockFree
  /\ vidschi_inc_send_fence_id(t, 1)
  /\ st' = [st EXCEPT ![t] = "fenced"]
  /\ UNCHANGED <<ref_cnt, reset_dropped, submitted_task_list, gpuVars, irqVars,
                 daemonVars>>

\* vidsch_submit_paging_task with commands: no hardware queue slot is reserved.
SubmitPaging(t) ==
  /\ st[t] = "allocated"
  /\ EngineLockFree
  /\ vidschi_inc_send_fence_id(t, 0)
  /\ st' = [st EXCEPT ![t] = "fenced"]
  /\ UNCHANGED <<ref_cnt, reset_dropped, submitted_task_list, gpuVars, irqVars,
                 daemonVars>>

\* vidsch_submit_paging_task without commands: notify, then fake submitted; the
\* creator's reference keeps the task alive.
FakeSubmitPaging(t) ==
  /\ st[t] = "allocated"
  /\ vidsch_notify_interrupt
  /\ st' = [st EXCEPT ![t] = "fake"]
  /\ UNCHANGED <<fenceVars, fence_id, ref_cnt, reset_dropped, submitted_task_list,
                 gpuVars, irq, daemonVars>>

\* chip_func->submit: the commands enter the ring buffer, engine_lock drops.
\* The kick-off writes ring.tail as it then is: commands copied into the ring
\* before it was restarted lie outside and are never executed.
KickOff(t) ==
  /\ st[t] = "fenced"
  /\ \/ ring' = ring \cup {t}
     \/ t \in raced /\ UNCHANGED ring
  /\ raced' = raced \ {t}
  /\ st' = [st EXCEPT ![t] = "kicked"]
  /\ UNCHANGED <<fenceVars, fence_id, ref_cnt, reset_dropped,
                 submitted_task_list, fence_be, fence_fe, gpu_done, be_done,
                 fe_done, gpu_stuck, hangs, irqVars, daemon, hang_task,
                 disable_schedule, historyVars>>

\* vidschi_set_dma_task_submitted, after engine_lock was dropped.
SetSubmitted(t) ==
  /\ st[t] = "kicked"
  /\ st' = [st EXCEPT ![t] = "submitted"]
  /\ submitted_task_list' = Append(submitted_task_list, t)
  /\ UNCHANGED <<fenceVars, fence_id, ref_cnt, reset_dropped, gpuVars, irqVars,
                 daemonVars>>

\* References the creator of t still holds: all but the daemon's.
CreatorRefs(t) ==
  ref_cnt[t] - (IF daemon = "hung" /\ hang_task = t THEN 1 ELSE 0)

\* vidsch_task_dec_reference by the creator of a paging task.
DecReference(t) ==
  LET refs == [ref_cnt EXCEPT ![t] = @ - 1] IN
  /\ st[t] \in {"submitted", "fake"}
  /\ CreatorRefs(t) > 0
  /\ ref_cnt' = refs
  /\ \/ /\ st[t] = "fake" /\ refs[t] = 0
        /\ st' = [st EXCEPT ![t] = "released"]
        /\ UNCHANGED submitted_task_list
     \/ /\ ~(st[t] = "fake" /\ refs[t] = 0)
        /\ \E n \in 0..Len(submitted_task_list) :
              vidsch_release_completed_tasks(n, refs, st)
  /\ UNCHANGED <<fenceVars, fence_id, reset_dropped, gpuVars, irqVars, daemonVars>>

\* vidsch_release_completed_tasks from the other callers: allocating a DMA
\* buffer, waiting for a context to become idle, the daemon's periodic scan.
ReleaseCompleted ==
  /\ \E n \in 1..Len(submitted_task_list) :
        vidsch_release_completed_tasks(n, ref_cnt, st)
  /\ UNCHANGED <<fenceVars, fence_id, ref_cnt, reset_dropped, gpuVars, irqVars,
                 daemonVars>>

-----------------------------------------------------------------------------
(* The GPU (external): it retires the ring in fence order.  A gfx or vpp   *)
(* command stream executes and then writes its fence words; on a vcp       *)
(* engine the front end and the back end write one word each when they are *)
(* through with the command, in either order, and both together finish it. *)
(* An interrupt raised by a write may be lost.                             *)

OldestIn(S, t) == t \in S /\ \A u \in S : fence_id[t] <= fence_id[u]

Retire(t, be, fe) ==
  /\ be_done' = be /\ fe_done' = fe
  /\ ring' = IF t \in be \cap fe THEN ring \ {t} ELSE ring

GpuExecute(t) ==
  /\ ~gpu_stuck /\ FenceRead # "min"
  /\ OldestIn(ring \ gpu_done, t)
  /\ gpu_done' = gpu_done \cup {t}
  /\ UNCHANGED <<fenceVars, taskVars, fence_be, fence_fe, ring, be_done,
                 fe_done, gpu_stuck, hangs, irqVars, daemonVars>>

GpuWriteBe(t) ==
  /\ ~gpu_stuck
  /\ OldestIn(ring \ be_done, t)
  /\ FenceRead # "min" => t \in gpu_done
  /\ fence_be' = fence_id[t]
  /\ Retire(t, be_done \cup {t}, fe_done)
  /\ gpu_done' = IF t \in fe_done THEN gpu_done \cup {t} ELSE gpu_done
  /\ irq' \in {irq, TRUE}
  /\ UNCHANGED <<fenceVars, taskVars, fence_fe, gpu_stuck, hangs, notify,
                 daemonVars>>

GpuWriteFe(t) ==
  /\ ~gpu_stuck
  /\ OldestIn(ring \ fe_done, t)
  /\ FenceRead # "min" => t \in gpu_done
  /\ fence_fe' = fence_id[t]
  /\ Retire(t, be_done, fe_done \cup {t})
  /\ gpu_done' = IF t \in be_done THEN gpu_done \cup {t} ELSE gpu_done
  /\ irq' \in {irq, TRUE}
  /\ UNCHANGED <<fenceVars, taskVars, fence_be, gpu_stuck, hangs, notify,
                 daemonVars>>

GpuHang ==
  /\ ~gpu_stuck /\ hangs < MaxHangs /\ ring # {}
  /\ gpu_stuck' = TRUE /\ hangs' = hangs + 1
  /\ UNCHANGED <<fenceVars, taskVars, fence_be, fence_fe, ring, gpu_done,
                 be_done, fe_done, irqVars, daemonVars>>

\* The fence tasklet.  While scheduling is disabled the interrupt is consumed
\* without effect.
FenceInterrupt ==
  /\ irq
  /\ irq' = FALSE
  /\ vidsch_notify_interrupt
  /\ UNCHANGED <<fenceVars, taskVars, gpuVars, daemonVars>>

-----------------------------------------------------------------------------
(* The hang daemon, vidschi_check_hang_and_recovery.                       *)

\* A waiter's timeout, or vidschi_uncompleted_task_exceed_wait_time finding
\* that the fence came back but its interrupt was lost, forces a notify.
TimeoutNotify ==
  /\ AcceptFence(HwFence) /\ ~notify
  /\ vidsch_notify_interrupt
  /\ UNCHANGED <<fenceVars, taskVars, gpuVars, irq, daemonVars>>

\* The head of the list (after releasing what is back) exceeded its time and
\* the hardware fence has not reached it: take a reference and report it hung.
DaemonFindHang ==
  /\ daemon = "idle"
  /\ \E n \in 0..(Len(submitted_task_list) - 1) :
       LET t == submitted_task_list[n + 1] IN
       /\ vidsch_release_completed_tasks(n, ref_cnt, st)
       /\ returned_fence_id < fence_id[t]
       /\ HwFence < fence_id[t]
       /\ ref_cnt' = [ref_cnt EXCEPT ![t] = @ + 1]
       /\ hang_task' = t
  /\ daemon' = "hung"
  /\ UNCHANGED <<fenceVars, fence_id, reset_dropped, gpuVars, irqVars,
                 disable_schedule, raced, historyVars>>

\* vidsch_task_dec_reference on the hung task, with its release.
DaemonDropReference ==
  LET refs == [ref_cnt EXCEPT ![hang_task] = @ - 1] IN
  /\ daemon = "hung"
  /\ ref_cnt' = refs
  /\ \E n \in 0..Len(submitted_task_list) :
        vidsch_release_completed_tasks(n, refs, st)
  /\ daemon' = "stop"
  /\ UNCHANGED <<fenceVars, fence_id, reset_dropped, gpuVars, irqVars, hang_task,
                 disable_schedule, raced, historyVars>>

\* Scheduling is disabled; without recovery the driver stops here (gf_assert).
DaemonDisable ==
  /\ daemon = "stop"
  /\ disable_schedule' = TRUE
  /\ hang_task' = NoTask
  /\ daemon' = IF RecoveryEnable THEN "reset" ELSE "halted"
  /\ UNCHANGED <<fenceVars, taskVars, gpuVars, irqVars, raced, historyVars>>

\* t holds a fence id and the GPU still has to execute it.
Unfinished(t) == st[t] = "fenced" \/ t \in ring \ gpu_done

\* Plausible bug: the reset leaves the fence word as it is.
BugFenceNotMoved == UNCHANGED fence_be

SkipDeadDma == fence_be' = last_send_fence_id

\* Plausible bug: the ring keeps its old contents.
BugRingKept == UNCHANGED ring

RestartRing == ring' = {}

\* vidsch_reset_hw_e3k: every fence is back and the blocks are idle.
DaemonFakeTimeout ==
  /\ daemon = "reset"
  /\ fence_be = last_send_fence_id
  /\ daemon' = "resume"
  /\ UNCHANGED <<fenceVars, taskVars, gpuVars, irqVars, hang_task,
                 disable_schedule, raced, historyVars>>

\* Otherwise it moves the main fence word to the last id sent, "skip the dead
\* dma"; the other word is not written.  Nothing stops the GPU, a submission or
\* a notification that is past the disable_schedule check at this point.
DaemonMoveFence ==
  /\ daemon = "reset"
  /\ SkipDeadDma
  /\ overtaken' = {t \in Tasks : Unfinished(t)}
  /\ skipped' = IF gpu_stuck THEN ring \ gpu_done ELSE {}
  /\ daemon' = "restore"
  /\ UNCHANGED <<fenceVars, taskVars, fence_fe, ring, gpu_done, be_done, fe_done,
                 gpu_stuck, hangs, irqVars, hang_task, disable_schedule, raced>>

\* chip_func->restore: the hardware is reset and the ring starts again, empty,
\* at offset zero, without engine_lock.  What the ring held is thrown away.
DaemonRestore ==
  /\ daemon = "restore"
  /\ RestartRing /\ gpu_stuck' = FALSE
  /\ raced' = {t \in Tasks : st[t] = "fenced"}
  /\ overtaken' = {t \in overtaken : st[t] = "fenced"}
  /\ daemon' = "drop"
  /\ UNCHANGED <<fenceVars, taskVars, fence_be, fence_fe, gpu_done, be_done,
                 fe_done, hangs, irqVars, hang_task, disable_schedule, skipped>>

\* vidschi_set_uncompleted_task_dropped(-1), vidsch_release_completed_tasks.
DaemonDropTasks ==
  /\ daemon = "drop"
  /\ reset_dropped' = [t \in Tasks |-> reset_dropped[t]
        \/ \E i \in 1..Len(submitted_task_list) : submitted_task_list[i] = t]
  /\ \E n \in 0..Len(submitted_task_list) :
        vidsch_release_completed_tasks(n, ref_cnt, st)
  /\ daemon' = "resume"
  /\ UNCHANGED <<fenceVars, fence_id, ref_cnt, gpuVars, irqVars, hang_task,
                 disable_schedule, raced, historyVars>>

\* disable_schedule = FALSE, then vidsch_notify_interrupt to its end.
DaemonResume ==
  /\ daemon = "resume"
  /\ disable_schedule' = FALSE
  /\ vidschi_update_fence_id
  /\ daemon' = "idle"
  /\ skipped' = {}
  /\ UNCHANGED <<taskVars, gpuVars, irqVars, hang_task, raced, overtaken>>

-----------------------------------------------------------------------------
WorkerStep(t) ==
  CanPrepare(t) \/ SubmitRender(t) \/ FakeSubmitRender(t)
PagingStep(t) ==
  SubmitPaging(t) \/ FakeSubmitPaging(t) \/ DecReference(t)
GpuStep(t) == GpuExecute(t) \/ GpuWriteBe(t) \/ GpuWriteFe(t)
DaemonStep ==
  \/ DaemonFindHang \/ DaemonDropReference \/ DaemonDisable
  \/ DaemonFakeTimeout \/ DaemonMoveFence \/ DaemonRestore
  \/ DaemonDropTasks \/ DaemonResume

Next ==
  \/ \E t \in Render : AllocateRender(t) \/ WorkerStep(t)
  \/ \E t \in Paging : AllocatePaging(t) \/ PagingStep(t)
  \/ \E t \in Tasks : KickOff(t) \/ SetSubmitted(t) \/ GpuStep(t)
  \/ ReleaseCompleted \/ GpuHang
  \/ FenceInterrupt \/ TimeoutNotify \/ NotifyUpdate
  \/ DaemonStep

Spec == Init /\ [][Next]_vars

\* Fairness: the worker, the paging threads, the submission path and the GPU
\* (unless it hangs) keep running; pending interrupts are delivered and the
\* daemon's periodic scan runs, finds what timed out and finishes a recovery.
\* Creating tasks, hanging and discarding a task are never forced.
Fairness ==
  /\ \A t \in Render : WF_vars(CanPrepare(t)) /\ WF_vars(SubmitRender(t))
  /\ \A t \in Paging : WF_vars(PagingStep(t))
  /\ \A t \in Tasks : /\ WF_vars(KickOff(t)) /\ WF_vars(SetSubmitted(t))
                      /\ WF_vars(GpuStep(t))
  /\ WF_vars(FenceInterrupt) /\ WF_vars(TimeoutNotify) /\ WF_vars(NotifyUpdate)
  /\ WF_vars(ReleaseCompleted) /\ WF_vars(DaemonStep)

FairSpec == Spec /\ Fairness

-----------------------------------------------------------------------------
(* Properties.                                                             *)

FenceTypeOK ==
  /\ last_send_fence_id \in Nat /\ returned_fence_id \in Nat
  /\ uncomplete_task_num \in Nat /\ prepare_task_num \in Nat

TaskTypeOK ==
  /\ st \in [Tasks -> TaskStates]
  /\ fence_id \in [Tasks -> Nat] /\ ref_cnt \in [Tasks -> Nat]
  /\ reset_dropped \in [Tasks -> BOOLEAN]
  /\ submitted_task_list \in Seq(Tasks)

GpuTypeOK ==
  /\ fence_be \in Nat /\ fence_fe \in Nat
  /\ ring \subseteq Tasks /\ gpu_done \subseteq Tasks
  /\ be_done \subseteq Tasks /\ fe_done \subseteq Tasks
  /\ gpu_stuck \in BOOLEAN /\ hangs \in Nat

DaemonTypeOK ==
  /\ irq \in BOOLEAN /\ notify \in BOOLEAN
  /\ daemon \in DaemonStates /\ hang_task \in Tasks \cup {NoTask}
  /\ disable_schedule \in BOOLEAN
  /\ raced \subseteq Tasks /\ overtaken \subseteq Tasks /\ skipped \subseteq Tasks

\* The variables of vidsch_mgr_t and of the tasks keep their types; the
\* unsigned counters and reference counts never go below zero.
TypeOK == FenceTypeOK /\ TaskTypeOK /\ GpuTypeOK /\ DaemonTypeOK

\* What every waiter relies on (vidsch_is_fence_back): a task whose fence id is
\* at or below returned_fence_id has been executed, or its work was discarded
\* by a reset.  The exception are the tasks the reset moved the fence over and
\* the GPU may still execute: until the ring restarts, all it then had to
\* execute; afterwards the one task that was inside the critical section from
\* before the move until after the restart.
FenceBackIsDone ==
  \A t \in Tasks \ overtaken :
    Unfinished(t) => returned_fence_id < fence_id[t]

\* A task that vidsch_release_completed_tasks freed (its DMA buffer and its
\* allocations may be reused) is not still executing on the GPU, except those
\* the reset overtook; once the ring was restarted, at most one of them is.
ReleasedIsIdle ==
  /\ \A t \in Tasks \ overtaken : st[t] = "released" => ~Unfinished(t)
  /\ \A t, u \in Tasks :
       /\ daemon # "restore"
       /\ st[t] = "released" /\ Unfinished(t)
       /\ st[u] = "released" /\ Unfinished(u)
       => t = u

\* The render tasks that hold a fence id above the returned one.
Outstanding ==
  {t \in Render : /\ st[t] \in {"fenced", "kicked", "submitted"}
                  /\ fence_id[t] > returned_fence_id}

\* They and the reserved slots never exceed the hardware queue, although paging
\* tasks take fence ids without reserving one and the VPP engine skips ids.
HwQueueBound == Cardinality(Outstanding) + prepare_task_num <= HwQueueSize

\* vidsch_reset_hw_e3k moves the fence past the dead DMA: what a hung GPU had
\* in its ring at that moment is back when the daemon resumes scheduling,
\* whatever is submitted, kicked off and thrown away during the reset.  (A GPU
\* that was only slow may write its own, older fence over the moved word.)
ResetSkipsDeadDma ==
  [][daemon = "resume" /\ daemon' = "idle" =>
       \A t \in skipped : fence_id[t] <= returned_fence_id']_vars

\* Every allocated task is eventually released, whatever interrupts are lost
\* and although the GPU may hang: the daemon recovers.
EveryTaskReleased ==
  \A t \in Tasks : (st[t] = "allocated") ~> (st[t] = "released")
-----------------------------------------------------------------------------
(* The inductive invariant behind FenceBackIsDone.                         *)

\* Ids are handed out under engine_lock: distinct, and the task inside the
\* critical section holds the newest.
FenceIdsOK ==
  /\ returned_fence_id <= last_send_fence_id
  /\ fence_be <= last_send_fence_id /\ fence_fe <= last_send_fence_id
  /\ \A t \in Tasks :
       /\ fence_id[t] <= last_send_fence_id
       /\ st[t] \in {"none", "allocated", "prepared", "fake"} => fence_id[t] = 0
       /\ st[t] = "fenced" => fence_id[t] = last_send_fence_id
       /\ st[t] \in {"fenced", "kicked", "submitted"} => fence_id[t] > 0
       /\ st[t] = "released" => fence_id[t] <= returned_fence_id
  /\ \A t, u \in Tasks :
       t # u /\ fence_id[t] = fence_id[u] => fence_id[t] = 0

\* The worker's reservation and the daemon's reference are accounted for.
CountersOK ==
  /\ \A t \in Tasks : st[t] = "prepared" => t \in Render
  /\ \A t, u \in Render :
       /\ st[t] \in {"prepared", "fenced", "kicked"}
       /\ st[u] \in {"prepared", "fenced", "kicked"}
       => t = u
  /\ \A t \in Tasks : st[t] = "prepared" => prepare_task_num > 0
  /\ daemon = "hung" => hang_task \in Tasks /\ ref_cnt[hang_task] > 0

\* Only kicked-off tasks are in the ring, and a finished one has left it.
RingOK ==
  /\ \A t \in ring : st[t] \in {"kicked", "submitted", "released"}
                     /\ fence_id[t] > 0 /\ t \notin be_done \cap fe_done
  /\ \A t \in Tasks :
       st[t] \in {"none", "allocated", "prepared", "fenced", "fake"} =>
         t \notin gpu_done \cup be_done \cup fe_done
  /\ IF FenceRead = "min" THEN gpu_done \subseteq be_done \cap fe_done
     ELSE be_done \cup fe_done \subseteq gpu_done

\* A fence word has not reached a task that has still to be executed and to
\* write it.
WordsOK ==
  \A t \in Tasks \ overtaken : Unfinished(t) =>
    /\ t \notin be_done => fence_be < fence_id[t]
    /\ t \notin fe_done => fence_fe < fence_id[t]

\* Only a reset overtakes tasks, and after it at most one is left.
OvertakenOK ==
  /\ ~RecoveryEnable => overtaken = {} /\ daemon \notin {"reset", "restore", "drop"}
  /\ daemon # "restore" => \A t, u \in overtaken : t = u

IndInv ==
  TypeOK /\ FenceIdsOK /\ CountersOK /\ RingOK /\ WordsOK /\ OvertakenOK
    /\ FenceBackIsDone

-----------------------------------------------------------------------------
(* The inductive invariants behind HwQueueBound and ResetSkipsDeadDma.     *)

\* uncomplete_task_num may be behind last_send_fence_id - returned_fence_id after
\* the VPP jump, but never behind the render tasks it stands for.
BoundInv ==
  /\ IndInv /\ HwQueueBound
  /\ Cardinality(Outstanding) <= uncomplete_task_num

\* While the skipped tasks wait for the daemon to resume, the main fence word is
\* not written by the hung GPU, and then only in the order of the new ring.
SkipInv ==
  /\ IndInv
  /\ skipped # {} => daemon \in {"restore", "drop", "resume"}
  /\ \A t \in skipped : /\ st[t] \in {"kicked", "submitted", "released"}
                        /\ fence_id[t] <= fence_be
  /\ skipped # {} /\ daemon = "restore" => gpu_stuck
  /\ skipped # {} /\ daemon # "restore" =>
       \A t \in ring \ be_done : fence_be <= fence_id[t]
=============================================================================
