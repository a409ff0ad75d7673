------------------------ MODULE VidSchEngineProofs ------------------------
(***************************************************************************)
(* Theorems about VidSchEngine for every set of tasks, every queue size,   *)
(* every fence reading and any number of hangs.  IndInv is inductive; the  *)
(* lemmas below show that each action preserves it.  BoundInv and SkipInv, *)
(* each relative to IndInv, carry the hardware queue and the reset.        *)
(***************************************************************************)
EXTENDS VidSchEngine, FiniteSetTheorems, TLAPS

\* The initial state of vidsch_create satisfies the inductive invariant.
LEMMA InitInv == Init => IndInv
<1> SUFFICES ASSUME Init PROVE IndInv
  OBVIOUS
<1> USE DEF IndInv, TypeOK
<1>1. TypeOK
  <2>1. FenceTypeOK /\ GpuTypeOK BY DEF Init, FenceTypeOK, GpuTypeOK
  <2>2. TaskTypeOK BY DEF Init, TaskTypeOK, TaskStates
  <2>3. DaemonTypeOK BY DEF Init, DaemonTypeOK, DaemonStates
  <2>4. QED BY <2>1, <2>2, <2>3
<1>2. FenceIdsOK /\ RingOK
  BY DEF Init, FenceIdsOK, RingOK
<1>3. CountersOK /\ WordsOK /\ OvertakenOK
  BY DEF Init, CountersOK, WordsOK, Unfinished, OvertakenOK, Tasks
<1>4. FenceBackIsDone
  BY DEF Init, FenceBackIsDone, Unfinished
<1>5. QED BY <1>1, <1>2, <1>3, <1>4

-----------------------------------------------------------------------------
(* Facts about the helpers.                                                *)

\* The value update_fence_id reads lies below the fence id of every task that
\* the GPU has still to execute: with "max" and "main" a word is written only
\* after execution, with "min" one of the two words is still missing.
LEMMA HwFenceBelowUnfinished ==
  ASSUME IndInv
  PROVE  /\ HwFence \in Nat /\ HwFence <= last_send_fence_id
         /\ \A t \in Tasks \ overtaken : Unfinished(t) => HwFence < fence_id[t]
<1> USE DEF IndInv, TypeOK
<1>1. /\ fence_be \in Nat /\ fence_fe \in Nat /\ last_send_fence_id \in Nat
      /\ fence_id \in [Tasks -> Nat]
      /\ fence_be <= last_send_fence_id /\ fence_fe <= last_send_fence_id
  BY DEF FenceTypeOK, TaskTypeOK, GpuTypeOK, FenceIdsOK
<1>2. HwFence \in Nat /\ HwFence <= last_send_fence_id
  BY <1>1, EngineAssumption DEF HwFence
<1>3. ASSUME NEW t \in Tasks \ overtaken, Unfinished(t)
      PROVE  HwFence < fence_id[t]
  <2>1. CASE FenceRead = "min"
    <3>1. fence_be < fence_id[t] \/ fence_fe < fence_id[t]
      BY <1>3, <2>1 DEF WordsOK, RingOK, Unfinished
    <3>2. QED BY <3>1, <2>1, <1>1 DEF HwFence
  <2>2. CASE FenceRead # "min"
    <3>1. fence_be < fence_id[t] /\ fence_fe < fence_id[t]
      BY <1>3, <2>2 DEF WordsOK, RingOK, Unfinished
    <3>2. QED BY <3>1, <2>2, <1>1, EngineAssumption DEF HwFence
  <2>3. QED BY <2>1, <2>2
<1>4. QED BY <1>2, <1>3

\* What vidschi_update_fence_id leaves behind.
LEMMA UpdateFence ==
  ASSUME IndInv, vidschi_update_fence_id
  PROVE  /\ returned_fence_id' \in Nat /\ uncomplete_task_num' \in Nat
         /\ returned_fence_id <= returned_fence_id'
         /\ returned_fence_id' <= last_send_fence_id
         /\ \A t \in Tasks \ overtaken :
              Unfinished(t) => returned_fence_id' < fence_id[t]
<1> USE DEF IndInv, TypeOK
<1>1. /\ returned_fence_id \in Nat /\ last_send_fence_id \in Nat
      /\ uncomplete_task_num \in Nat
      /\ returned_fence_id <= last_send_fence_id
      /\ \A t \in Tasks \ overtaken :
           Unfinished(t) => returned_fence_id < fence_id[t]
  BY DEF FenceTypeOK, TaskTypeOK, GpuTypeOK, FenceIdsOK, FenceBackIsDone
<1>2. /\ HwFence \in Nat /\ HwFence <= last_send_fence_id
      /\ \A t \in Tasks \ overtaken : Unfinished(t) => HwFence < fence_id[t]
  BY HwFenceBelowUnfinished
<1>3. CASE AcceptFence(HwFence)
  BY <1>1, <1>2, <1>3 DEF vidschi_update_fence_id, AcceptFence
<1>4. CASE ~AcceptFence(HwFence)
  BY <1>1, <1>4 DEF vidschi_update_fence_id
<1>5. QED BY <1>3, <1>4

\* vidsch_release_completed_tasks only touches tasks whose fence is back.
LEMMA ReleaseOnlyBack ==
  ASSUME TypeOK, NEW refs, NEW n \in 0..Len(submitted_task_list),
         vidsch_release_completed_tasks(n, refs, st)
  PROVE  /\ submitted_task_list' \in Seq(Tasks)
         /\ st' \in [Tasks -> TaskStates]
         /\ \A t \in Tasks :
              \/ st'[t] = st[t]
              \/ st'[t] = "released" /\ fence_id[t] <= returned_fence_id
<1>1. submitted_task_list \in Seq(Tasks) /\ st \in [Tasks -> TaskStates]
  BY DEF TypeOK, TaskTypeOK
<1>2. submitted_task_list' \in Seq(Tasks)
  BY <1>1 DEF vidsch_release_completed_tasks
<1>3. st' = [t \in Tasks |->
        IF \E i \in 1..n : submitted_task_list[i] = t THEN "released" ELSE st[t]]
  BY DEF vidsch_release_completed_tasks
<1>4. \A i \in 1..n : fence_id[submitted_task_list[i]] <= returned_fence_id
  BY DEF vidsch_release_completed_tasks, Releasable
<1>5. QED BY <1>1, <1>2, <1>3, <1>4 DEF TaskStates

\* Releasing tasks whose fence is back preserves the invariant, whatever else
\* happens to the reference counts and the daemon.
LEMMA ReleaseInv ==
  ASSUME IndInv,
         UNCHANGED <<fenceVars, fence_id, gpuVars, raced, historyVars, irqVars,
                     disable_schedule>>,
         submitted_task_list' \in Seq(Tasks),
         st' \in [Tasks -> TaskStates],
         \A t \in Tasks :
           \/ st'[t] = st[t]
           \/ st'[t] = "released" /\ fence_id[t] <= returned_fence_id,
         ref_cnt' \in [Tasks -> Nat], reset_dropped' \in [Tasks -> BOOLEAN],
         daemon' \in DaemonStates, hang_task' \in Tasks \cup {NoTask},
         daemon' = "hung" => hang_task' \in Tasks /\ ref_cnt'[hang_task'] > 0,
         OvertakenOK'
  PROVE  IndInv'
<1> USE DEF IndInv, TypeOK
<1>1. TypeOK'
  <2>1. FenceTypeOK' BY DEF FenceTypeOK, fenceVars
  <2>2. TaskTypeOK' BY DEF TaskTypeOK, fenceVars
  <2>3. GpuTypeOK' BY DEF GpuTypeOK, gpuVars
  <2>4. DaemonTypeOK' BY DEF DaemonTypeOK, irqVars, historyVars
  <2>5. QED BY <2>1, <2>2, <2>3, <2>4
<1>2. FenceIdsOK'
  BY DEF FenceTypeOK, TaskTypeOK, GpuTypeOK, FenceIdsOK, fenceVars, gpuVars
<1>3. CountersOK'
  BY DEF FenceTypeOK, TaskTypeOK, CountersOK, fenceVars, Tasks
<1>4. RingOK'
  BY DEF TaskTypeOK, GpuTypeOK, RingOK, gpuVars
<1>5. WordsOK'
  BY DEF TaskTypeOK, GpuTypeOK, WordsOK, RingOK, Unfinished, gpuVars, historyVars
<1>7. FenceBackIsDone'
  BY DEF FenceTypeOK, TaskTypeOK, GpuTypeOK, FenceBackIsDone, Unfinished, gpuVars, fenceVars,
         historyVars
<1>8. QED BY <1>1, <1>2, <1>3, <1>4, <1>5, <1>7

-----------------------------------------------------------------------------
(* Submission.                                                             *)

\* Creating a task keeps the invariant.
LEMMA AllocateInv ==
  ASSUME IndInv, NEW t \in Tasks, AllocateRender(t) \/ AllocatePaging(t)
  PROVE  IndInv'
<1> USE DEF IndInv, TypeOK
<1>1. /\ st[t] = "none" /\ st' = [st EXCEPT ![t] = "allocated"]
      /\ ref_cnt' = ref_cnt \/ ref_cnt' = [ref_cnt EXCEPT ![t] = @ + 1]
      /\ UNCHANGED <<fenceVars, fence_id, reset_dropped, submitted_task_list,
                     gpuVars, irqVars, daemonVars>>
  BY DEF AllocateRender, AllocatePaging
<1>2. TypeOK'
  <2>1. FenceTypeOK' BY <1>1 DEF FenceTypeOK, fenceVars
  <2>2. TaskTypeOK'
    <3>1. st' \in [Tasks -> TaskStates]
      BY <1>1 DEF TaskTypeOK, TaskStates
    <3>2. ref_cnt' \in [Tasks -> Nat]
      BY <1>1 DEF TaskTypeOK
    <3>3. QED BY <1>1, <3>1, <3>2 DEF TaskTypeOK
  <2>3. GpuTypeOK' BY <1>1 DEF GpuTypeOK, gpuVars
  <2>4. DaemonTypeOK' BY <1>1 DEF DaemonTypeOK, irqVars, daemonVars, historyVars
  <2>5. QED BY <2>1, <2>2, <2>3, <2>4
<1>3. FenceIdsOK'
  BY <1>1 DEF FenceTypeOK, TaskTypeOK, GpuTypeOK, FenceIdsOK, fenceVars, gpuVars
<1>4. CountersOK'
  <2>1. /\ st'[t] = "allocated" /\ \A u \in Tasks : u # t => st'[u] = st[u]
        /\ \A u \in Tasks : ref_cnt[u] > 0 => ref_cnt'[u] > 0
    <3>1. st'[t] = "allocated" /\ \A u \in Tasks : u # t => st'[u] = st[u]
      BY <1>1 DEF TaskTypeOK
    <3>2. CASE ref_cnt' = ref_cnt
      BY <3>1, <3>2
    <3>3. CASE ref_cnt' = [ref_cnt EXCEPT ![t] = @ + 1]
      BY <3>1, <3>3 DEF TaskTypeOK
    <3>4. QED BY <1>1, <3>2, <3>3
  <2>2. Render \subseteq Tasks
    BY DEF Tasks
  <2>3. QED BY <1>1, <2>1, <2>2 DEF CountersOK, fenceVars, daemonVars, historyVars
<1>5. RingOK'
  BY <1>1 DEF TaskTypeOK, GpuTypeOK, RingOK, gpuVars
<1>6. WordsOK'
  BY <1>1 DEF TaskTypeOK, GpuTypeOK, WordsOK, Unfinished, gpuVars, daemonVars, historyVars
<1>7. OvertakenOK'
  BY <1>1 DEF OvertakenOK, daemonVars, historyVars
<1>8. FenceBackIsDone'
  BY <1>1 DEF FenceTypeOK, TaskTypeOK, GpuTypeOK, FenceBackIsDone, Unfinished, fenceVars, gpuVars,
     daemonVars, historyVars
<1>9. QED BY <1>2, <1>3, <1>4, <1>5, <1>6, <1>7, <1>8

\* Reserving a slot keeps the invariant: the worker has no other task.
LEMMA CanPrepareInv ==
  ASSUME IndInv, NEW t \in Render, CanPrepare(t)
  PROVE  IndInv'
<1> USE DEF IndInv, TypeOK, CanPrepare
<1>1. TypeOK'
  <2>1. FenceTypeOK' BY DEF FenceTypeOK, CanPrepare
  <2>2. TaskTypeOK' BY DEF TaskTypeOK, CanPrepare, TaskStates, Tasks
  <2>3. GpuTypeOK' BY DEF GpuTypeOK, gpuVars
  <2>4. DaemonTypeOK' BY DEF DaemonTypeOK, irqVars, daemonVars, historyVars
  <2>5. QED BY <2>1, <2>2, <2>3, <2>4
<1>2. FenceIdsOK'
  BY DEF FenceTypeOK, TaskTypeOK, GpuTypeOK, FenceIdsOK, gpuVars
<1>3. CountersOK'
  BY DEF FenceTypeOK, TaskTypeOK, CountersOK, WorkerFree, daemonVars, historyVars, Tasks
<1>4. RingOK'
  BY DEF TaskTypeOK, GpuTypeOK, RingOK, gpuVars
<1>5. WordsOK'
  BY DEF TaskTypeOK, GpuTypeOK, WordsOK, Unfinished, gpuVars, daemonVars, historyVars
<1>6. OvertakenOK'
  BY DEF OvertakenOK, daemonVars, historyVars
<1>7. FenceBackIsDone'
  BY DEF FenceTypeOK, TaskTypeOK, GpuTypeOK, FenceBackIsDone, Unfinished, gpuVars, daemonVars, historyVars
<1>8. QED BY <1>1, <1>2, <1>3, <1>4, <1>5, <1>6, <1>7

\* Discarding a task keeps the invariant: no fence id was used, and the slot
\* that is given back is the worker's own.
LEMMA FakeSubmitInv ==
  ASSUME IndInv, NEW t \in Tasks, FakeSubmitRender(t) \/ FakeSubmitPaging(t)
  PROVE  IndInv'
<1> USE DEF IndInv, TypeOK
<1>1. /\ \/ /\ st[t] = "prepared" /\ prepare_task_num' = prepare_task_num - 1
            /\ st' = [st EXCEPT ![t] = "released"]
         \/ /\ st[t] = "allocated" /\ UNCHANGED prepare_task_num
            /\ st' = [st EXCEPT ![t] = "fake"]
      /\ vidsch_notify_interrupt
      /\ UNCHANGED <<last_send_fence_id, returned_fence_id, uncomplete_task_num,
                     fence_id, ref_cnt, reset_dropped, submitted_task_list,
                     gpuVars, irq, daemonVars>>
  BY DEF FakeSubmitRender, FakeSubmitPaging, fenceVars
<1>2. fence_id[t] = 0 /\ (st[t] = "prepared" => t \in Render /\ prepare_task_num > 0)
  BY <1>1 DEF FenceIdsOK, CountersOK
<1>3. TypeOK'
  <2>1. FenceTypeOK' BY <1>1, <1>2 DEF FenceTypeOK, fenceVars
  <2>2. TaskTypeOK' BY <1>1, <1>2 DEF TaskTypeOK, TaskStates
  <2>3. GpuTypeOK' BY <1>1, <1>2 DEF GpuTypeOK, gpuVars
  <2>4. DaemonTypeOK' BY <1>1, <1>2 DEF DaemonTypeOK, daemonVars, historyVars, vidsch_notify_interrupt
  <2>5. QED BY <2>1, <2>2, <2>3, <2>4
<1>4. FenceIdsOK'
  BY <1>1, <1>2 DEF FenceTypeOK, TaskTypeOK, GpuTypeOK, FenceIdsOK, gpuVars
<1>5. CountersOK'
  <2>1. ASSUME NEW u \in Tasks, st'[u] = "prepared"
        PROVE  u \in Render /\ prepare_task_num' > 0
    BY <1>1, <1>2, <2>1 DEF FenceTypeOK, TaskTypeOK, CountersOK
  <2>2. QED BY <1>1, <2>1 DEF FenceTypeOK, TaskTypeOK, CountersOK, daemonVars, historyVars, Tasks
<1>6. RingOK'
  BY <1>1 DEF TaskTypeOK, GpuTypeOK, RingOK, gpuVars
<1>7. WordsOK'
  BY <1>1 DEF TaskTypeOK, GpuTypeOK, WordsOK, Unfinished, gpuVars, daemonVars, historyVars
<1>8. OvertakenOK'
  BY <1>1 DEF OvertakenOK, daemonVars, historyVars
<1>9. FenceBackIsDone'
  BY <1>1 DEF FenceTypeOK, TaskTypeOK, GpuTypeOK, FenceBackIsDone, Unfinished, gpuVars, daemonVars, historyVars
<1>10. QED BY <1>3, <1>4, <1>5, <1>6, <1>7, <1>8, <1>9

\* A new fence id lies above everything the hardware has written.
LEMMA SubmitInv ==
  ASSUME IndInv, NEW t \in Tasks, SubmitRender(t) \/ SubmitPaging(t),
         SubmitPaging(t) => t \in Paging
  PROVE  IndInv'
<1> USE DEF IndInv, TypeOK
<1> DEFINE new == NextFenceId(last_send_fence_id)
<1>1. /\ \/ /\ st[t] = "prepared" /\ prepare_task_num' = prepare_task_num - 1
         \/ /\ st[t] = "allocated" /\ prepare_task_num' = prepare_task_num
            /\ t \in Paging
      /\ st' = [st EXCEPT ![t] = "fenced"]
      /\ last_send_fence_id' = new
      /\ uncomplete_task_num' = (last_send_fence_id + 1) - returned_fence_id
      /\ fence_id' = [fence_id EXCEPT ![t] = new]
      /\ EngineLockFree
      /\ UNCHANGED <<returned_fence_id, ref_cnt, reset_dropped,
                     submitted_task_list, gpuVars, irqVars, daemonVars>>
  <2>1. CASE SubmitRender(t)
    BY <2>1 DEF SubmitRender, vidschi_inc_send_fence_id
  <2>2. CASE SubmitPaging(t)
    <3>1. prepare_task_num \in Nat BY DEF FenceTypeOK, TaskTypeOK, GpuTypeOK
    <3>2. QED BY <2>2, <3>1 DEF SubmitPaging, vidschi_inc_send_fence_id
  <2>3. QED BY <2>1, <2>2
<1>2. new \in Nat /\ new > last_send_fence_id
  BY EngineAssumption DEF FenceTypeOK, TaskTypeOK, GpuTypeOK, NextFenceId
<1>3. st[t] = "prepared" => t \in Render /\ prepare_task_num > 0
  BY DEF CountersOK
<1>4. \A u \in ring : u # t
  BY <1>1 DEF RingOK
<1> HIDE DEF new
<1>5. TypeOK'
  <2>1. FenceTypeOK' BY <1>1, <1>2, <1>3 DEF FenceTypeOK, FenceIdsOK
  <2>2. TaskTypeOK' BY <1>1, <1>2, <1>3 DEF TaskTypeOK, TaskStates
  <2>3. GpuTypeOK' BY <1>1, <1>2, <1>3 DEF GpuTypeOK, gpuVars
  <2>4. DaemonTypeOK' BY <1>1, <1>2, <1>3 DEF DaemonTypeOK, irqVars, daemonVars, historyVars
  <2>5. QED BY <2>1, <2>2, <2>3, <2>4
<1>6. FenceIdsOK'
  <2>1. /\ returned_fence_id' <= last_send_fence_id'
        /\ fence_be' <= last_send_fence_id' /\ fence_fe' <= last_send_fence_id'
    BY <1>1, <1>2 DEF FenceTypeOK, TaskTypeOK, GpuTypeOK, FenceIdsOK, gpuVars
  <2>2. ASSUME NEW u \in Tasks
        PROVE  /\ fence_id'[u] <= last_send_fence_id'
               /\ st'[u] \in {"none", "allocated", "prepared", "fake"} =>
                    fence_id'[u] = 0
               /\ st'[u] = "fenced" => fence_id'[u] = last_send_fence_id'
               /\ st'[u] \in {"fenced", "kicked", "submitted"} => fence_id'[u] > 0
               /\ st'[u] = "released" => fence_id'[u] <= returned_fence_id'
    BY <1>1, <1>2 DEF FenceTypeOK, TaskTypeOK, GpuTypeOK, FenceIdsOK, EngineLockFree
  <2>3. ASSUME NEW u \in Tasks, NEW v \in Tasks, u # v, fence_id'[u] = fence_id'[v]
        PROVE  fence_id'[u] = 0
    BY <1>1, <1>2, <2>3 DEF FenceTypeOK, TaskTypeOK, GpuTypeOK, FenceIdsOK
  <2>4. QED BY <2>1, <2>2, <2>3 DEF FenceIdsOK
<1>7. CountersOK'
  <2>1. ASSUME NEW u \in Tasks, st'[u] = "prepared"
        PROVE  u \in Render /\ prepare_task_num' > 0
    BY <1>1, <1>3, <2>1 DEF FenceTypeOK, TaskTypeOK, CountersOK
  <2>2. ASSUME NEW u \in Render, NEW v \in Render,
               st'[u] \in {"prepared", "fenced", "kicked"},
               st'[v] \in {"prepared", "fenced", "kicked"}
        PROVE  u = v
    <3>1. t \in Render => st[t] = "prepared"
      BY <1>1, EngineAssumption
    <3>2. QED BY <1>1, <3>1, <2>2 DEF FenceTypeOK, TaskTypeOK, CountersOK, Tasks
  <2>3. QED BY <1>1, <2>1, <2>2 DEF CountersOK, daemonVars, historyVars
<1>8. RingOK'
  BY <1>1, <1>4 DEF TaskTypeOK, GpuTypeOK, RingOK, gpuVars
<1>9. WordsOK'
  BY <1>1, <1>2, <1>4 DEF FenceTypeOK, TaskTypeOK, GpuTypeOK, WordsOK, Unfinished, FenceIdsOK,
     gpuVars, daemonVars, historyVars
<1>10. OvertakenOK'
  BY <1>1 DEF OvertakenOK, daemonVars, historyVars
<1>11. FenceBackIsDone'
  BY <1>1, <1>2, <1>4 DEF FenceTypeOK, TaskTypeOK, GpuTypeOK, FenceBackIsDone, Unfinished, FenceIdsOK,
     gpuVars, daemonVars, historyVars
<1>12. QED BY <1>5, <1>6, <1>7, <1>8, <1>9, <1>10, <1>11

\* Kicking off a task and listing it keep the invariant.
LEMMA KickOffInv ==
  ASSUME IndInv, NEW t \in Tasks, KickOff(t) \/ SetSubmitted(t)
  PROVE  IndInv'
<1> USE DEF IndInv, TypeOK
<1>1. /\ \/ /\ st[t] = "fenced" /\ st' = [st EXCEPT ![t] = "kicked"]
            /\ ring' \in {ring, ring \cup {t}} /\ raced' = raced \ {t}
            /\ UNCHANGED submitted_task_list
         \/ /\ st[t] = "kicked" /\ st' = [st EXCEPT ![t] = "submitted"]
            /\ submitted_task_list' = Append(submitted_task_list, t)
            /\ UNCHANGED <<ring, raced>>
      /\ UNCHANGED <<fenceVars, fence_id, ref_cnt, reset_dropped, fence_be,
                     fence_fe, gpu_done, be_done, fe_done, gpu_stuck, hangs,
                     irqVars, daemon, hang_task, disable_schedule, historyVars>>
  BY DEF KickOff, SetSubmitted, gpuVars, daemonVars
<1>2. TypeOK'
  <2>1. FenceTypeOK' BY <1>1 DEF FenceTypeOK, fenceVars
  <2>2. TaskTypeOK'
    <3>1. st' \in [Tasks -> TaskStates]
      BY <1>1 DEF TaskTypeOK, TaskStates
    <3>2. submitted_task_list' \in Seq(Tasks)
      <4>1. /\ submitted_task_list \in Seq(Tasks)
            /\ Append(submitted_task_list, t) \in Seq(Tasks)
        BY DEF TaskTypeOK
      <4>2. QED BY <1>1, <4>1
    <3>3. QED BY <1>1, <3>1, <3>2 DEF TaskTypeOK
  <2>3. GpuTypeOK' BY <1>1 DEF GpuTypeOK, gpuVars
  <2>4. DaemonTypeOK' BY <1>1 DEF DaemonTypeOK, irqVars, daemonVars, historyVars
  <2>5. QED BY <2>1, <2>2, <2>3, <2>4
<1>3. FenceIdsOK'
  BY <1>1 DEF FenceTypeOK, TaskTypeOK, GpuTypeOK, FenceIdsOK, fenceVars
<1>4. CountersOK'
  BY <1>1 DEF FenceTypeOK, TaskTypeOK, CountersOK, fenceVars, daemonVars, historyVars, Tasks
<1>5. RingOK'
  BY <1>1 DEF TaskTypeOK, GpuTypeOK, RingOK, FenceIdsOK
<1>6. WordsOK'
  BY <1>1 DEF TaskTypeOK, GpuTypeOK, WordsOK, Unfinished, daemonVars, historyVars
<1>7. OvertakenOK'
  BY <1>1 DEF OvertakenOK, daemonVars, historyVars
<1>8. FenceBackIsDone'
  BY <1>1 DEF FenceTypeOK, TaskTypeOK, GpuTypeOK, FenceBackIsDone, Unfinished, fenceVars, daemonVars, historyVars
<1>9. QED BY <1>2, <1>3, <1>4, <1>5, <1>6, <1>7, <1>8

-----------------------------------------------------------------------------
(* Release.                                                                *)

\* Dropping a creator's reference never takes the daemon's with it.
LEMMA DecReferenceInv ==
  ASSUME IndInv, NEW t \in Tasks, DecReference(t)
  PROVE  IndInv'
<1> USE DEF IndInv, TypeOK
<1> DEFINE refs == [ref_cnt EXCEPT ![t] = @ - 1]
<1>1. /\ ref_cnt' = refs /\ CreatorRefs(t) > 0
      /\ UNCHANGED <<fenceVars, fence_id, reset_dropped, gpuVars, irqVars,
                     daemonVars>>
  BY DEF DecReference
<1>2. /\ ref_cnt' \in [Tasks -> Nat]
      /\ daemon = "hung" => hang_task \in Tasks /\ ref_cnt'[hang_task] > 0
  BY <1>1 DEF CreatorRefs, TaskTypeOK, CountersOK
<1>3. /\ submitted_task_list' \in Seq(Tasks)
      /\ st' \in [Tasks -> TaskStates]
      /\ \A u \in Tasks :
           \/ st'[u] = st[u]
           \/ st'[u] = "released" /\ fence_id[u] <= returned_fence_id
  <2>1. CASE st[t] = "fake" /\ refs[t] = 0
    <3>1. /\ st' = [st EXCEPT ![t] = "released"]
          /\ UNCHANGED submitted_task_list
      BY <2>1 DEF DecReference
    <3>2. fence_id[t] = 0 /\ returned_fence_id \in Nat
      BY <2>1 DEF FenceIdsOK, FenceTypeOK
    <3>3. QED BY <3>1, <3>2 DEF TaskTypeOK, TaskStates
  <2>2. CASE ~(st[t] = "fake" /\ refs[t] = 0)
    <3>1. PICK n \in 0..Len(submitted_task_list) :
            vidsch_release_completed_tasks(n, refs, st)
      BY <2>2 DEF DecReference
    <3>2. QED BY <3>1, ReleaseOnlyBack
  <2>3. QED BY <2>1, <2>2
<1>4. /\ daemon' \in DaemonStates /\ hang_task' \in Tasks \cup {NoTask}
      /\ reset_dropped' \in [Tasks -> BOOLEAN]
      /\ UNCHANGED <<daemon, hang_task, raced, historyVars, disable_schedule>>
      /\ OvertakenOK'
  BY <1>1 DEF TaskTypeOK, DaemonTypeOK, OvertakenOK, daemonVars, historyVars
<1>5. QED BY <1>1, <1>2, <1>3, <1>4, ReleaseInv

\* Releasing from the head of the list keeps the invariant.
LEMMA ReleaseCompletedInv ==
  ASSUME IndInv, ReleaseCompleted
  PROVE  IndInv'
<1> USE DEF IndInv, TypeOK
<1>1. PICK n \in 0..Len(submitted_task_list) :
        vidsch_release_completed_tasks(n, ref_cnt, st)
  <2>1. Len(submitted_task_list) \in Nat BY DEF TaskTypeOK
  <2>2. QED BY <2>1 DEF ReleaseCompleted
<1>2. /\ submitted_task_list' \in Seq(Tasks)
      /\ st' \in [Tasks -> TaskStates]
      /\ \A u \in Tasks :
           \/ st'[u] = st[u]
           \/ st'[u] = "released" /\ fence_id[u] <= returned_fence_id
  BY <1>1, ReleaseOnlyBack
<1>3. UNCHANGED <<fenceVars, fence_id, ref_cnt, reset_dropped, gpuVars, irqVars,
                  daemonVars>>
  BY DEF ReleaseCompleted
<1>4. /\ ref_cnt' \in [Tasks -> Nat] /\ reset_dropped' \in [Tasks -> BOOLEAN]
      /\ daemon' \in DaemonStates /\ hang_task' \in Tasks \cup {NoTask}
      /\ daemon' = "hung" => hang_task' \in Tasks /\ ref_cnt'[hang_task'] > 0
      /\ UNCHANGED <<raced, historyVars, disable_schedule>>
      /\ OvertakenOK'
  BY <1>3 DEF TaskTypeOK, DaemonTypeOK, OvertakenOK, CountersOK, daemonVars, historyVars
<1>5. QED BY <1>2, <1>3, <1>4, ReleaseInv

-----------------------------------------------------------------------------
(* The GPU and the fence interrupt.                                        *)

\* Executing a task, or stopping, changes no fence word.
LEMMA GpuExecuteInv ==
  ASSUME IndInv, NEW t \in Tasks, GpuExecute(t) \/ GpuHang
  PROVE  IndInv'
<1> USE DEF IndInv, TypeOK
<1>1. /\ \/ /\ gpu_done' = gpu_done \cup {t} /\ t \in ring
            /\ FenceRead # "min" /\ UNCHANGED <<gpu_stuck, hangs>>
         \/ /\ UNCHANGED gpu_done
            /\ gpu_stuck' = TRUE /\ hangs' = hangs + 1
      /\ UNCHANGED <<fenceVars, taskVars, fence_be, fence_fe, ring, be_done,
                     fe_done, irqVars, daemonVars>>
  BY DEF GpuExecute, GpuHang, OldestIn
<1>2. TypeOK'
  <2>1. FenceTypeOK' BY <1>1 DEF FenceTypeOK, fenceVars
  <2>2. TaskTypeOK' BY <1>1 DEF TaskTypeOK, taskVars
  <2>3. GpuTypeOK'
    <3>1. hangs' \in Nat /\ gpu_done' \subseteq Tasks
      BY <1>1 DEF GpuTypeOK
    <3>2. gpu_stuck' \in BOOLEAN
      BY <1>1, Zenon DEF GpuTypeOK
    <3>3. QED BY <1>1, <3>1, <3>2 DEF GpuTypeOK
  <2>4. DaemonTypeOK' BY <1>1 DEF DaemonTypeOK, irqVars, daemonVars, historyVars
  <2>5. QED BY <2>1, <2>2, <2>3, <2>4
<1>3. FenceIdsOK' /\ CountersOK'
  BY <1>1 DEF FenceIdsOK, CountersOK, fenceVars, taskVars, daemonVars, historyVars
<1>4. RingOK'
  BY <1>1 DEF TaskTypeOK, GpuTypeOK, RingOK, taskVars
<1>5. WordsOK' /\ OvertakenOK'
  BY <1>1 DEF WordsOK, Unfinished, OvertakenOK, taskVars, daemonVars, historyVars
<1>6. FenceBackIsDone'
  BY <1>1 DEF FenceBackIsDone, Unfinished, fenceVars, taskVars, daemonVars, historyVars
<1>7. QED BY <1>2, <1>3, <1>4, <1>5, <1>6

\* A fence word moves to the oldest id not yet written: it stays below every
\* younger one, because ids are distinct.
LEMMA GpuWriteInv ==
  ASSUME IndInv, NEW t \in Tasks, GpuWriteBe(t) \/ GpuWriteFe(t)
  PROVE  IndInv'
<1> USE DEF IndInv, TypeOK
<1>1. /\ t \in ring /\ (FenceRead # "min" => t \in gpu_done)
      /\ ring' = (IF t \in be_done' \cap fe_done' THEN ring \ {t} ELSE ring)
      /\ \/ /\ t \notin be_done /\ be_done' = be_done \cup {t}
            /\ \A u \in ring \ be_done : fence_id[t] <= fence_id[u]
            /\ fence_be' = fence_id[t] /\ UNCHANGED <<fe_done, fence_fe>>
         \/ /\ t \notin fe_done /\ fe_done' = fe_done \cup {t}
            /\ \A u \in ring \ fe_done : fence_id[t] <= fence_id[u]
            /\ fence_fe' = fence_id[t] /\ UNCHANGED <<be_done, fence_be>>
      /\ gpu_done' = (IF t \in be_done' \cap fe_done' THEN gpu_done \cup {t}
                      ELSE gpu_done)
      /\ irq' \in {irq, TRUE}
      /\ UNCHANGED <<fenceVars, taskVars, gpu_stuck, hangs, notify, daemonVars>>
  BY DEF GpuWriteBe, GpuWriteFe, OldestIn, Retire
<1>2. /\ fence_id[t] > 0
      /\ st[t] \in {"kicked", "submitted", "released"}
      /\ fence_id[t] \in Nat /\ fence_id[t] <= last_send_fence_id
      /\ \A u \in Tasks : u # t => fence_id[u] # fence_id[t]
  BY <1>1 DEF RingOK, FenceIdsOK, TaskTypeOK
<1>3. TypeOK'
  <2>1. FenceTypeOK' BY <1>1 DEF FenceTypeOK, fenceVars
  <2>2. TaskTypeOK' BY <1>1 DEF TaskTypeOK, taskVars
  <2>3. GpuTypeOK' BY <1>1, <1>2 DEF GpuTypeOK
  <2>4. DaemonTypeOK' BY <1>1 DEF DaemonTypeOK, daemonVars, historyVars
  <2>5. QED BY <2>1, <2>2, <2>3, <2>4
<1>4. FenceIdsOK' /\ CountersOK'
  BY <1>1, <1>2 DEF FenceIdsOK, CountersOK, fenceVars, taskVars, daemonVars, historyVars
<1>5. RingOK'
  BY <1>1, <1>2 DEF RingOK, taskVars
<1>6. WordsOK'
  <2>1. ASSUME NEW u \in Tasks \ overtaken, u # t,
               \/ st[u] = "fenced"
               \/ u \in ring \ be_done /\ be_done' # be_done
               \/ u \in ring \ fe_done /\ fe_done' # fe_done
        PROVE  fence_id[t] < fence_id[u]
    <3>1. fence_id[t] <= fence_id[u]
      BY <1>1, <1>2, <2>1 DEF FenceIdsOK
    <3>2. QED BY <3>1, <1>2, <2>1 DEF TaskTypeOK
  <2>2. ASSUME NEW u \in Tasks \ overtaken, Unfinished(u)', u \notin be_done'
        PROVE  fence_be' < fence_id[u]
    <3>1. Unfinished(u) /\ (st[u] = "fenced" \/ u \in ring \ be_done)
      BY <1>1, <2>2 DEF Unfinished, taskVars
    <3>2. CASE UNCHANGED be_done
      <4>1. fence_be' = fence_be
        BY <1>1, <3>2
      <4>2. QED BY <2>2, <3>1, <3>2, <4>1 DEF WordsOK
    <3>3. CASE be_done' # be_done
      <4>1. u # t BY <1>1, <1>2, <2>2, <3>1, <3>3
      <4>2. fence_be' = fence_id[t] BY <1>1, <3>3
      <4>3. QED BY <2>1, <3>1, <3>3, <4>1, <4>2
    <3>4. QED BY <3>2, <3>3
  <2>3. ASSUME NEW u \in Tasks \ overtaken, Unfinished(u)', u \notin fe_done'
        PROVE  fence_fe' < fence_id[u]
    <3>1. Unfinished(u) /\ (st[u] = "fenced" \/ u \in ring \ fe_done)
      BY <1>1, <2>3 DEF Unfinished, taskVars
    <3>2. CASE UNCHANGED fe_done
      <4>1. fence_fe' = fence_fe
        BY <1>1, <3>2
      <4>2. QED BY <2>3, <3>1, <3>2, <4>1 DEF WordsOK
    <3>3. CASE fe_done' # fe_done
      <4>1. u # t BY <1>1, <1>2, <2>3, <3>1, <3>3
      <4>2. fence_fe' = fence_id[t] BY <1>1, <3>3
      <4>3. QED BY <2>1, <3>1, <3>3, <4>1, <4>2
    <3>4. QED BY <3>2, <3>3
  <2>4. QED BY <1>1, <2>2, <2>3 DEF WordsOK, Unfinished, taskVars, daemonVars, historyVars
<1>7. OvertakenOK'
  BY <1>1 DEF OvertakenOK, daemonVars, historyVars
<1>8. FenceBackIsDone'
  BY <1>1 DEF FenceBackIsDone, Unfinished, fenceVars, taskVars, daemonVars, historyVars
<1>9. QED BY <1>3, <1>4, <1>5, <1>6, <1>7, <1>8

\* A notification without the fence update changes only the two flags.
LEMMA InterruptInv ==
  ASSUME IndInv, FenceInterrupt \/ TimeoutNotify
  PROVE  IndInv'
<1> USE DEF IndInv, TypeOK
<1>1. /\ irq' \in {irq, FALSE} /\ notify' = (notify \/ ~disable_schedule)
      /\ UNCHANGED <<fenceVars, taskVars, gpuVars, daemonVars>>
  BY DEF FenceInterrupt, TimeoutNotify, vidsch_notify_interrupt
<1>2. DaemonTypeOK'
  BY <1>1 DEF DaemonTypeOK, daemonVars, historyVars
<1>3. FenceTypeOK' /\ TaskTypeOK' /\ GpuTypeOK'
  BY <1>1 DEF FenceTypeOK, TaskTypeOK, GpuTypeOK, fenceVars, taskVars, gpuVars
<1>4. FenceIdsOK' /\ CountersOK' /\ RingOK' /\ WordsOK' /\ OvertakenOK'
  BY <1>1 DEF FenceIdsOK, CountersOK, RingOK, WordsOK, Unfinished, OvertakenOK, fenceVars,
     taskVars, gpuVars, daemonVars, historyVars
<1>5. FenceBackIsDone'
  BY <1>1 DEF FenceBackIsDone, Unfinished, fenceVars, taskVars, gpuVars, daemonVars, historyVars
<1>6. QED BY <1>2, <1>3, <1>4, <1>5

\* Advancing returned_fence_id keeps the invariant, by UpdateFence.
LEMMA UpdateInv ==
  ASSUME IndInv, NotifyUpdate \/ DaemonResume
  PROVE  IndInv'
<1> USE DEF IndInv, TypeOK
<1>1. /\ vidschi_update_fence_id
      /\ notify' \in {notify, FALSE} /\ disable_schedule' \in {disable_schedule, FALSE}
      /\ \/ UNCHANGED daemon
         \/ daemon = "resume" /\ daemon' = "idle"
      /\ skipped' \in {skipped, {}}
      /\ UNCHANGED <<taskVars, gpuVars, irq, hang_task, raced, overtaken>>
  BY DEF NotifyUpdate, DaemonResume, irqVars, daemonVars, historyVars
<1>2. /\ returned_fence_id' \in Nat /\ uncomplete_task_num' \in Nat
      /\ returned_fence_id <= returned_fence_id'
      /\ returned_fence_id' <= last_send_fence_id
      /\ UNCHANGED <<last_send_fence_id, prepare_task_num>>
  BY <1>1, UpdateFence DEF vidschi_update_fence_id
<1>3. \A t \in Tasks \ overtaken :
        Unfinished(t) => returned_fence_id' < fence_id[t]
  BY <1>1, UpdateFence
<1>4. DaemonTypeOK'
  BY <1>1 DEF DaemonTypeOK, DaemonStates
<1>5. FenceTypeOK' /\ TaskTypeOK' /\ GpuTypeOK'
  BY <1>1, <1>2 DEF FenceTypeOK, TaskTypeOK, GpuTypeOK, taskVars, gpuVars
<1>6. FenceIdsOK'
  BY <1>1, <1>2 DEF FenceTypeOK, TaskTypeOK, FenceIdsOK, taskVars, gpuVars
<1>7. CountersOK' /\ RingOK' /\ WordsOK' /\ OvertakenOK'
  BY <1>1, <1>2 DEF CountersOK, RingOK, WordsOK, Unfinished, OvertakenOK, taskVars, gpuVars
<1>8. FenceBackIsDone'
  BY <1>1, <1>3 DEF FenceBackIsDone, Unfinished, taskVars, gpuVars
<1>9. QED BY <1>4, <1>5, <1>6, <1>7, <1>8

-----------------------------------------------------------------------------
(* The hang daemon.                                                        *)

\* Reporting a hung task: its reference is held while it is "hung".
LEMMA DaemonFindHangInv ==
  ASSUME IndInv, DaemonFindHang
  PROVE  IndInv'
<1> USE DEF IndInv, TypeOK
<1>1. submitted_task_list \in Seq(Tasks) /\ Len(submitted_task_list) \in Nat
  BY DEF TaskTypeOK
<1>2. PICK n \in 0..(Len(submitted_task_list) - 1) :
        /\ vidsch_release_completed_tasks(n, ref_cnt, st)
        /\ ref_cnt' = [ref_cnt EXCEPT ![submitted_task_list[n + 1]] = @ + 1]
        /\ hang_task' = submitted_task_list[n + 1]
  BY DEF DaemonFindHang
<1>3. n \in 0..Len(submitted_task_list) /\ submitted_task_list[n + 1] \in Tasks
  BY <1>1
<1>4. /\ submitted_task_list' \in Seq(Tasks)
      /\ st' \in [Tasks -> TaskStates]
      /\ \A u \in Tasks :
           \/ st'[u] = st[u]
           \/ st'[u] = "released" /\ fence_id[u] <= returned_fence_id
  BY <1>2, <1>3, ReleaseOnlyBack
<1>5. /\ ref_cnt' \in [Tasks -> Nat] /\ hang_task' \in Tasks
      /\ ref_cnt'[hang_task'] > 0
  BY <1>2, <1>3 DEF TaskTypeOK
<1>6. /\ daemon = "idle" /\ daemon' = "hung"
      /\ UNCHANGED <<fenceVars, fence_id, reset_dropped, gpuVars, irqVars,
                     disable_schedule, raced, historyVars>>
  BY DEF DaemonFindHang
<1>7. daemon' \in DaemonStates /\ reset_dropped' \in [Tasks -> BOOLEAN] /\ OvertakenOK'
  BY <1>6 DEF DaemonStates, TaskTypeOK, OvertakenOK, historyVars
<1>8. QED BY <1>4, <1>5, <1>6, <1>7, ReleaseInv

\* Dropping the reference on the hung task.
LEMMA DaemonDropReferenceInv ==
  ASSUME IndInv, DaemonDropReference
  PROVE  IndInv'
<1> USE DEF IndInv, TypeOK
<1> DEFINE refs == [ref_cnt EXCEPT ![hang_task] = @ - 1]
<1>1. PICK n \in 0..Len(submitted_task_list) :
        vidsch_release_completed_tasks(n, refs, st)
  BY DEF DaemonDropReference
<1>2. /\ submitted_task_list' \in Seq(Tasks)
      /\ st' \in [Tasks -> TaskStates]
      /\ \A u \in Tasks :
           \/ st'[u] = st[u]
           \/ st'[u] = "released" /\ fence_id[u] <= returned_fence_id
  BY <1>1, ReleaseOnlyBack
<1>3. /\ daemon = "hung" /\ daemon' = "stop" /\ ref_cnt' = refs
      /\ UNCHANGED <<fenceVars, fence_id, reset_dropped, gpuVars, irqVars,
                     hang_task, disable_schedule, raced, historyVars>>
  BY DEF DaemonDropReference
<1>4. ref_cnt' \in [Tasks -> Nat]
  BY <1>3 DEF TaskTypeOK, CountersOK
<1>5. /\ daemon' \in DaemonStates /\ hang_task' \in Tasks \cup {NoTask}
      /\ reset_dropped' \in [Tasks -> BOOLEAN] /\ OvertakenOK'
  BY <1>3 DEF DaemonStates, TaskTypeOK, DaemonTypeOK, OvertakenOK, historyVars
<1>6. QED BY <1>2, <1>3, <1>4, <1>5, ReleaseInv

\* Disabling scheduling touches only the daemon's state.
LEMMA DaemonDisableInv ==
  ASSUME IndInv, DaemonDisable
  PROVE  IndInv'
<1> USE DEF IndInv, TypeOK
<1>1. /\ daemon = "stop" /\ disable_schedule' = TRUE /\ hang_task' = NoTask
      /\ daemon' = (IF RecoveryEnable THEN "reset" ELSE "halted")
      /\ UNCHANGED <<fenceVars, taskVars, gpuVars, irqVars, raced, historyVars>>
  BY DEF DaemonDisable
<1>2. FenceTypeOK' /\ TaskTypeOK' /\ GpuTypeOK'
  BY <1>1 DEF FenceTypeOK, TaskTypeOK, GpuTypeOK, fenceVars, taskVars, gpuVars
<1>3. DaemonTypeOK'
  BY <1>1 DEF DaemonTypeOK, DaemonStates, irqVars, historyVars
<1>4. FenceIdsOK' /\ CountersOK' /\ RingOK' /\ WordsOK' /\ OvertakenOK'
  BY <1>1 DEF FenceIdsOK, CountersOK, RingOK, WordsOK, Unfinished, OvertakenOK, fenceVars,
     taskVars, gpuVars, historyVars
<1>5. FenceBackIsDone'
  BY <1>1 DEF FenceBackIsDone, Unfinished, fenceVars, taskVars, gpuVars, historyVars
<1>6. QED BY <1>2, <1>3, <1>4, <1>5

\* A reset moves the main word over the ids of everything the GPU has still to
\* execute: these tasks become "overtaken".
LEMMA DaemonMoveFenceInv ==
  ASSUME IndInv, DaemonFakeTimeout \/ DaemonMoveFence
  PROVE  IndInv'
<1> USE DEF IndInv, TypeOK
<1>1. /\ daemon = "reset" /\ daemon' \in {"resume", "restore"}
      /\ \/ UNCHANGED <<gpuVars, historyVars>> /\ daemon' = "resume"
         \/ /\ fence_be' = last_send_fence_id
            /\ overtaken' = {t \in Tasks : Unfinished(t)}
            /\ skipped' = (IF gpu_stuck THEN ring \ gpu_done ELSE {})
            /\ daemon' = "restore"
            /\ UNCHANGED <<fence_fe, ring, gpu_done, be_done, fe_done, gpu_stuck, hangs>>
      /\ UNCHANGED <<fenceVars, taskVars, irqVars, hang_task, disable_schedule, raced>>
  BY DEF DaemonFakeTimeout, DaemonMoveFence, SkipDeadDma
<1>2. RecoveryEnable
  BY <1>1, EngineAssumption DEF OvertakenOK
<1>3. FenceTypeOK' /\ TaskTypeOK'
  BY <1>1 DEF FenceTypeOK, TaskTypeOK, fenceVars, taskVars
<1>4. GpuTypeOK'
  BY <1>1 DEF GpuTypeOK, FenceTypeOK, gpuVars
<1>5. DaemonTypeOK'
  <2>1. overtaken' \subseteq Tasks /\ skipped' \subseteq Tasks
    BY <1>1 DEF DaemonTypeOK, GpuTypeOK, historyVars
  <2>2. daemon' \in DaemonStates
    BY <1>1 DEF DaemonStates
  <2>3. QED BY <1>1, <2>1, <2>2 DEF DaemonTypeOK, irqVars
<1>6. FenceIdsOK'
  BY <1>1 DEF FenceIdsOK, FenceTypeOK, fenceVars, taskVars, gpuVars
<1>7. CountersOK' /\ RingOK'
  BY <1>1 DEF CountersOK, RingOK, fenceVars, taskVars, gpuVars
<1>8. WordsOK'
  BY <1>1 DEF WordsOK, Unfinished, taskVars, gpuVars, historyVars
<1>9. OvertakenOK'
  BY <1>1, <1>2 DEF OvertakenOK, historyVars
<1>10. FenceBackIsDone'
  BY <1>1 DEF FenceBackIsDone, Unfinished, fenceVars, taskVars, gpuVars, historyVars
<1>11. QED BY <1>3, <1>4, <1>5, <1>6, <1>7, <1>8, <1>9, <1>10

\* The restart throws the ring away; of the overtaken tasks only the one inside
\* the critical section can still reach the GPU.
LEMMA DaemonRestoreInv ==
  ASSUME IndInv, DaemonRestore
  PROVE  IndInv'
<1> USE DEF IndInv, TypeOK
<1>1. /\ daemon = "restore" /\ daemon' = "drop" /\ ring' = {} /\ gpu_stuck' = FALSE
      /\ raced' = {t \in Tasks : st[t] = "fenced"}
      /\ overtaken' = {t \in overtaken : st[t] = "fenced"}
      /\ UNCHANGED <<fenceVars, taskVars, fence_be, fence_fe, gpu_done, be_done,
                     fe_done, hangs, irqVars, hang_task, disable_schedule, skipped>>
  BY DEF DaemonRestore, RestartRing
<1>2. RecoveryEnable
  BY <1>1, EngineAssumption DEF OvertakenOK
<1>3. FenceTypeOK' /\ TaskTypeOK' /\ GpuTypeOK'
  BY <1>1 DEF FenceTypeOK, TaskTypeOK, GpuTypeOK, fenceVars, taskVars
<1>4. DaemonTypeOK'
  BY <1>1 DEF DaemonTypeOK, DaemonStates, irqVars
<1>5. FenceIdsOK' /\ CountersOK' /\ RingOK'
  BY <1>1 DEF FenceIdsOK, CountersOK, RingOK, fenceVars, taskVars
<1>6. WordsOK' /\ FenceBackIsDone'
  BY <1>1 DEF WordsOK, FenceBackIsDone, Unfinished, fenceVars, taskVars
<1>7. ASSUME NEW t \in overtaken', NEW u \in overtaken' PROVE t = u
  <2>1. t \in Tasks /\ u \in Tasks /\ st[t] = "fenced" /\ st[u] = "fenced"
    BY <1>1 DEF DaemonTypeOK
  <2>2. fence_id[t] = fence_id[u] /\ fence_id[t] > 0 /\ fence_id[t] \in Nat
    BY <2>1 DEF FenceIdsOK, TaskTypeOK
  <2>3. QED BY <2>1, <2>2 DEF FenceIdsOK
<1>8. OvertakenOK'
  BY <1>1, <1>2, <1>7 DEF OvertakenOK
<1>9. QED BY <1>3, <1>4, <1>5, <1>6, <1>8

\* Marking the listed tasks dropped and releasing what is back.
LEMMA DaemonDropTasksInv ==
  ASSUME IndInv, DaemonDropTasks
  PROVE  IndInv'
<1> USE DEF IndInv, TypeOK
<1>1. PICK n \in 0..Len(submitted_task_list) :
        vidsch_release_completed_tasks(n, ref_cnt, st)
  BY DEF DaemonDropTasks
<1>2. /\ submitted_task_list' \in Seq(Tasks)
      /\ st' \in [Tasks -> TaskStates]
      /\ \A u \in Tasks :
           \/ st'[u] = st[u]
           \/ st'[u] = "released" /\ fence_id[u] <= returned_fence_id
  BY <1>1, ReleaseOnlyBack
<1>3. /\ daemon = "drop" /\ daemon' = "resume"
      /\ UNCHANGED <<fenceVars, fence_id, ref_cnt, gpuVars, irqVars, hang_task,
                     disable_schedule, raced, historyVars>>
  BY DEF DaemonDropTasks
<1>4. reset_dropped' \in [Tasks -> BOOLEAN]
  <2>1. reset_dropped' = [t \in Tasks |-> reset_dropped[t]
          \/ \E i \in 1..Len(submitted_task_list) : submitted_task_list[i] = t]
    BY DEF DaemonDropTasks
  <2>2. QED BY <2>1, Zenon
<1>5. /\ daemon' \in DaemonStates /\ hang_task' \in Tasks \cup {NoTask}
      /\ ref_cnt' \in [Tasks -> Nat] /\ OvertakenOK'
  BY <1>3 DEF DaemonStates, TaskTypeOK, DaemonTypeOK, OvertakenOK, historyVars
<1>6. QED BY <1>2, <1>3, <1>4, <1>5, ReleaseInv

-----------------------------------------------------------------------------
(* The theorems.                                                           *)

\* Every step of the engine keeps the inductive invariant.
LEMMA NextInv == IndInv /\ [Next]_vars => IndInv'
<1> SUFFICES ASSUME IndInv, [Next]_vars PROVE IndInv'
  OBVIOUS
<1>1. ASSUME NEW t \in Render, AllocateRender(t) \/ WorkerStep(t)
      PROVE  IndInv'
  BY <1>1, AllocateInv, CanPrepareInv, SubmitInv, FakeSubmitInv, EngineAssumption
     DEF WorkerStep, SubmitPaging, SubmitRender, Tasks
<1>2. ASSUME NEW t \in Paging, AllocatePaging(t) \/ PagingStep(t)
      PROVE  IndInv'
  BY <1>2, AllocateInv, SubmitInv, FakeSubmitInv, DecReferenceInv
     DEF PagingStep, Tasks
<1>3. ASSUME NEW t \in Tasks, KickOff(t) \/ SetSubmitted(t) \/ GpuStep(t)
      PROVE  IndInv'
  BY <1>3, KickOffInv, GpuExecuteInv, GpuWriteInv DEF GpuStep
<1>4. CASE GpuHang
  <2>1. PICK t : t \in Tasks
    BY <1>4 DEF GpuHang, IndInv, TypeOK, GpuTypeOK
  <2>2. QED BY <1>4, <2>1, GpuExecuteInv
<1>5. CASE DaemonStep
  BY <1>5, DaemonFindHangInv, DaemonDropReferenceInv, DaemonDisableInv,
     DaemonMoveFenceInv, DaemonRestoreInv, DaemonDropTasksInv, UpdateInv DEF DaemonStep
<1>6. CASE ReleaseCompleted \/ FenceInterrupt \/ TimeoutNotify \/ NotifyUpdate
  BY <1>6, ReleaseCompletedInv, InterruptInv, UpdateInv
<1>7. CASE UNCHANGED vars
  <2>1. UNCHANGED <<fenceVars, taskVars, gpuVars, irqVars, daemonVars>>
    BY <1>7 DEF vars
  <2>2. FenceTypeOK' /\ TaskTypeOK' /\ GpuTypeOK' /\ DaemonTypeOK'
    BY <2>1 DEF IndInv, TypeOK, FenceTypeOK, TaskTypeOK, GpuTypeOK, DaemonTypeOK,
       fenceVars, taskVars, gpuVars, irqVars, daemonVars, historyVars
  <2>3. FenceIdsOK' /\ CountersOK' /\ RingOK' /\ WordsOK' /\ OvertakenOK'
    BY <2>1 DEF IndInv, FenceIdsOK, CountersOK, RingOK, WordsOK, Unfinished, OvertakenOK,
       fenceVars, taskVars, gpuVars, daemonVars, historyVars
  <2>4. FenceBackIsDone'
    BY <2>1 DEF IndInv, FenceBackIsDone, Unfinished, fenceVars, taskVars, gpuVars,
       daemonVars, historyVars
  <2>5. QED BY <2>2, <2>3, <2>4 DEF IndInv, TypeOK
<1>8. QED
  BY <1>1, <1>2, <1>3, <1>4, <1>5, <1>6, <1>7 DEF Next

\* IndInv holds in every reachable state of the engine.
THEOREM Invariance == Spec => []IndInv
  BY InitInv, NextInv, PTL DEF Spec

\* The counters never underflow and every variable keeps its type, whatever
\* interleaving of submissions, resets and releases happens.
THEOREM TypeCorrect == Spec => []TypeOK
<1>1. IndInv => TypeOK BY DEF IndInv
<1>2. QED BY <1>1, Invariance, PTL

\* A task whose fence id is back has been executed by the GPU or was discarded
\* by a reset: what vidsch_is_fence_back tells every waiter is true, for all but
\* the tasks a reset moved the fence over and the GPU may still execute.
THEOREM FenceBackSafe == Spec => []FenceBackIsDone
<1>1. IndInv => FenceBackIsDone BY DEF IndInv
<1>2. QED BY <1>1, Invariance, PTL

\* A task that was released is never still to be executed, unless a reset overtook
\* it; outside the reset this is at most one task, and without recovery none.
THEOREM ReleaseSafe ==
  Spec => [](ReleasedIsIdle /\ (~RecoveryEnable => overtaken = {}))
<1>1. IndInv => ReleasedIsIdle
  <2> SUFFICES ASSUME IndInv PROVE ReleasedIsIdle
    OBVIOUS
  <2>1. ASSUME NEW t \in Tasks, st[t] = "released", Unfinished(t)
        PROVE  t \in overtaken
    <3>1. /\ fence_id[t] <= returned_fence_id
          /\ fence_id[t] \in Nat /\ returned_fence_id \in Nat
      BY <2>1 DEF IndInv, FenceIdsOK, TypeOK, TaskTypeOK, FenceTypeOK
    <3>2. QED BY <2>1, <3>1 DEF IndInv, FenceBackIsDone
  <2>2. QED BY <2>1 DEF ReleasedIsIdle, IndInv, OvertakenOK
<1>2. IndInv => (~RecoveryEnable => overtaken = {})
  BY DEF IndInv, OvertakenOK
<1>3. QED BY <1>1, <1>2, Invariance, PTL

-----------------------------------------------------------------------------
(* The hardware queue.                                                     *)

\* The fence ids of the outstanding tasks are distinct numbers between the two ids.
Fits ==
  /\ IsFiniteSet(Outstanding) /\ Cardinality(Outstanding) \in Nat
  /\ Cardinality(Outstanding) <= last_send_fence_id - returned_fence_id

LEMMA OutstandingFits == IndInv => Fits
<1> SUFFICES ASSUME IndInv PROVE Fits
  OBVIOUS
<1> DEFINE f == [t \in Outstanding |-> fence_id[t]]
           ids == (returned_fence_id + 1) .. last_send_fence_id
<1>1. /\ last_send_fence_id \in Nat /\ returned_fence_id \in Nat
      /\ returned_fence_id <= last_send_fence_id
      /\ Outstanding \subseteq Tasks /\ fence_id \in [Tasks -> Nat]
  BY DEF IndInv, TypeOK, FenceTypeOK, TaskTypeOK, FenceIdsOK, Outstanding, Tasks
<1>2. \A t \in Outstanding : fence_id[t] \in ids
  BY <1>1 DEF Outstanding, IndInv, FenceIdsOK
<1>3. \A t, u \in Outstanding : fence_id[t] = fence_id[u] => t = u
  BY <1>1 DEF Outstanding, IndInv, FenceIdsOK
<1>4. f \in Injection(Outstanding, ids)
  BY <1>2, <1>3 DEF Injection, IsInjective
<1>5. IsFiniteSet(ids) /\ Cardinality(ids) = last_send_fence_id - returned_fence_id
  <2>1. Cardinality(ids) = IF returned_fence_id + 1 > last_send_fence_id THEN 0
                           ELSE last_send_fence_id - (returned_fence_id + 1) + 1
    BY <1>1, FS_Interval
  <2>2. IsFiniteSet(ids)
    BY <1>1, FS_Interval
  <2>3. QED BY <1>1, <2>1, <2>2
<1>6. IsFiniteSet(Outstanding) /\ Cardinality(Outstanding) <= Cardinality(ids)
  BY <1>4, <1>5, FS_Injection
<1>7. QED BY <1>5, <1>6, FS_CardinalityType DEF Fits

\* No step but a submission gives a task a fence id.
Quiet ==
  /\ fence_id' = fence_id /\ returned_fence_id' >= returned_fence_id
  /\ \A t \in Render : st'[t] \in {"fenced", "kicked", "submitted"} =>
                         st[t] \in {"fenced", "kicked", "submitted"}

LEMMA QuietOutstanding ==
  ASSUME IndInv, Quiet, returned_fence_id' \in Nat
  PROVE  /\ Cardinality(Outstanding') \in Nat
         /\ Cardinality(Outstanding') <= Cardinality(Outstanding)
<1>1. Outstanding' \in SUBSET Outstanding
  <2>1. returned_fence_id \in Nat /\ \A t \in Render : fence_id[t] \in Nat
    BY DEF IndInv, TypeOK, FenceTypeOK, TaskTypeOK, Tasks
  <2>2. QED BY <2>1 DEF Quiet, Outstanding
<1>2. QED BY <1>1, OutstandingFits, FS_Subset, FS_CardinalityType DEF Fits

LEMMA BoundTypes ==
  ASSUME BoundInv
  PROVE  /\ Cardinality(Outstanding) \in Nat /\ prepare_task_num \in Nat
         /\ uncomplete_task_num \in Nat /\ HwQueueSize \in Nat
         /\ last_send_fence_id \in Nat /\ returned_fence_id \in Nat
         /\ Cardinality(Outstanding) + prepare_task_num <= HwQueueSize
         /\ Cardinality(Outstanding) <= uncomplete_task_num
         /\ Cardinality(Outstanding) <= last_send_fence_id - returned_fence_id
  BY OutstandingFits, EngineAssumption
  DEF BoundInv, HwQueueBound, IndInv, TypeOK, FenceTypeOK, Fits

\* Fence ids come back.
LEMMA UpdateBound ==
  ASSUME BoundInv, IndInv', vidschi_update_fence_id, UNCHANGED <<st, fence_id>>
  PROVE  BoundInv'
<1>1. returned_fence_id' \in Nat /\ returned_fence_id \in Nat
  BY DEF BoundInv, IndInv, TypeOK, FenceTypeOK
<1>2. /\ prepare_task_num' = prepare_task_num /\ returned_fence_id' >= returned_fence_id
      /\ \/ UNCHANGED uncomplete_task_num
         \/ uncomplete_task_num' = last_send_fence_id' - returned_fence_id'
  BY <1>1 DEF vidschi_update_fence_id, AcceptFence
<1>3. Quiet
  BY <1>2 DEF Quiet
<1>4. /\ Cardinality(Outstanding') \in Nat
      /\ Cardinality(Outstanding') <= Cardinality(Outstanding)
  BY <1>1, <1>3, QuietOutstanding DEF BoundInv
<1>5. Cardinality(Outstanding') <= last_send_fence_id' - returned_fence_id'
  <2>1. Fits'
    BY OutstandingFits, PTL
  <2>2. QED BY <2>1 DEF Fits
<1>6. QED BY <1>2, <1>4, <1>5, BoundTypes DEF BoundInv, HwQueueBound

\* A task gets its fence id; a render gives its reservation back for it.
LEMMA SubmitBound ==
  ASSUME BoundInv, IndInv', NEW t \in Tasks,
         \/ t \in Render /\ SubmitRender(t)
         \/ t \in Paging /\ SubmitPaging(t)
  PROVE  BoundInv'
<1>1. /\ st \in [Tasks -> TaskStates] /\ fence_id \in [Tasks -> Nat]
      /\ returned_fence_id \in Nat /\ Render \subseteq Tasks
  BY DEF BoundInv, IndInv, TypeOK, TaskTypeOK, FenceTypeOK, Tasks
<1>2. /\ st' = [st EXCEPT ![t] = "fenced"] /\ UNCHANGED returned_fence_id
      /\ fence_id' = [fence_id EXCEPT ![t] = NextFenceId(last_send_fence_id)]
      /\ uncomplete_task_num' = (last_send_fence_id + 1) - returned_fence_id
      /\ st[t] \in {"allocated", "prepared"}
  BY DEF SubmitRender, SubmitPaging, vidschi_inc_send_fence_id
<1>3. t \notin Outstanding
  BY <1>2 DEF Outstanding
<1>4. Outstanding' \subseteq Outstanding \cup {t}
  BY <1>1, <1>2 DEF Outstanding
<1>5. Cardinality(Outstanding \cup {t}) = Cardinality(Outstanding) + 1
      /\ IsFiniteSet(Outstanding \cup {t})
  BY <1>3, OutstandingFits, FS_AddElement DEF BoundInv, Fits
<1>6. /\ Cardinality(Outstanding') <= Cardinality(Outstanding) + 1
      /\ Cardinality(Outstanding') \in Nat
  BY <1>4, <1>5, FS_Subset, FS_CardinalityType
<1>7. Cardinality(Outstanding') <= uncomplete_task_num'
  BY <1>2, <1>6, BoundTypes
<1>8. CASE t \in Render /\ SubmitRender(t)
  <2>1. prepare_task_num' = prepare_task_num - 1
    BY <1>8 DEF SubmitRender, vidschi_inc_send_fence_id
  <2>2. QED BY <1>6, <1>7, <2>1, BoundTypes DEF BoundInv, HwQueueBound
<1>9. CASE t \in Paging /\ SubmitPaging(t)
  <2>1. prepare_task_num' = prepare_task_num
    BY <1>9, BoundTypes DEF SubmitPaging, vidschi_inc_send_fence_id
  <2>2. Outstanding' \subseteq Outstanding
    BY <1>1, <1>2, <1>4, <1>9, EngineAssumption DEF Outstanding
  <2>3. Cardinality(Outstanding') <= Cardinality(Outstanding)
    BY <2>2, OutstandingFits, FS_Subset DEF BoundInv, Fits
  <2>4. QED BY <1>6, <1>7, <2>1, <2>3, BoundTypes DEF BoundInv, HwQueueBound
<1>10. QED BY <1>8, <1>9

\* A hardware queue slot is reserved, and given back for a discarded task.
LEMMA PrepareBound ==
  ASSUME BoundInv, IndInv', NEW t \in Tasks, CanPrepare(t) \/ FakeSubmitRender(t)
  PROVE  BoundInv'
<1>1. st \in [Tasks -> TaskStates] /\ returned_fence_id \in Nat /\ Render \subseteq Tasks
  BY DEF BoundInv, IndInv, TypeOK, TaskTypeOK, FenceTypeOK, Tasks
<1>2. Quiet /\ UNCHANGED <<uncomplete_task_num, returned_fence_id>>
  BY <1>1 DEF CanPrepare, FakeSubmitRender, Quiet
<1>3. /\ Cardinality(Outstanding') \in Nat
      /\ Cardinality(Outstanding') <= Cardinality(Outstanding)
  BY <1>1, <1>2, QuietOutstanding DEF BoundInv
<1>4. prepare_task_num' + Cardinality(Outstanding) <= HwQueueSize /\ prepare_task_num' \in Nat
  <2>1. CASE CanPrepare(t)
    BY <2>1, BoundTypes DEF CanPrepare, SlotFree
  <2>2. CASE FakeSubmitRender(t)
    <3>1. prepare_task_num' = prepare_task_num - 1 /\ prepare_task_num' \in Nat
      BY <2>2 DEF FakeSubmitRender, BoundInv, IndInv, TypeOK, FenceTypeOK
    <3>2. QED BY <3>1, BoundTypes
  <2>3. QED BY <2>1, <2>2
<1>5. QED BY <1>2, <1>3, <1>4, BoundTypes DEF BoundInv, HwQueueBound

LEMMA QuietBound ==
  ASSUME BoundInv, IndInv', Quiet,
         UNCHANGED <<uncomplete_task_num, prepare_task_num, returned_fence_id>>
  PROVE  BoundInv'
<1>1. returned_fence_id' \in Nat
  BY DEF BoundInv, IndInv, TypeOK, FenceTypeOK
<1>2. /\ Cardinality(Outstanding') \in Nat
      /\ Cardinality(Outstanding') <= Cardinality(Outstanding)
  BY <1>1, QuietOutstanding DEF BoundInv
<1>3. QED BY <1>2, BoundTypes DEF BoundInv, HwQueueBound

\* What a step that is no submission may do to a task's state.
Moved(t) ==
  \/ st'[t] = st[t] \/ st'[t] = "released"
  \/ st'[t] \in {"kicked", "submitted"} /\ st[t] \in {"fenced", "kicked"}
  \/ st'[t] = "allocated" /\ st[t] = "none"
  \/ st'[t] = "fake" /\ st[t] = "allocated"

LEMMA MovedOne ==
  ASSUME IndInv, NEW t \in Tasks, NEW s, st' = [st EXCEPT ![t] = s],
         \/ s = "released"
         \/ s \in {"kicked", "submitted"} /\ st[t] \in {"fenced", "kicked"}
         \/ s = "allocated" /\ st[t] = "none"
         \/ s = "fake" /\ st[t] = "allocated"
  PROVE  \A u \in Tasks : Moved(u)
<1>1. st \in [Tasks -> TaskStates]
  BY DEF IndInv, TypeOK, TaskTypeOK
<1>2. \A u \in Tasks : u # t => st'[u] = st[u]
  BY <1>1
<1>3. st'[t] = s
  BY <1>1
<1>4. QED BY <1>2, <1>3 DEF Moved

\* vidsch_release_completed_tasks moves tasks to "released" only.
LEMMA MovedReleased ==
  ASSUME IndInv, NEW n \in 0..Len(submitted_task_list), NEW refs,
         vidsch_release_completed_tasks(n, refs, st)
  PROVE  \A t \in Tasks : Moved(t)
  BY ReleaseOnlyBack DEF IndInv, Moved

LEMMA MovedNone == UNCHANGED st => \A t \in Tasks : Moved(t)
  BY DEF Moved

OtherStep ==
  \/ \E t \in Render : AllocateRender(t)
  \/ \E t \in Paging : AllocatePaging(t) \/ FakeSubmitPaging(t) \/ DecReference(t)
  \/ \E t \in Tasks : KickOff(t) \/ SetSubmitted(t) \/ GpuStep(t)
  \/ ReleaseCompleted \/ GpuHang \/ FenceInterrupt \/ TimeoutNotify
  \/ DaemonFindHang \/ DaemonDropReference \/ DaemonDisable
  \/ DaemonFakeTimeout \/ DaemonMoveFence \/ DaemonRestore \/ DaemonDropTasks \/ UNCHANGED vars

LEMMA OtherMoves ==
  ASSUME IndInv, OtherStep
  PROVE  UNCHANGED <<fenceVars, fence_id>> /\ \A t \in Tasks : Moved(t)
<1>1. /\ Render \subseteq Tasks /\ Paging \subseteq Tasks
      /\ submitted_task_list \in Seq(Tasks) /\ Len(submitted_task_list) \in Nat
  BY DEF Tasks, IndInv, TypeOK, TaskTypeOK
<1>2. ASSUME NEW t \in Render, AllocateRender(t)
      PROVE  UNCHANGED <<fenceVars, fence_id>> /\ \A u \in Tasks : Moved(u)
  BY <1>1, <1>2, MovedOne DEF AllocateRender
<1>3. ASSUME NEW t \in Paging, AllocatePaging(t) \/ FakeSubmitPaging(t)
      PROVE  UNCHANGED <<fenceVars, fence_id>> /\ \A u \in Tasks : Moved(u)
  BY <1>1, <1>3, MovedOne DEF AllocatePaging, FakeSubmitPaging
<1>4. ASSUME NEW t \in Tasks, KickOff(t) \/ SetSubmitted(t)
      PROVE  UNCHANGED <<fenceVars, fence_id>> /\ \A u \in Tasks : Moved(u)
  BY <1>4, MovedOne DEF KickOff, SetSubmitted
<1>5. ASSUME NEW t \in Tasks, GpuStep(t)
      PROVE  UNCHANGED <<fenceVars, fence_id, st>>
  BY <1>5 DEF GpuStep, GpuExecute, GpuWriteBe, GpuWriteFe, taskVars
<1>6. CASE \/ GpuHang \/ FenceInterrupt \/ TimeoutNotify \/ DaemonDisable
           \/ DaemonFakeTimeout \/ DaemonMoveFence \/ DaemonRestore \/ UNCHANGED vars
  <2>1. UNCHANGED <<fenceVars, fence_id, st>>
    BY <1>6 DEF GpuHang, FenceInterrupt, TimeoutNotify, DaemonDisable, DaemonFakeTimeout,
                DaemonMoveFence, DaemonRestore, taskVars, vars
  <2>2. QED BY <2>1, MovedNone
<1>7. ASSUME NEW t \in Paging, DecReference(t)
      PROVE  UNCHANGED <<fenceVars, fence_id>> /\ \A u \in Tasks : Moved(u)
  <2>1. UNCHANGED <<fenceVars, fence_id>>
    BY <1>7 DEF DecReference
  <2>2. CASE st' = [st EXCEPT ![t] = "released"]
    BY <1>1, <2>1, <2>2, MovedOne
  <2>3. CASE \E n \in 0..Len(submitted_task_list) :
               \E refs : vidsch_release_completed_tasks(n, refs, st)
    BY <2>1, <2>3, MovedReleased
  <2>4. QED BY <1>7, <2>2, <2>3 DEF DecReference
<1>8. CASE DaemonFindHang \/ DaemonDropReference \/ DaemonDropTasks \/ ReleaseCompleted
  <2>1. UNCHANGED <<fenceVars, fence_id>>
    BY <1>8 DEF DaemonFindHang, DaemonDropReference, DaemonDropTasks, ReleaseCompleted
  <2>2. \E n \in 0..Len(submitted_task_list) :
          \E refs : vidsch_release_completed_tasks(n, refs, st)
    <3>1. CASE DaemonFindHang
      <4>1. \A n \in 0..(Len(submitted_task_list) - 1) : n \in 0..Len(submitted_task_list)
        BY <1>1
      <4>2. QED BY <3>1, <4>1 DEF DaemonFindHang
    <3>2. CASE ReleaseCompleted
      <4>1. \A n \in 1..Len(submitted_task_list) : n \in 0..Len(submitted_task_list)
        BY <1>1
      <4>2. QED BY <3>2, <4>1 DEF ReleaseCompleted
    <3>3. QED BY <1>8, <3>1, <3>2 DEF DaemonDropReference, DaemonDropTasks
  <2>3. QED BY <2>1, <2>2, MovedReleased
<1>9. QED BY <1>2, <1>3, <1>4, <1>5, <1>6, <1>7, <1>8, MovedNone DEF OtherStep

LEMMA StepCases ==
  ASSUME [Next]_vars
  PROVE  \/ OtherStep
         \/ \E t \in Tasks : \/ t \in Render /\ SubmitRender(t)
                             \/ t \in Paging /\ SubmitPaging(t)
         \/ \E t \in Tasks : CanPrepare(t) \/ FakeSubmitRender(t)
         \/ NotifyUpdate \/ DaemonResume
  BY DEF Next, WorkerStep, PagingStep, DaemonStep, OtherStep, Tasks

LEMMA NextBound == BoundInv /\ [Next]_vars => BoundInv'
<1> SUFFICES ASSUME BoundInv, [Next]_vars PROVE BoundInv'
  OBVIOUS
<1>1. IndInv /\ IndInv'
  BY NextInv DEF BoundInv
<1>2. CASE OtherStep
  <2>1. UNCHANGED <<fenceVars, fence_id>> /\ \A t \in Tasks : Moved(t)
    BY <1>1, <1>2, OtherMoves
  <2>2. Quiet
    <3>1. returned_fence_id \in Nat
      BY <1>1 DEF IndInv, TypeOK, FenceTypeOK
    <3>2. QED BY <2>1, <3>1 DEF Quiet, Moved, Tasks, fenceVars
  <2>3. QED BY <1>1, <2>1, <2>2, QuietBound DEF fenceVars
<1>3. CASE NotifyUpdate \/ DaemonResume
  BY <1>1, <1>3, UpdateBound DEF NotifyUpdate, DaemonResume, taskVars
<1>4. QED BY <1>1, <1>2, <1>3, StepCases, SubmitBound, PrepareBound

LEMMA InitBound == Init => BoundInv
<1> SUFFICES ASSUME Init PROVE BoundInv
  OBVIOUS
<1>1. Outstanding = {}
  BY DEF Init, Outstanding, Tasks
<1>2. Cardinality(Outstanding) = 0
  BY <1>1, FS_EmptySet
<1>3. QED BY <1>2, InitInv, EngineAssumption DEF Init, BoundInv, HwQueueBound

\* Outstanding render tasks and reserved slots fit in the hardware queue at every
\* step, whatever paging tasks and the VPP jump do to the ids in between.
THEOREM QueueBounded == Spec => []HwQueueBound
<1>1. BoundInv => HwQueueBound
  BY DEF BoundInv
<1>2. QED BY <1>1, InitBound, NextBound, PTL DEF Spec

-----------------------------------------------------------------------------
(* A reset skips the dead DMA.                                             *)

LEMMA SkipTypes ==
  ASSUME SkipInv
  PROVE  /\ st \in [Tasks -> TaskStates] /\ fence_id \in [Tasks -> Nat]
         /\ fence_be \in Nat /\ last_send_fence_id \in Nat
         /\ skipped \subseteq Tasks /\ ring \subseteq Tasks
         /\ fence_be <= last_send_fence_id
         /\ \A t \in Tasks : fence_id[t] <= last_send_fence_id
         /\ \A t \in Tasks : st[t] = "fenced" => fence_id[t] = last_send_fence_id
  BY DEF SkipInv, IndInv, TypeOK, TaskTypeOK, GpuTypeOK, FenceTypeOK, DaemonTypeOK, FenceIdsOK

\* The daemon's place changes only in its own steps.
LEMMA SkipFrame ==
  ASSUME SkipInv, IndInv', UNCHANGED <<fence_id, fence_be, be_done, skipped>>,
         ring' \subseteq ring, gpu_stuck' \in {gpu_stuck, TRUE},
         \/ UNCHANGED daemon
         \/ daemon \notin {"restore", "drop", "resume"}
         \/ daemon = "drop" /\ daemon' = "resume",
         \A t \in skipped : st[t] \in {"kicked", "submitted", "released"} =>
                           st'[t] \in {"kicked", "submitted", "released"}
  PROVE  SkipInv'
  BY DEF SkipInv

LEMMA SkipMoved ==
  ASSUME SkipInv, \A t \in Tasks : Moved(t)
  PROVE  \A t \in skipped : st[t] \in {"kicked", "submitted", "released"} =>
                              st'[t] \in {"kicked", "submitted", "released"}
  BY SkipTypes DEF Moved

\* The word is written in the order of the ring, and not by a hung GPU.
LEMMA WriteSkip ==
  ASSUME SkipInv, IndInv', NEW t \in Tasks, GpuWriteBe(t) PROVE SkipInv'
<1>1. /\ fence_be' = fence_id[t] /\ be_done' = be_done \cup {t} /\ ring' \subseteq ring
      /\ t \in ring \ be_done /\ \A u \in ring \ be_done : fence_id[t] <= fence_id[u]
      /\ ~gpu_stuck /\ UNCHANGED <<st, fence_id, skipped, daemon>>
  BY DEF GpuWriteBe, Retire, OldestIn, taskVars, daemonVars, historyVars
<1>2. CASE skipped = {}
  BY <1>1, <1>2 DEF SkipInv
<1>3. CASE skipped # {}
  <2>1. daemon # "restore" /\ fence_be <= fence_id[t]
    BY <1>1, <1>3 DEF SkipInv
  <2>2. \A u \in skipped : fence_id[u] <= fence_be'
    BY <1>1, <2>1, SkipTypes DEF SkipInv
  <2>3. \A u \in ring' \ be_done' : fence_be' <= fence_id[u]
    BY <1>1
  <2>4. QED BY <1>1, <1>3, <2>1, <2>2, <2>3 DEF SkipInv
<1>4. QED BY <1>2, <1>3

\* The skipped tasks are behind the last id sent, which the reset writes.
LEMMA MoveSkip == ASSUME SkipInv, IndInv', DaemonMoveFence PROVE SkipInv'
<1>1. /\ fence_be' = last_send_fence_id /\ daemon' = "restore" /\ daemon = "reset"
      /\ skipped' = (IF gpu_stuck THEN ring \ gpu_done ELSE {})
      /\ UNCHANGED <<st, fence_id, gpu_stuck>>
  BY DEF DaemonMoveFence, SkipDeadDma, taskVars
<1>2. \A t \in ring : st[t] \in {"kicked", "submitted", "released"}
  BY DEF SkipInv, IndInv, RingOK
<1>3. \A t \in skipped' : /\ st'[t] \in {"kicked", "submitted", "released"}
                         /\ fence_id'[t] <= fence_be'
  BY <1>1, <1>2, SkipTypes
<1>4. QED BY <1>1, <1>3 DEF SkipInv

\* A kick-off adds the task with the newest id.
LEMMA KickSkip ==
  ASSUME SkipInv, IndInv', NEW t \in Tasks, KickOff(t) PROVE SkipInv'
<1>1. /\ UNCHANGED <<fence_id, fence_be, be_done, skipped, gpu_stuck, daemon>>
      /\ ring' \subseteq ring \cup {t}
      /\ st[t] = "fenced" /\ st' = [st EXCEPT ![t] = "kicked"]
  BY DEF KickOff, historyVars
<1>2. fence_be <= fence_id[t]
  BY <1>1, SkipTypes
<1>3. \A u \in skipped : st'[u] \in {"kicked", "submitted", "released"}
  BY <1>1, SkipTypes DEF SkipInv
<1>4. skipped # {} /\ daemon # "restore" =>
        \A u \in ring' \ be_done' : fence_be' <= fence_id'[u]
  BY <1>1, <1>2 DEF SkipInv
<1>5. QED BY <1>1, <1>3, <1>4 DEF SkipInv

LEMMA SubmitSkip ==
  ASSUME SkipInv, IndInv', NEW t \in Tasks, SubmitRender(t) \/ SubmitPaging(t) PROVE SkipInv'
<1>1. /\ st' = [st EXCEPT ![t] = "fenced"]
      /\ UNCHANGED <<fence_be, ring, be_done, gpu_stuck, daemon, skipped>>
      /\ \E v : fence_id' = [fence_id EXCEPT ![t] = v]
      /\ st[t] \in {"allocated", "prepared"}
  BY DEF SubmitRender, SubmitPaging, vidschi_inc_send_fence_id, gpuVars, daemonVars, historyVars
<1>2. t \notin skipped /\ t \notin ring
  BY <1>1 DEF SkipInv, IndInv, RingOK
<1>3. \A u \in Tasks : u # t => st'[u] = st[u] /\ fence_id'[u] = fence_id[u]
  BY <1>1, SkipTypes
<1>4. QED BY <1>1, <1>2, <1>3, SkipTypes DEF SkipInv

LEMMA NextSkip == SkipInv /\ [Next]_vars => SkipInv'
<1> SUFFICES ASSUME SkipInv, [Next]_vars PROVE SkipInv'
  OBVIOUS
<1>1. IndInv /\ IndInv'
  BY NextInv DEF SkipInv
<1>2. ASSUME NEW t \in Tasks, GpuExecute(t) \/ GpuWriteFe(t) PROVE SkipInv'
  <2>1. /\ UNCHANGED <<st, fence_id, fence_be, be_done, skipped, gpu_stuck, daemon>>
        /\ ring' \subseteq ring
    BY <1>2 DEF GpuExecute, GpuWriteFe, Retire, taskVars, daemonVars, historyVars
  <2>2. QED BY <1>1, <2>1, SkipFrame
<1>3. CASE DaemonRestore
  <2>1. /\ UNCHANGED <<st, fence_id, fence_be, skipped>> /\ ring' = {} /\ daemon' = "drop"
    BY <1>3 DEF DaemonRestore, RestartRing, taskVars
  <2>2. QED BY <1>1, <2>1 DEF SkipInv
<1>4. CASE OtherStep
  <2>1. UNCHANGED fence_id /\ \A t \in Tasks : Moved(t)
    BY <1>1, <1>4, OtherMoves
  <2>2. CASE \/ DaemonMoveFence \/ DaemonRestore
             \/ \E t \in Tasks : KickOff(t) \/ GpuStep(t)
    BY <1>1, <1>2, <1>3, <2>2, WriteSkip, MoveSkip, KickSkip DEF GpuStep
  <2>3. CASE \/ \E t \in Render : AllocateRender(t)
             \/ \E t \in Paging : AllocatePaging(t) \/ FakeSubmitPaging(t) \/ DecReference(t)
             \/ \E t \in Tasks : SetSubmitted(t)
             \/ ReleaseCompleted \/ GpuHang \/ FenceInterrupt \/ TimeoutNotify
             \/ UNCHANGED vars
    <3>1. /\ UNCHANGED <<fence_be, ring, be_done, skipped, daemon>>
          /\ gpu_stuck' \in {gpu_stuck, TRUE}
      BY <2>3
      DEF AllocateRender, AllocatePaging, FakeSubmitPaging, DecReference,
          SetSubmitted, ReleaseCompleted, GpuHang, FenceInterrupt, TimeoutNotify, vars, gpuVars,
          daemonVars, historyVars
    <3>2. QED BY <1>1, <2>1, <3>1, SkipMoved, SkipFrame
  <2>4. CASE DaemonFindHang \/ DaemonDropReference \/ DaemonDisable \/ DaemonFakeTimeout
             \/ DaemonDropTasks
    <3>1. /\ UNCHANGED <<fence_be, ring, be_done, skipped, gpu_stuck>>
          /\ \/ daemon \in {"idle", "hung", "stop", "reset"}
             \/ daemon = "drop" /\ daemon' = "resume"
      BY <2>4 DEF DaemonFindHang, DaemonDropReference, DaemonDisable, DaemonFakeTimeout,
                  DaemonDropTasks, gpuVars, historyVars
    <3>2. QED BY <1>1, <2>1, <3>1, SkipMoved, SkipFrame
  <2>5. QED BY <1>4, <2>2, <2>3, <2>4 DEF OtherStep
<1>5. CASE \E t \in Tasks : CanPrepare(t) \/ FakeSubmitRender(t)
  <2>1. PICK t \in Tasks : CanPrepare(t) \/ FakeSubmitRender(t)
    BY <1>5
  <2>2. /\ UNCHANGED <<fence_id, fence_be, ring, be_done, skipped, gpu_stuck, daemon>>
        /\ \E s \in {"prepared", "released"} : st' = [st EXCEPT ![t] = s]
        /\ st[t] \in {"allocated", "prepared"}
    BY <2>1 DEF CanPrepare, FakeSubmitRender, gpuVars, daemonVars, historyVars
  <2>3. QED BY <1>1, <2>2, SkipTypes, SkipFrame
<1>6. CASE NotifyUpdate
  <2>1. UNCHANGED <<st, fence_id, fence_be, ring, be_done, skipped, gpu_stuck, daemon>>
    BY <1>6 DEF NotifyUpdate, taskVars, gpuVars, daemonVars, historyVars
  <2>2. QED BY <1>1, <2>1, SkipFrame
<1>7. CASE DaemonResume
  BY <1>1, <1>7 DEF DaemonResume, SkipInv
<1>8. QED BY <1>1, <1>4, <1>5, <1>6, <1>7, StepCases, SubmitSkip

\* When the daemon resumes scheduling, the fence has passed everything a hung GPU had in
\* its ring when the reset moved the word, whatever was submitted, kicked off, released or
\* thrown away before the ring was restarted; on the engines whose fence is read from the
\* main word.
THEOREM ResetSkips == ASSUME FenceRead # "min" PROVE Spec => ResetSkipsDeadDma
<1>1. Init => SkipInv
  BY InitInv DEF Init, SkipInv, Tasks
<1>2. ASSUME SkipInv, [Next]_vars
      PROVE  daemon = "resume" /\ daemon' = "idle" =>
               \A t \in skipped : fence_id[t] <= returned_fence_id'
  <2> SUFFICES ASSUME daemon = "resume", daemon' = "idle", NEW t \in skipped
               PROVE  fence_id[t] <= returned_fence_id'
    OBVIOUS
  <2>1. vidschi_update_fence_id
    BY <1>2
    DEF Next, AllocateRender, WorkerStep, CanPrepare, SubmitRender, FakeSubmitRender,
        AllocatePaging, PagingStep, SubmitPaging, FakeSubmitPaging, DecReference, KickOff,
        SetSubmitted, GpuStep, GpuExecute, GpuWriteBe, GpuWriteFe, ReleaseCompleted, GpuHang,
        FenceInterrupt, TimeoutNotify, NotifyUpdate, DaemonStep, DaemonFindHang,
        DaemonDropReference, DaemonDisable, DaemonFakeTimeout, DaemonMoveFence, DaemonRestore,
        DaemonDropTasks, DaemonResume, daemonVars, vars
  <2>2. /\ HwFence \in Nat /\ HwFence <= last_send_fence_id /\ fence_fe \in Nat
        /\ returned_fence_id \in Nat /\ returned_fence_id <= last_send_fence_id
    BY <1>2, HwFenceBelowUnfinished
    DEF SkipInv, IndInv, TypeOK, FenceTypeOK, GpuTypeOK, FenceIdsOK
  <2>3. returned_fence_id' >= HwFence /\ returned_fence_id' \in Nat
    BY <2>1, <2>2 DEF vidschi_update_fence_id, AcceptFence
  <2>4. HwFence >= fence_be /\ fence_be \in Nat
    BY <1>2, <2>2, EngineAssumption, SkipTypes DEF HwFence
  <2>5. fence_id[t] <= fence_be /\ fence_id[t] \in Nat
    BY <1>2, SkipTypes DEF SkipInv
  <2>6. QED BY <2>2, <2>3, <2>4, <2>5
<1>3. QED BY <1>1, <1>2, NextSkip, PTL DEF Spec, ResetSkipsDeadDma
=============================================================================
