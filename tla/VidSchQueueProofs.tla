------------------------- MODULE VidSchQueueProofs -------------------------
(***************************************************************************)
(* The pending queue for any number of tasks, threads and contexts, any    *)
(* mix of task kinds and any queue sizes.                                  *)
(***************************************************************************)
EXTENDS VidSchQueue, FiniteSetTheorems, TLAPS

-----------------------------------------------------------------------------
(* The queue implements TaskOrder.                                         *)

LEMMA CtxType == \A t \in Tasks : Ctx(t) \in Contexts
  BY QueueAssumption DEF Ctx

\* No task has been accepted yet.
LEMMA InitFifo == Init => FifoInv
  BY QueueAssumption, CtxType
  DEF Init, FifoInv, FifoTypeOK, OrderTypeOK, FifoIds, FifoPools, Pooled

\* A pool that is left alone holds what it held.
LEMMA PoolKept ==
  ASSUME NEW p \in Seq(Tasks), Pooled(p),
         \A u \in Tasks : st[u] \in {"queued", "done"} => st'[u] \in {"queued", "done"}
  PROVE  \A i \in 1 .. Len(p) : st'[p[i]] \in {"queued", "done"}
  BY DEF Pooled

\* A step that moves tasks on without accepting or finishing one.
LEMMA IdsMove ==
  ASSUME FifoTypeOK, FifoIds, UNCHANGED ctxVars,
         \A u \in Tasks : /\ st'[u] = "new" <=> st[u] = "new"
                          /\ st'[u] = "done" <=> st[u] = "done"
  PROVE  FifoIds'
  BY DEF FifoIds, ctxVars, Ctx

\* The next task of a context goes through.
LEMMA IdsFinish ==
  ASSUME FifoTypeOK, FifoIds, NEW t \in Tasks, CanSubmit(t), Finish(t),
         UNCHANGED <<ctx_task_id, context_task_id>>
  PROVE  /\ FifoIds'
         /\ st[t] \notin {"new", "done"}
         /\ \A u \in Tasks : u # t /\ CanSubmit(u) => CanSubmit(u)'
<1>1. /\ context_task_id[t] = last_submit_to_sw[Ctx(t)] + 1
      /\ last_submit_to_sw' = [last_submit_to_sw EXCEPT ![Ctx(t)] = context_task_id[t]]
      /\ st' = [st EXCEPT ![t] = "done"]
  BY DEF CanSubmit, Finish
<1>2. st[t] \notin {"new", "done"}
  BY <1>1, CtxType DEF FifoIds, FifoTypeOK, OrderTypeOK
<1>3. \A c \in Contexts : last_submit_to_sw'[c] <= ctx_task_id'[c]
  BY <1>1, CtxType DEF FifoIds, FifoTypeOK, OrderTypeOK
<1>4. ASSUME NEW u \in Tasks
      PROVE  /\ st'[u] = "new" <=> context_task_id'[u] = 0
             /\ st'[u] = "done" <=>
                  /\ context_task_id'[u] # 0
                  /\ context_task_id'[u] <= last_submit_to_sw'[Ctx(u)]
             /\ context_task_id'[u] <= ctx_task_id'[Ctx(u)]
  <2>1. CASE u = t
    BY <1>1, <1>2, <2>1, CtxType DEF FifoIds, FifoTypeOK, OrderTypeOK
  <2>2. CASE u # t /\ Ctx(u) # Ctx(t)
    BY <1>1, <2>2, CtxType DEF FifoIds, FifoTypeOK, OrderTypeOK
  <2>3. CASE u # t /\ Ctx(u) = Ctx(t)
    <3>1. context_task_id[u] # context_task_id[t]
      BY <1>1, <2>3, CtxType DEF FifoIds, FifoTypeOK, OrderTypeOK
    <3>2. QED
      BY <1>1, <2>3, <3>1, CtxType DEF FifoIds, FifoTypeOK, OrderTypeOK
  <2>4. QED BY <2>1, <2>2, <2>3
<1>5. \A u, v \in Tasks :
        u # v /\ Ctx(u) = Ctx(v) /\ context_task_id'[u] # 0 =>
          context_task_id'[u] # context_task_id'[v]
  BY DEF FifoIds
<1>6. ASSUME NEW u \in Tasks, u # t, CanSubmit(u)
      PROVE  context_task_id'[u] = last_submit_to_sw'[Ctx(u)] + 1
  <2>1. Ctx(u) # Ctx(t)
    BY <1>1, <1>6, CtxType DEF FifoIds, CanSubmit, FifoTypeOK, OrderTypeOK
  <2>2. QED
    BY <1>1, <1>6, <2>1, CtxType DEF CanSubmit, FifoTypeOK, OrderTypeOK
<1>7. QED
  BY <1>2, <1>3, <1>4, <1>5, <1>6 DEF FifoIds, CanSubmit, Ctx

\* A new id is above all others of its context.
LEMMA CreateFifo == ASSUME FifoInv, NEW t \in Tasks, Create(t) PROVE FifoInv'
<1> USE DEF FifoInv
<1> DEFINE c == Ctx(t)
<1>1. /\ st[t] = "new" /\ c \in Contexts
      /\ ctx_task_id' = [ctx_task_id EXCEPT ![c] = ctx_task_id[c] + 1]
      /\ context_task_id' = [context_task_id EXCEPT ![t] = ctx_task_id[c] + 1]
      /\ \E s \in {"client", "try", "enter"} : st' = [st EXCEPT ![t] = s]
      /\ UNCHANGED <<last_submit_to_sw, global_task_id, task_id, pool, schedule_pool,
                     unready_pool, worker, cur>>
  BY CtxType DEF Create, NewContextTaskId, idVars, poolVars, workerVars
<1>2. FifoTypeOK'
  BY <1>1 DEF FifoTypeOK, OrderTypeOK
<1>3. \A d \in Contexts : last_submit_to_sw'[d] <= ctx_task_id'[d]
  BY <1>1 DEF FifoIds, FifoTypeOK, OrderTypeOK
<1>4. ASSUME NEW u \in Tasks
      PROVE  /\ st'[u] = "new" <=> context_task_id'[u] = 0
             /\ st'[u] = "done" <=>
                  /\ context_task_id'[u] # 0
                  /\ context_task_id'[u] <= last_submit_to_sw'[Ctx(u)]
             /\ context_task_id'[u] <= ctx_task_id'[Ctx(u)]
  BY <1>1, CtxType DEF FifoIds, FifoTypeOK, OrderTypeOK
<1>5. ASSUME NEW u \in Tasks, NEW v \in Tasks, u # v, Ctx(u) = Ctx(v),
             context_task_id'[u] # 0
      PROVE  context_task_id'[u] # context_task_id'[v]
  BY <1>1, <1>5, CtxType DEF FifoIds, FifoTypeOK, OrderTypeOK
<1>6. FifoIds'
  BY <1>3, <1>4, <1>5 DEF FifoIds, Ctx
<1>7. \A u \in Tasks : st[u] \in {"queued", "done"} => st'[u] \in {"queued", "done"}
  BY <1>1 DEF FifoTypeOK, OrderTypeOK
<1>8. FifoPools'
  <2>1. Pooled(pool)' /\ Pooled(schedule_pool)' /\ Pooled(unready_pool)'
    BY <1>1, <1>7, PoolKept DEF FifoPools, FifoTypeOK, Pooled
  <2>2. ASSUME worker' = "submit"
        PROVE  cur' \in Tasks /\ st'[cur'] = "queued" /\ CanSubmit(cur)'
    BY <1>1, <2>2 DEF FifoPools, CanSubmit, FifoTypeOK, OrderTypeOK, Ctx
  <2>3. QED BY <2>1, <2>2 DEF FifoPools
<1>9. QED BY <1>2, <1>6, <1>8

\* A task moves on into the pool.
LEMMA MoveFifo ==
  ASSUME FifoInv, NEW t \in Tasks, OrderTypeOK', UNCHANGED ctxVars,
         UNCHANGED <<schedule_pool, unready_pool, worker, cur>>,
         st[t] \in {"try", "enter", "slot", "numbered"},
         \E s \in {"enter", "slot", "numbered", "queued"} : st' = [st EXCEPT ![t] = s],
         \/ UNCHANGED pool
         \/ pool' = Append(pool, t) /\ st' = [st EXCEPT ![t] = "queued"]
  PROVE  FifoInv'
<1> USE DEF FifoInv
<1>1. FifoTypeOK'
  <2>1. Append(pool, t) \in Seq(Tasks) /\ pool \in Seq(Tasks)
    BY DEF FifoTypeOK
  <2>2. pool' \in Seq(Tasks)
    BY <2>1
  <2>3. /\ last_submit_to_sw' \in [Contexts -> Nat]
        /\ schedule_pool' \in Seq(Tasks) /\ unready_pool' \in Seq(Tasks)
    BY DEF FifoTypeOK, ctxVars
  <2>4. QED BY <2>2, <2>3 DEF FifoTypeOK
<1>2. FifoIds'
  BY IdsMove DEF FifoTypeOK, OrderTypeOK
<1>3. \A u \in Tasks : st[u] \in {"queued", "done"} => st'[u] \in {"queued", "done"}
  BY DEF FifoTypeOK, OrderTypeOK
<1>4. Pooled(schedule_pool)' /\ Pooled(unready_pool)'
  BY <1>3, PoolKept DEF FifoPools, FifoTypeOK, Pooled
<1>5. Pooled(pool)'
  <2>1. CASE UNCHANGED pool
    BY <1>3, <2>1, PoolKept DEF FifoPools, FifoTypeOK, Pooled
  <2>2. CASE pool' = Append(pool, t) /\ st' = [st EXCEPT ![t] = "queued"]
    BY <1>3, <2>2, PoolKept DEF FifoPools, FifoTypeOK, OrderTypeOK, Pooled
  <2>3. QED BY <2>1, <2>2
<1>6. ASSUME worker' = "submit"
      PROVE  cur' \in Tasks /\ st'[cur'] = "queued" /\ CanSubmit(cur)'
  BY <1>6 DEF FifoPools, CanSubmit, FifoTypeOK, OrderTypeOK, Ctx, ctxVars
<1>7. QED BY <1>1, <1>2, <1>4, <1>5, <1>6 DEF FifoPools

\* The worker moves tasks between its pools, or nothing of this changes.
LEMMA PoolsFifo ==
  ASSUME FifoInv, UNCHANGED <<st, ctxVars, global_task_id, task_id>>,
         pool' \in Seq(Tasks), schedule_pool' \in Seq(Tasks),
         unready_pool' \in Seq(Tasks), FifoPools'
  PROVE  FifoInv'
<1>1. FifoTypeOK'
  BY DEF FifoInv, FifoTypeOK, OrderTypeOK, ctxVars
<1>2. FifoIds'
  BY DEF FifoInv, FifoIds, ctxVars, Ctx
<1>3. QED BY <1>1, <1>2 DEF FifoInv

LEMMA IdleFifo ==
  ASSUME FifoInv, UNCHANGED <<st, ctxVars, global_task_id, task_id>>,
         UNCHANGED <<pool, schedule_pool, unready_pool, worker, cur>>
  PROVE  FifoInv'
<1>1. FifoPools'
  BY DEF FifoInv, FifoPools, Pooled, CanSubmit, Ctx, ctxVars
<1>2. QED BY <1>1, PoolsFifo DEF FifoInv, FifoTypeOK

\* The next task of a context goes through on its thread or on the worker.
LEMMA FinishFifo ==
  ASSUME FifoInv, NEW t \in Tasks, CanSubmit(t), Finish(t),
         UNCHANGED <<ctx_task_id, context_task_id, global_task_id, task_id>>,
         UNCHANGED <<pool, unready_pool>>,
         schedule_pool' \in Seq(Tasks), Pooled(schedule_pool'),
         worker' = "submit" => worker = "submit" /\ cur' = cur /\ st[t] # "queued"
  PROVE  FifoInv'
<1> USE DEF FifoInv
<1>1. /\ FifoIds'
      /\ \A u \in Tasks : u # t /\ CanSubmit(u) => CanSubmit(u)'
      /\ st' = [st EXCEPT ![t] = "done"]
  BY IdsFinish DEF Finish
<1>2. last_submit_to_sw' \in [Contexts -> Nat]
  BY DEF Finish, FifoTypeOK, OrderTypeOK
<1>3. FifoTypeOK'
  BY <1>1, <1>2 DEF FifoTypeOK, OrderTypeOK
<1>4. \A u \in Tasks : st[u] \in {"queued", "done"} => st'[u] \in {"queued", "done"}
  BY <1>1 DEF FifoTypeOK, OrderTypeOK
<1>5. Pooled(pool)' /\ Pooled(unready_pool)'
  BY <1>4, PoolKept DEF FifoPools, FifoTypeOK, Pooled
<1>6. Pooled(schedule_pool)'
  <2>1. \A i \in 1 .. Len(schedule_pool') : st'[schedule_pool'[i]] \in {"queued", "done"}
    BY <1>4, PoolKept
  <2>2. QED BY <2>1 DEF Pooled
<1>7. ASSUME worker' = "submit"
      PROVE  cur' \in Tasks /\ st'[cur'] = "queued" /\ CanSubmit(cur)'
  <2>1. cur \in Tasks /\ st[cur] = "queued" /\ CanSubmit(cur) /\ cur # t /\ cur' = cur
    BY <1>7 DEF FifoPools
  <2>2. CanSubmit(cur)'
    BY <1>1, <2>1 DEF CanSubmit, Ctx
  <2>3. QED BY <1>1, <2>1, <2>2 DEF FifoTypeOK, OrderTypeOK
<1>8. QED BY <1>1, <1>3, <1>5, <1>6, <1>7 DEF FifoPools

\* What the worker may do with a task it takes from schedule_pool.
LEMMA FetchFifo ==
  ASSUME FifoInv, NEW t \in Tasks, Fetch(t)
  PROVE  /\ st[t] \in {"queued", "done"}
         /\ schedule_pool' \in Seq(Tasks) /\ Pooled(schedule_pool')
         /\ CanSubmit(t) => st[t] = "queued"
<1> USE DEF FifoInv
<1>1. schedule_pool \in Seq(Tasks) /\ schedule_pool # <<>> /\ t = schedule_pool[1]
  BY DEF Fetch, FifoTypeOK
<1>2. st[t] \in {"queued", "done"}
  BY <1>1 DEF FifoPools, Pooled
<1>3. schedule_pool' \in Seq(Tasks) /\ Pooled(schedule_pool')
  BY <1>1 DEF Fetch, FifoPools, Pooled
<1>4. CanSubmit(t) => st[t] # "done"
  BY CtxType DEF CanSubmit, FifoIds, FifoTypeOK, OrderTypeOK
<1>5. QED BY <1>2, <1>3, <1>4

\* Every step of a client thread keeps the invariant.
LEMMA ThreadFifo == ASSUME FifoInv, NEW t \in Tasks, ThreadStep(t) PROVE FifoInv'
<1> USE DEF FifoInv
<1>1. CASE ClientWait(t)
  BY <1>1, FinishFifo
  DEF ClientWait, idVars, poolVars, workerVars, FifoPools, FifoTypeOK, Pooled
<1>2. CASE TrySignal(t)
  <2>1. CASE CanSubmit(t)
    BY <1>2, <2>1, FinishFifo
    DEF TrySignal, idVars, poolVars, workerVars, FifoPools, FifoTypeOK, Pooled
  <2>2. CASE ~CanSubmit(t)
    <3>1. /\ st[t] = "try" /\ st' = [st EXCEPT ![t] = "enter"]
          /\ UNCHANGED <<ctxVars, global_task_id, task_id, pool, schedule_pool,
                         unready_pool, worker, cur>>
      BY <1>2, <2>2 DEF TrySignal, ctxVars, idVars, poolVars, workerVars
    <3>2. OrderTypeOK'
      BY <3>1 DEF FifoTypeOK, OrderTypeOK, ctxVars
    <3>3. QED BY <3>1, <3>2, MoveFifo
  <2>3. QED BY <2>1, <2>2
<1>3. CASE SignalNotify(t)
  BY <1>3, IdleFifo DEF SignalNotify, idVars, poolVars, workerVars
<1>4. CASE DownSema(t)
  <2>1. /\ st[t] = "enter" /\ st' = [st EXCEPT ![t] = "slot"]
        /\ UNCHANGED <<ctxVars, global_task_id, task_id, pool, schedule_pool,
                       unready_pool, worker, cur>>
    BY <1>4 DEF DownSema, idVars, workerVars
  <2>2. OrderTypeOK'
    BY <2>1 DEF FifoTypeOK, OrderTypeOK, ctxVars
  <2>3. QED BY <2>1, <2>2, MoveFifo
<1>5. CASE Number(t)
  <2>1. /\ st[t] = "slot" /\ st' = [st EXCEPT ![t] = "numbered"]
        /\ UNCHANGED <<ctxVars, pool, schedule_pool, unready_pool, worker, cur>>
        /\ \/ /\ task_id' = task_id + 1
              /\ global_task_id' = [global_task_id EXCEPT ![t] = task_id + 1]
           \/ UNCHANGED <<task_id, global_task_id>>
    BY <1>5 DEF Number, workerVars
  <2>2. task_id' \in Nat /\ global_task_id' \in [Tasks -> Nat]
    <3>1. task_id \in Nat /\ global_task_id \in [Tasks -> Nat]
      BY DEF FifoTypeOK, OrderTypeOK
    <3>2. CASE UNCHANGED <<task_id, global_task_id>>
      BY <3>1, <3>2
    <3>3. CASE /\ task_id' = task_id + 1
               /\ global_task_id' = [global_task_id EXCEPT ![t] = task_id + 1]
      BY <3>1, <3>3
    <3>4. QED BY <2>1, <3>2, <3>3
  <2>3. OrderTypeOK'
    BY <2>1, <2>2 DEF FifoTypeOK, OrderTypeOK, ctxVars
  <2>4. QED BY <2>1, <2>3, MoveFifo
<1>6. CASE AddToPool(t)
  <2>1. /\ st[t] = "numbered" /\ st' = [st EXCEPT ![t] = "queued"]
        /\ pool' = Append(pool, t)
        /\ UNCHANGED <<ctxVars, global_task_id, task_id, schedule_pool,
                       unready_pool, worker, cur>>
    BY <1>6 DEF AddToPool, idVars, workerVars
  <2>2. OrderTypeOK'
    BY <2>1 DEF FifoTypeOK, OrderTypeOK, ctxVars
  <2>3. QED BY <2>1, <2>2, MoveFifo
<1>7. QED BY <1>1, <1>2, <1>3, <1>4, <1>5, <1>6 DEF ThreadStep

\* Every step of the worker keeps the invariant.
LEMMA WorkerFifo == ASSUME FifoInv, WorkerStep PROVE FifoInv'
<1> USE DEF FifoInv
<1>1. CASE WorkerWake
  <2>1. /\ pool' \in Seq(Tasks) /\ schedule_pool' \in Seq(Tasks)
        /\ unready_pool' = unready_pool /\ worker' # "submit"
        /\ UNCHANGED <<st, ctxVars, global_task_id, task_id>>
    <3>1. <<>> \in Seq(Tasks)
      OBVIOUS
    <3>2. QED BY <1>1, <3>1 DEF WorkerWake, idVars, FifoTypeOK
  <2>2. Pooled(pool)' /\ Pooled(schedule_pool)' /\ Pooled(unready_pool)'
    BY <1>1, <2>1 DEF WorkerWake, FifoPools, Pooled
  <2>3. QED BY <2>1, <2>2, PoolsFifo DEF FifoPools, FifoTypeOK
<1>2. CASE WorkerSubmit
  <2>1. /\ cur \in Tasks /\ CanSubmit(cur) /\ Finish(cur) /\ worker' = "scan"
        /\ UNCHANGED <<ctx_task_id, context_task_id, global_task_id, task_id,
                       pool, schedule_pool, unready_pool>>
    BY <1>2 DEF WorkerSubmit, Submitted, FifoPools
  <2>2. QED BY <2>1, FinishFifo DEF FifoPools, FifoTypeOK, Pooled
<1>3. CASE WorkerEnd
  <2>1. /\ pool' = unready_pool \o pool /\ unready_pool' = <<>>
        /\ worker' = "asleep"
        /\ UNCHANGED <<st, ctxVars, global_task_id, task_id, schedule_pool>>
    BY <1>3 DEF WorkerEnd, SplicePool, idVars
  <2>2. pool' \in Seq(Tasks) /\ unready_pool' \in Seq(Tasks)
    BY <2>1 DEF FifoTypeOK
  <2>3. Pooled(pool)'
    <3> SUFFICES ASSUME NEW i \in 1 .. Len(unready_pool \o pool)
                 PROVE  st[(unready_pool \o pool)[i]] \in {"queued", "done"}
      BY <2>1 DEF Pooled
    <3>1. CASE i <= Len(unready_pool)
      BY <3>1 DEF FifoTypeOK, FifoPools, Pooled
    <3>2. CASE i > Len(unready_pool)
      <4>1. /\ i - Len(unready_pool) \in 1 .. Len(pool)
            /\ (unready_pool \o pool)[i] = pool[i - Len(unready_pool)]
        BY <3>2 DEF FifoTypeOK
      <4>2. QED BY <4>1 DEF FifoPools, Pooled
    <3>3. QED BY <3>1, <3>2 DEF FifoTypeOK
  <2>4. Pooled(schedule_pool)' /\ Pooled(unready_pool)'
    BY <2>1 DEF FifoPools, Pooled
  <2>5. QED BY <2>1, <2>2, <2>3, <2>4, PoolsFifo DEF FifoPools, FifoTypeOK
<1>4. ASSUME NEW t \in Tasks, WorkerSkip(t) PROVE FifoInv'
  <2>1. /\ Fetch(t) /\ worker' # "submit" /\ unready_pool' = Append(unready_pool, t)
        /\ UNCHANGED <<st, ctxVars, global_task_id, task_id, pool>>
    BY <1>4 DEF WorkerSkip, Fetch, idVars, poolVars
  <2>2. /\ unready_pool' \in Seq(Tasks) /\ pool' \in Seq(Tasks)
        /\ schedule_pool' \in Seq(Tasks)
    BY <2>1, FetchFifo DEF FifoTypeOK
  <2>3. Pooled(pool)' /\ Pooled(schedule_pool)'
    BY <2>1, FetchFifo DEF FifoPools, Pooled
  <2>4. Pooled(unready_pool)'
    BY <2>1, FetchFifo DEF FifoPools, FifoTypeOK, Pooled
  <2>5. QED BY <2>1, <2>2, <2>3, <2>4, PoolsFifo DEF FifoPools
<1>5. ASSUME NEW t \in Tasks, WorkerSync(t) PROVE FifoInv'
  <2>1. /\ Fetch(t) /\ CanSubmit(t) /\ Finish(t) /\ worker' # "submit"
        /\ UNCHANGED <<ctx_task_id, context_task_id, global_task_id, task_id,
                       pool, unready_pool>>
    BY <1>5 DEF WorkerSync, Fetch, Ready, Submitted
  <2>2. QED BY <2>1, FetchFifo, FinishFifo
<1>6. ASSUME NEW t \in Tasks, WorkerPrepare(t) PROVE FifoInv'
  <2>1. /\ Fetch(t) /\ CanSubmit(t) /\ cur' = t
        /\ UNCHANGED <<st, ctxVars, global_task_id, task_id, pool, unready_pool>>
    BY <1>6 DEF WorkerPrepare, Ready, idVars, poolVars
  <2>2. /\ unready_pool' \in Seq(Tasks) /\ pool' \in Seq(Tasks)
        /\ schedule_pool' \in Seq(Tasks)
    BY <2>1, FetchFifo DEF FifoTypeOK
  <2>3. Pooled(pool)' /\ Pooled(schedule_pool)' /\ Pooled(unready_pool)'
    BY <2>1, FetchFifo DEF FifoPools, Pooled
  <2>4. cur' \in Tasks /\ st'[cur'] = "queued" /\ CanSubmit(cur)'
    BY <2>1, FetchFifo DEF CanSubmit, Ctx, ctxVars
  <2>5. QED BY <2>1, <2>2, <2>3, <2>4, PoolsFifo DEF FifoPools
<1>7. QED BY <1>1, <1>2, <1>3, <1>4, <1>5, <1>6 DEF WorkerStep

LEMMA NextFifo == FifoInv /\ [Next]_vars => FifoInv'
<1> SUFFICES ASSUME FifoInv, [Next]_vars PROVE FifoInv'
  OBVIOUS
<1>1. ASSUME NEW t \in Tasks, GpuSignal(t) PROVE FifoInv'
  BY <1>1, IdleFifo DEF GpuSignal, idVars, poolVars, workerVars
<1>2. CASE GpuRetire \/ FenceInterrupt
  BY <1>2, IdleFifo DEF GpuRetire, FenceInterrupt, idVars, poolVars, workerVars
<1>3. CASE WaitWorkerIdle \/ WaitFenceBack
  BY <1>3, IdleFifo DEF WaitWorkerIdle, WaitFenceBack, idVars, poolVars, workerVars
<1>4. CASE UNCHANGED vars
  BY <1>4, IdleFifo DEF vars, idVars, poolVars, workerVars
<1>5. QED
  BY <1>1, <1>2, <1>3, <1>4, CreateFifo, ThreadFifo, WorkerFifo DEF Next

\* A task that goes through is accepted, has not gone through yet, and every
\* task it follows has.
LEMMA SubmitSim ==
  ASSUME FifoInv, NEW t \in Tasks, CanSubmit(t), Finish(t),
         UNCHANGED <<ctx_task_id, context_task_id>>
  PROVE  Order!Next
<1> USE DEF FifoInv
<1>1. st[t] \notin {"new", "done"} /\ st' = [st EXCEPT ![t] = "done"]
  BY IdsFinish DEF Finish
<1>2. Accepted' = Accepted
  BY <1>1 DEF Accepted, FifoTypeOK, OrderTypeOK
<1>3. Before' = Before
  BY <1>2 DEF Before, Ctx
<1>4. Through' = Through \cup {t}
  BY <1>1 DEF Through, FifoTypeOK, OrderTypeOK
<1>5. t \in Accepted \ Through
  BY <1>1 DEF Accepted, Through
<1>6. Before[t] \subseteq Through
  <2> SUFFICES ASSUME NEW u \in Tasks, st[u] # "new", Ctx(u) = Ctx(t),
                      context_task_id[u] < context_task_id[t]
               PROVE  st[u] = "done"
    BY DEF Before, Accepted, Through
  <2>1. context_task_id[u] # 0 /\ context_task_id[u] <= last_submit_to_sw[Ctx(u)]
    BY CtxType DEF CanSubmit, FifoIds, FifoTypeOK, OrderTypeOK
  <2>2. QED BY <2>1 DEF FifoIds
<1>7. Order!Submit(t)
  BY <1>2, <1>3, <1>4, <1>5, <1>6 DEF Order!Submit
<1>8. QED BY <1>7 DEF Order!Next

\* A new task follows exactly the tasks its context has accepted so far.
LEMMA AcceptSim ==
  ASSUME FifoInv, NEW t \in Tasks, Create(t) PROVE Order!Next
<1> USE DEF FifoInv
<1>1. /\ st[t] = "new" /\ Ctx(t) \in Contexts
      /\ context_task_id' = [context_task_id EXCEPT ![t] = ctx_task_id[Ctx(t)] + 1]
      /\ \E s \in {"client", "try", "enter"} : st' = [st EXCEPT ![t] = s]
  BY CtxType DEF Create, NewContextTaskId
<1>2. t \notin Accepted /\ Accepted' = Accepted \cup {t} /\ Through' = Through
  BY <1>1 DEF Accepted, Through, FifoTypeOK, OrderTypeOK
<1>3. ASSUME NEW u \in Tasks
      PROVE  {v \in Accepted' : /\ Ctx(v) = Ctx(u)
                                /\ context_task_id'[v] < context_task_id'[u]}
               = IF u = t THEN {v \in Accepted : Ctx(v) = Ctx(t)} ELSE Before[u]
  <2>1. \A v \in Tasks : /\ context_task_id[v] \in Nat
                         /\ context_task_id[v] <= ctx_task_id[Ctx(v)]
                         /\ ctx_task_id[Ctx(v)] \in Nat
    BY CtxType DEF FifoIds, FifoTypeOK, OrderTypeOK
  <2>2. /\ \A v \in Tasks : v # t => context_task_id'[v] = context_task_id[v]
        /\ context_task_id'[t] = ctx_task_id[Ctx(t)] + 1
    BY <1>1 DEF FifoTypeOK, OrderTypeOK
  <2>3. Accepted \subseteq Tasks
    BY DEF Accepted
  <2>4. CASE u = t
    BY <1>2, <2>1, <2>2, <2>3, <2>4
  <2>5. CASE u # t
    BY <1>2, <2>1, <2>2, <2>3, <2>5 DEF Before
  <2>6. QED BY <2>4, <2>5
<1>4. Before' = [Before EXCEPT ![t] = {v \in Accepted : Ctx(v) = Ctx(t)}]
  BY <1>3 DEF Before, Ctx
<1>5. Order!Accept(t)
  BY <1>2, <1>4 DEF Order!Accept
<1>6. QED BY <1>5 DEF Order!Next

\* Nothing else is visible to the clients.
LEMMA StutterSim ==
  ASSUME UNCHANGED context_task_id, FifoInv,
         \A u \in Tasks : /\ st'[u] = "new" <=> st[u] = "new"
                          /\ st'[u] = "done" <=> st[u] = "done"
  PROVE  UNCHANGED Order!vars
<1>1. Accepted' = Accepted /\ Through' = Through
  BY DEF Accepted, Through
<1>2. Before' = Before
  BY <1>1 DEF Before, Ctx
<1>3. QED BY <1>1, <1>2 DEF Order!vars

\* Every step of the queue is a step of TaskOrder or invisible.
LEMMA NextSim == FifoInv /\ [Next]_vars => [Order!Next]_(Order!vars)
<1> SUFFICES ASSUME FifoInv, [Next]_vars PROVE Order!Next \/ UNCHANGED Order!vars
  OBVIOUS
<1> USE DEF FifoInv
<1>1. ASSUME NEW t \in Tasks, ThreadStep(t) PROVE Order!Next \/ UNCHANGED Order!vars
  <2>1. CASE ClientWait(t)
    BY <2>1, SubmitSim DEF ClientWait
  <2>2. CASE TrySignal(t)
    <3>1. CASE CanSubmit(t)
      BY <2>2, <3>1, SubmitSim DEF TrySignal
    <3>2. CASE ~CanSubmit(t)
      BY <2>2, <3>2, StutterSim DEF TrySignal, FifoTypeOK, OrderTypeOK
    <3>3. QED BY <3>1, <3>2
  <2>3. CASE SignalNotify(t)
    BY <2>3, StutterSim DEF SignalNotify, ctxVars
  <2>4. CASE DownSema(t)
    BY <2>4, StutterSim DEF DownSema, ctxVars, FifoTypeOK, OrderTypeOK
  <2>5. CASE Number(t)
    BY <2>5, StutterSim DEF Number, ctxVars, FifoTypeOK, OrderTypeOK
  <2>6. CASE AddToPool(t)
    BY <2>6, StutterSim DEF AddToPool, ctxVars, FifoTypeOK, OrderTypeOK
  <2>7. QED BY <1>1, <2>1, <2>2, <2>3, <2>4, <2>5, <2>6 DEF ThreadStep
<1>2. ASSUME WorkerStep PROVE Order!Next \/ UNCHANGED Order!vars
  <2>1. CASE WorkerWake \/ WorkerEnd
    BY <2>1, StutterSim DEF WorkerWake, WorkerEnd, ctxVars
  <2>2. CASE WorkerSubmit
    BY <2>2, SubmitSim DEF WorkerSubmit, Submitted, FifoPools
  <2>3. ASSUME NEW t \in Tasks, WorkerSkip(t) \/ WorkerPrepare(t)
        PROVE  UNCHANGED Order!vars
    BY <2>3, StutterSim DEF WorkerSkip, WorkerPrepare, ctxVars
  <2>4. ASSUME NEW t \in Tasks, WorkerSync(t) PROVE Order!Next
    BY <2>4, SubmitSim DEF WorkerSync, Ready, Submitted
  <2>5. QED BY <1>2, <2>1, <2>2, <2>3, <2>4 DEF WorkerStep
<1>3. ASSUME NEW t \in Tasks, GpuSignal(t) PROVE UNCHANGED Order!vars
  BY <1>3, StutterSim DEF GpuSignal, ctxVars
<1>4. CASE GpuRetire \/ FenceInterrupt \/ WaitWorkerIdle \/ WaitFenceBack
  BY <1>4, StutterSim
  DEF GpuRetire, FenceInterrupt, WaitWorkerIdle, WaitFenceBack, ctxVars
<1>5. CASE UNCHANGED vars
  BY <1>5, StutterSim DEF vars, ctxVars
<1>6. QED
  BY <1>1, <1>2, <1>3, <1>4, <1>5, AcceptSim DEF Next

\* For any tasks, threads, contexts and queue sizes the pools, ids and threads
\* of the pending queue let the tasks of a context through once each and in the
\* order in which the context accepted them.
THEOREM QueueKeepsOrder == Spec => ImplementsOrder
<1>1. Init => Order!Init
  BY DEF Init, Order!Init, Accepted, Before, Through
<1>2. QED BY <1>1, InitFifo, NextFifo, NextSim, PTL DEF Spec, ImplementsOrder, Order!Spec

-----------------------------------------------------------------------------
(* No circular wait.  Ids are handed out without gaps, in each context and *)
(* on the engine, so the task whose turn it is on the engine is a queued   *)
(* one once no thread is on its way into the pool; if an earlier task of   *)
(* its context were still queued, that one would come later on the engine, *)
(* against the agreement of the orders.                                    *)

LEMMA InitTurn == Init => TurnOK
  BY QueueAssumption DEF Init, TurnOK, ContextIdsHeld, GlobalIds

\* A step that hands out no id and lets no task through.
LEMMA TurnFrame ==
  ASSUME TurnOK, UNCHANGED <<setup, ctx_task_id, context_task_id, idVars>>,
         \A u \in Tasks :
           /\ st'[u] \in {"numbered", "queued"} <=> st[u] \in {"numbered", "queued"}
           /\ st[u] = "done" => st'[u] = "done",
         worker' = "submit" => worker = "submit" /\ cur' = cur
  PROVE  TurnOK'
<1>1. ContextIdsHeld'
  BY DEF TurnOK, ContextIdsHeld, Ctx
<1>2. ASSUME Serialize PROVE GlobalIds'
  <2>1. GlobalIds
    BY <1>2 DEF TurnOK
  <2>2. QED BY <2>1 DEF GlobalIds, idVars
<1>3. Serialize' = Serialize
  BY DEF Serialize
<1>4. QED BY <1>1, <1>2, <1>3 DEF TurnOK

\* A new context id is the next one.
LEMMA CreateTurn ==
  ASSUME FifoInv, TurnOK, NEW t \in Tasks, Create(t)
  PROVE  TurnOK'
<1> DEFINE c == Ctx(t)
<1>1. /\ st[t] = "new" /\ c \in Contexts /\ context_task_id[t] = 0
      /\ ctx_task_id' = [ctx_task_id EXCEPT ![c] = ctx_task_id[c] + 1]
      /\ context_task_id' = [context_task_id EXCEPT ![t] = ctx_task_id[c] + 1]
      /\ \E s \in {"client", "try", "enter"} : st' = [st EXCEPT ![t] = s]
      /\ UNCHANGED <<setup, idVars, worker, cur>>
  BY CtxType DEF Create, NewContextTaskId, workerVars, FifoInv, FifoIds
<1>2. FifoTypeOK /\ OrderTypeOK
  BY DEF FifoInv, FifoTypeOK
<1>3. ContextIdsHeld'
  <2> SUFFICES ASSUME NEW d \in Contexts, NEW k \in 1 .. ctx_task_id'[d]
               PROVE  \E u \in Tasks : Ctx(u) = d /\ context_task_id'[u] = k
    BY DEF ContextIdsHeld, Ctx
  <2>1. CASE d = c /\ k = ctx_task_id[c] + 1
    BY <1>1, <1>2, <2>1 DEF OrderTypeOK
  <2>2. CASE k \in 1 .. ctx_task_id[d]
    <3>1. PICK u \in Tasks : Ctx(u) = d /\ context_task_id[u] = k
      BY <2>2 DEF TurnOK, ContextIdsHeld
    <3>2. u # t /\ context_task_id'[u] = k
      BY <1>1, <1>2, <2>2, <3>1 DEF OrderTypeOK
    <3>3. QED BY <3>1, <3>2
  <2>3. QED BY <1>1, <1>2, <2>1, <2>2 DEF OrderTypeOK
<1>4. ASSUME Serialize PROVE GlobalIds'
  <2>1. GlobalIds
    BY <1>4 DEF TurnOK
  <2>2. \A u \in Tasks :
          /\ st'[u] \in {"numbered", "queued"} <=> st[u] \in {"numbered", "queued"}
          /\ st[u] = "done" => st'[u] = "done"
    BY <1>1, <1>2 DEF OrderTypeOK
  <2>3. QED BY <1>1, <2>1, <2>2 DEF GlobalIds, idVars
<1>5. Serialize' = Serialize
  BY <1>1 DEF Serialize
<1>6. QED BY <1>3, <1>4, <1>5 DEF TurnOK

\* A new global id is the next one.
LEMMA NumberTurn ==
  ASSUME FifoInv, TurnOK, NEW t \in Tasks, Number(t)
  PROVE  TurnOK'
<1>1. /\ st[t] = "slot" /\ st' = [st EXCEPT ![t] = "numbered"]
      /\ UNCHANGED <<setup, ctx_task_id, context_task_id, last_submit_task_id, worker, cur>>
      /\ Serialize => /\ task_id' = task_id + 1
                      /\ global_task_id' = [global_task_id EXCEPT ![t] = task_id + 1]
  BY DEF Number, ctxVars, workerVars
<1>2. OrderTypeOK
  BY DEF FifoInv, FifoTypeOK
<1>3. ContextIdsHeld'
  BY <1>1 DEF TurnOK, ContextIdsHeld, Ctx
<1>4. ASSUME Serialize PROVE GlobalIds'
  <2>1. GlobalIds
    BY <1>4 DEF TurnOK
  <2>2. /\ task_id \in Nat /\ task_id' = task_id + 1
        /\ global_task_id \in [Tasks -> Nat]
        /\ global_task_id' = [global_task_id EXCEPT ![t] = task_id + 1]
        /\ last_submit_task_id \in Nat /\ last_submit_task_id <= task_id
    BY <1>1, <1>2, <1>4, <2>1 DEF OrderTypeOK, GlobalIds
  <2>3. global_task_id[t] = 0
    BY <1>1, <1>2, <2>1, <2>2 DEF GlobalIds
  <2>4. ASSUME NEW k \in 1 .. task_id'
        PROVE  \E u \in Tasks : global_task_id'[u] = k
    <3>1. CASE k = task_id + 1
      BY <2>2, <3>1
    <3>2. CASE k \in 1 .. task_id
      <4>1. PICK u \in Tasks : global_task_id[u] = k
        BY <2>1, <3>2 DEF GlobalIds
      <4>2. u # t
        BY <2>3, <3>2, <4>1
      <4>3. QED BY <2>2, <4>1, <4>2
    <3>3. QED BY <2>2, <3>1, <3>2
  <2>5. ASSUME NEW u \in Tasks
        PROVE  /\ global_task_id'[u] <= task_id'
               /\ st'[u] \in {"numbered", "queued"} <=>
                    last_submit_task_id' < global_task_id'[u]
               /\ global_task_id'[u] # 0 => st'[u] \in {"numbered", "queued", "done"}
    BY <1>1, <1>2, <2>1, <2>2 DEF GlobalIds, OrderTypeOK
  <2>6. ASSUME NEW u \in Tasks, NEW v \in Tasks, u # v, global_task_id'[u] # 0
        PROVE  global_task_id'[u] # global_task_id'[v]
    BY <2>1, <2>2, <2>6 DEF GlobalIds
  <2>7. ASSUME worker' = "submit"
        PROVE  global_task_id'[cur'] = last_submit_task_id' + 1
    <3>1. cur \in Tasks /\ st[cur] = "queued" /\ cur # t /\ worker = "submit"
      BY <1>1, <2>7 DEF FifoInv, FifoPools
    <3>2. QED BY <1>1, <2>1, <2>2, <3>1 DEF GlobalIds
  <2>8. QED
    BY <1>1, <2>2, <2>4, <2>5, <2>6, <2>7 DEF GlobalIds
<1>5. Serialize' = Serialize
  BY <1>1 DEF Serialize
<1>6. QED BY <1>3, <1>4, <1>5 DEF TurnOK

\* The task whose turn it is goes through.
LEMMA SubmittedTurn ==
  ASSUME FifoInv, TurnOK, NEW t \in Tasks, Submitted(t), st[t] = "queued",
         Serialize => global_task_id[t] = last_submit_task_id + 1,
         UNCHANGED <<setup, ctx_task_id, context_task_id, global_task_id, task_id>>,
         worker' # "submit"
  PROVE  TurnOK'
<1>1. /\ st' = [st EXCEPT ![t] = "done"]
      /\ Serialize => last_submit_task_id' = global_task_id[t]
  BY DEF Submitted, Finish
<1>2. OrderTypeOK
  BY DEF FifoInv, FifoTypeOK
<1>3. ContextIdsHeld'
  BY DEF TurnOK, ContextIdsHeld, Ctx
<1>4. ASSUME Serialize PROVE GlobalIds'
  <2>1. GlobalIds
    BY <1>4 DEF TurnOK
  <2>2. /\ last_submit_task_id \in Nat /\ last_submit_task_id' = last_submit_task_id + 1
        /\ global_task_id \in [Tasks -> Nat] /\ task_id \in Nat
        /\ global_task_id[t] = last_submit_task_id + 1 /\ global_task_id[t] <= task_id
    BY <1>1, <1>2, <1>4, <2>1 DEF GlobalIds, OrderTypeOK
  <2>3. ASSUME NEW u \in Tasks
        PROVE  /\ st'[u] \in {"numbered", "queued"} <=>
                    last_submit_task_id' < global_task_id[u]
               /\ global_task_id[u] # 0 => st'[u] \in {"numbered", "queued", "done"}
    <3>1. CASE u = t
      BY <1>1, <1>2, <2>2, <3>1 DEF OrderTypeOK
    <3>2. CASE u # t
      <4>1. global_task_id[u] # last_submit_task_id + 1
        BY <2>1, <2>2, <3>2 DEF GlobalIds
      <4>2. st'[u] = st[u]
        BY <1>1, <1>2, <3>2 DEF OrderTypeOK
      <4>3. QED BY <2>1, <2>2, <4>1, <4>2 DEF GlobalIds
    <3>3. QED BY <3>1, <3>2
  <2>4. QED BY <2>1, <2>2, <2>3 DEF GlobalIds
<1>5. Serialize' = Serialize
  BY DEF Serialize
<1>6. QED BY <1>3, <1>4, <1>5 DEF TurnOK

\* What the worker fetches when it is its turn is queued.
LEMMA FetchedQueued ==
  ASSUME FifoInv, NEW t \in Tasks, Fetch(t), Ready(t)
  PROVE  st[t] = "queued" /\ (Serialize => global_task_id[t] = last_submit_task_id + 1)
<1>1. /\ schedule_pool \in Seq(Tasks) /\ schedule_pool # <<>> /\ t = schedule_pool[1]
      /\ Pooled(schedule_pool)
  BY DEF Fetch, FifoInv, FifoTypeOK, FifoPools
<1>2. 1 \in 1 .. Len(schedule_pool)
  BY <1>1
<1>3. st[t] \in {"queued", "done"}
  BY <1>1, <1>2 DEF Pooled
<1>4. context_task_id[t] = last_submit_to_sw[Ctx(t)] + 1
  BY DEF Ready, CanSubmit
<1>5. st[t] # "done"
  BY <1>4, CtxType DEF FifoInv, FifoIds, FifoTypeOK, OrderTypeOK
<1>6. QED BY <1>3, <1>5 DEF Ready

LEMMA WorkerTurn == ASSUME FifoInv, TurnOK, WorkerStep PROVE TurnOK'
<1>1. CASE WorkerWake \/ WorkerEnd
  BY <1>1, TurnFrame DEF WorkerWake, WorkerEnd, ctxVars
<1>2. CASE WorkerSubmit
  <2>1. /\ cur \in Tasks /\ st[cur] = "queued" /\ Submitted(cur) /\ worker' # "submit"
        /\ worker = "submit"
        /\ UNCHANGED <<setup, ctx_task_id, context_task_id, global_task_id, task_id>>
    BY <1>2 DEF WorkerSubmit, FifoInv, FifoPools
  <2>2. Serialize => global_task_id[cur] = last_submit_task_id + 1
    BY <2>1 DEF TurnOK, GlobalIds
  <2>3. QED BY <2>1, <2>2, SubmittedTurn
<1>3. ASSUME NEW t \in Tasks, WorkerSkip(t) PROVE TurnOK'
  BY <1>3, TurnFrame DEF WorkerSkip, ctxVars
<1>4. ASSUME NEW t \in Tasks, WorkerSync(t) PROVE TurnOK'
  <2>1. /\ Submitted(t) /\ worker' # "submit"
        /\ UNCHANGED <<setup, ctx_task_id, context_task_id, global_task_id, task_id>>
        /\ Fetch(t) /\ Ready(t)
    BY <1>4 DEF WorkerSync, Fetch
  <2>2. QED BY <2>1, FetchedQueued, SubmittedTurn
<1>5. ASSUME NEW t \in Tasks, WorkerPrepare(t) PROVE TurnOK'
  <2>1. /\ UNCHANGED <<setup, st, ctx_task_id, context_task_id, idVars>>
        /\ cur' = t /\ Fetch(t) /\ Ready(t)
    BY <1>5 DEF WorkerPrepare, ctxVars
  <2>2. ContextIdsHeld'
    BY <2>1 DEF TurnOK, ContextIdsHeld, Ctx
  <2>3. ASSUME Serialize PROVE GlobalIds'
    BY <2>1, <2>3, FetchedQueued DEF TurnOK, GlobalIds, idVars
  <2>4. Serialize' = Serialize
    BY <2>1 DEF Serialize
  <2>5. QED BY <2>2, <2>3, <2>4 DEF TurnOK
<1>6. QED BY <1>1, <1>2, <1>3, <1>4, <1>5 DEF WorkerStep

LEMMA ThreadTurn ==
  ASSUME FifoInv, TurnOK, NEW t \in Tasks, ThreadStep(t)
  PROVE  TurnOK'
<1>1. OrderTypeOK
  BY DEF FifoInv, FifoTypeOK
<1>2. CASE ClientWait(t)
  <2>1. st[t] = "client" /\ st' = [st EXCEPT ![t] = "done"]
    BY <1>2 DEF ClientWait, Finish
  <2>2. UNCHANGED <<setup, ctx_task_id, context_task_id, idVars, worker, cur>>
    BY <1>2 DEF ClientWait, workerVars
  <2>3. QED BY <1>1, <2>1, <2>2, TurnFrame DEF OrderTypeOK
<1>3. CASE TrySignal(t)
  <2>1. st[t] = "try" /\ \E s \in {"done", "enter"} : st' = [st EXCEPT ![t] = s]
    BY <1>3 DEF TrySignal, Finish
  <2>2. UNCHANGED <<setup, ctx_task_id, context_task_id, idVars, worker, cur>>
    BY <1>3 DEF TrySignal, workerVars
  <2>3. QED BY <1>1, <2>1, <2>2, TurnFrame DEF OrderTypeOK
<1>4. CASE SignalNotify(t)
  BY <1>4, TurnFrame DEF SignalNotify, ctxVars, workerVars
<1>5. CASE DownSema(t)
  <2>1. st[t] = "enter" /\ st' = [st EXCEPT ![t] = "slot"]
    BY <1>5 DEF DownSema
  <2>2. UNCHANGED <<setup, ctx_task_id, context_task_id, idVars, worker, cur>>
    BY <1>5 DEF DownSema, ctxVars, workerVars
  <2>3. QED BY <1>1, <2>1, <2>2, TurnFrame DEF OrderTypeOK
<1>6. CASE AddToPool(t)
  <2>1. st[t] = "numbered" /\ st' = [st EXCEPT ![t] = "queued"]
    BY <1>6 DEF AddToPool
  <2>2. UNCHANGED <<setup, ctx_task_id, context_task_id, idVars, worker, cur>>
    BY <1>6 DEF AddToPool, ctxVars, workerVars
  <2>3. QED BY <1>1, <2>1, <2>2, TurnFrame DEF OrderTypeOK
<1>7. QED
  BY <1>2, <1>3, <1>4, <1>5, <1>6, NumberTurn DEF ThreadStep

LEMMA NextTurn == TurnInv /\ [Next]_vars => TurnInv'
<1> SUFFICES ASSUME FifoInv, TurnOK, [Next]_vars PROVE TurnOK'
  BY NextFifo DEF TurnInv
<1>1. ASSUME NEW t \in Tasks, GpuSignal(t) PROVE TurnOK'
  BY <1>1, TurnFrame DEF GpuSignal, ctxVars, workerVars
<1>2. CASE GpuRetire \/ FenceInterrupt
  BY <1>2, TurnFrame DEF GpuRetire, FenceInterrupt, ctxVars, workerVars
<1>3. CASE WaitWorkerIdle \/ WaitFenceBack
  BY <1>3, TurnFrame DEF WaitWorkerIdle, WaitFenceBack, ctxVars, workerVars
<1>4. CASE UNCHANGED vars
  BY <1>4, TurnFrame DEF vars, ctxVars, workerVars
<1>5. QED
  BY <1>1, <1>2, <1>3, <1>4, CreateTurn, ThreadTurn, WorkerTurn DEF Next

\* The task that is next on the engine, or next in a context of an engine that
\* is not serialized, can go.
LEMMA TurnFree == TurnInv => NoCircularWait
<1> SUFFICES ASSUME FifoInv, TurnOK, OrdersAgree, Pending # {},
                    \A th \in Threads : ThreadFree(th)
             PROVE  \E t \in Pending : Ready(t)
  BY DEF TurnInv, NoCircularWait
<1>1. FifoTypeOK /\ OrderTypeOK /\ FifoIds
  BY DEF FifoInv, FifoTypeOK
<1>2. \A t \in Tasks : st[t] \in {"new", "queued", "done"}
  BY QueueAssumption DEF ThreadFree
\* The next task of the context of a queued one is queued.
<1>3. ASSUME NEW t \in Pending
      PROVE  \E u \in Pending : Ctx(u) = Ctx(t) /\ CanSubmit(u)
  <2> DEFINE k == last_submit_to_sw[Ctx(t)] + 1
  <2>1. t \in Tasks /\ st[t] = "queued" /\ Ctx(t) \in Contexts
    BY CtxType DEF Pending
  <2>2. last_submit_to_sw[Ctx(t)] < context_task_id[t]
    <3>1. context_task_id[t] # 0 /\ ~(context_task_id[t] <= last_submit_to_sw[Ctx(t)])
      BY <1>1, <2>1 DEF FifoIds
    <3>2. context_task_id[t] \in Nat /\ last_submit_to_sw[Ctx(t)] \in Nat
      BY <1>1, <2>1 DEF FifoTypeOK, OrderTypeOK
    <3>3. QED BY <3>1, <3>2
  <2>3. k \in 1 .. ctx_task_id[Ctx(t)]
    BY <1>1, <2>1, <2>2 DEF FifoIds, FifoTypeOK, OrderTypeOK
  <2>4. PICK u \in Tasks : Ctx(u) = Ctx(t) /\ context_task_id[u] = k
    BY <2>1, <2>3 DEF TurnOK, ContextIdsHeld
  <2>5. st[u] \notin {"new", "done"}
    BY <1>1, <2>1, <2>4 DEF FifoIds, FifoTypeOK, OrderTypeOK
  <2>6. u \in Pending
    BY <1>2, <2>4, <2>5 DEF Pending
  <2>7. QED BY <2>4, <2>6 DEF CanSubmit
<1>4. CASE ~Serialize
  BY <1>3, <1>4 DEF Ready
<1>5. CASE Serialize
  <2>1. GlobalIds
    BY <1>5 DEF TurnOK
  <2>2. PICK t \in Tasks : st[t] = "queued"
    BY DEF Pending
  <2>3. last_submit_task_id < global_task_id[t] /\ global_task_id[t] <= task_id
    BY <2>1, <2>2 DEF GlobalIds
  <2>4. last_submit_task_id + 1 \in 1 .. task_id
    BY <1>1, <2>1, <2>3 DEF GlobalIds, OrderTypeOK
  <2>5. PICK u \in Tasks : global_task_id[u] = last_submit_task_id + 1
    BY <2>1, <2>4 DEF GlobalIds
  <2>6. u \in Pending
    <3>1. st[u] \in {"numbered", "queued"}
      BY <1>1, <2>1, <2>5 DEF GlobalIds, OrderTypeOK
    <3>2. QED BY <1>2, <3>1 DEF Pending
  <2>7. PICK v \in Pending : Ctx(v) = Ctx(u) /\ CanSubmit(v)
    BY <1>3, <2>6
  <2>8. ASSUME v # u PROVE FALSE
    <3>1. v \in Tasks /\ st[v] = "queued" /\ u \in Tasks /\ st[u] = "queued"
      BY <2>6 DEF Pending
    <3>2. last_submit_task_id < global_task_id[v] /\ global_task_id[v] # global_task_id[u]
      BY <1>1, <2>1, <2>5, <2>8, <3>1 DEF GlobalIds, OrderTypeOK
    <3>3. 0 < global_task_id[u] /\ global_task_id[u] < global_task_id[v]
      BY <1>1, <2>1, <2>5, <3>1, <3>2 DEF GlobalIds, OrderTypeOK
    <3>4. context_task_id[u] < context_task_id[v]
      BY <2>7, <3>1, <3>3 DEF OrdersAgree
    <3>5. context_task_id[v] = last_submit_to_sw[Ctx(u)] + 1
      BY <2>7 DEF CanSubmit
    <3>6. context_task_id[u] <= last_submit_to_sw[Ctx(u)] /\ context_task_id[u] # 0
      BY <1>1, <3>1, <3>4, <3>5, CtxType DEF FifoIds, FifoTypeOK, OrderTypeOK
    <3>7. QED BY <1>1, <3>1, <3>6 DEF FifoIds
  <2>9. QED BY <1>5, <2>5, <2>6, <2>7, <2>8 DEF Ready
<1>6. QED BY <1>4, <1>5

\* The two turns a task has to wait for, that of its context and that of the
\* engine, never block each other while they agree.
THEOREM TurnsNeverBlock == Spec => []NoCircularWait
<1>1. Init => TurnInv
  BY InitFifo, InitTurn DEF TurnInv
<1>2. QED BY <1>1, NextTurn, TurnFree, PTL DEF Spec

-----------------------------------------------------------------------------
(* The counters: no counter goes below zero, every place taken from        *)
(* normal_pool_sema is given back exactly once, and total_task_num covers  *)
(* the tasks in the pools.  The argument counts the tasks by their state:  *)
(* a step moves at most one task, so each set of tasks grows or shrinks by *)
(* at most one.  Then the pools themselves: as lists without repeats and   *)
(* apart from each other they hold the queued tasks, each once.            *)

LEMMA CardAdd ==
  ASSUME NEW A \in SUBSET Tasks, NEW x \in Tasks, x \notin A
  PROVE  Cardinality(A \cup {x}) = Cardinality(A) + 1
  BY FS_Subset, FS_AddElement, QueueAssumption

LEMMA CardDel ==
  ASSUME NEW A \in SUBSET Tasks, NEW x \in A
  PROVE  Cardinality(A \ {x}) = Cardinality(A) - 1
  BY FS_Subset, FS_RemoveElement, QueueAssumption

LEMMA CardType == \A A \in SUBSET Tasks : Cardinality(A) \in Nat
  BY FS_Subset, FS_CardinalityType, QueueAssumption

\* The sets that are counted.
LEMMA CountedSets ==
  /\ Inside \in SUBSET Tasks /\ Pending \in SUBSET Tasks /\ Numbered \in SUBSET Tasks
  /\ Cardinality(Inside) \in Nat /\ Cardinality(Pending) \in Nat
  /\ Cardinality(Numbered) \in Nat
<1>1. Inside \in SUBSET Tasks /\ Pending \in SUBSET Tasks /\ Numbered \in SUBSET Tasks
  BY DEF Inside, Pending, Numbered
<1>2. QED BY <1>1, CardType

\* No task is counted and every place is free.
LEMMA InitCount == Init => CountInv
<1> SUFFICES ASSUME Init PROVE CountInv
  OBVIOUS
<1>1. Inside = {} /\ Pending = {} /\ Numbered = {}
  BY DEF Init, Inside, Pending, Numbered
<1>2. TypeOK
  <2>1. pool \in Seq(Tasks) /\ schedule_pool \in Seq(Tasks) /\ unready_pool \in Seq(Tasks)
    BY DEF Init
  <2>2. /\ st \in [Tasks -> {"new", "client", "try", "enter", "slot", "numbered",
                           "queued", "done"}]
        /\ ctx_task_id \in [Contexts -> Nat] /\ last_submit_to_sw \in [Contexts -> Nat]
        /\ context_task_id \in [Tasks -> Nat] /\ global_task_id \in [Tasks -> Nat]
    BY DEF Init
  <2>3. sema \in Nat /\ total_task_num \in Nat /\ submited_count \in Nat
        /\ task_id \in Nat /\ last_submit_task_id \in Nat /\ busy \in Nat /\ retired \in Nat
    BY QueueAssumption DEF Init
  <2>4. event \in BOOLEAN /\ irq \in BOOLEAN
    BY DEF Init
  <2>5. QED BY <2>1, <2>2, <2>3, <2>4 DEF Init, TypeOK
<1>3. SemaAccounts
  BY <1>1, FS_EmptySet, QueueAssumption DEF Init, SemaAccounts
<1>4. CountsAdd
  BY <1>1, FS_EmptySet DEF Init, CountsAdd, InHand
<1>5. QED BY <1>2, <1>3, <1>4, InitFifo DEF Init, CountInv

\* A step that moves no task across a counted boundary and no counter.
LEMMA SameCounts ==
  ASSUME CountInv, UNCHANGED <<poolVars, workerVars>>,
         \A u \in Tasks : /\ st'[u] \in {"slot", "numbered", "queued"} <=>
                               st[u] \in {"slot", "numbered", "queued"}
                          /\ st'[u] = "queued" <=> st[u] = "queued"
                          /\ st'[u] = "numbered" <=> st[u] = "numbered"
  PROVE  SemaAccounts' /\ CountsAdd'
<1>1. Inside' = Inside /\ Pending' = Pending /\ Numbered' = Numbered
  BY DEF Inside, Pending, Numbered
<1>2. QED
  BY <1>1 DEF CountInv, SemaAccounts, CountsAdd, InHand, poolVars, workerVars

\* A queued task goes through: its place and its count go with it.
LEMMA FinishCounts ==
  ASSUME CountInv, NEW t \in Tasks, st[t] = "queued", Finish(t)
  PROVE  /\ Cardinality(Inside') = Cardinality(Inside) - 1
         /\ Cardinality(Pending') = Cardinality(Pending) - 1
         /\ Cardinality(Numbered') = Cardinality(Numbered)
<1>1. st \in [Tasks -> {"new", "client", "try", "enter", "slot", "numbered",
                        "queued", "done"}]
      /\ st' = [st EXCEPT ![t] = "done"]
  BY DEF CountInv, TypeOK, Finish
<1>2. /\ t \in Inside /\ Inside' = Inside \ {t}
      /\ t \in Pending /\ Pending' = Pending \ {t}
      /\ Numbered' = Numbered
  BY <1>1 DEF Inside, Pending, Numbered
<1>3. QED BY <1>2, CardDel, CountedSets

\* A semaphore place is taken, the task is counted, the task enters the pool.
LEMMA EnterCounts ==
  ASSUME CountInv, NEW t \in Tasks, DownSema(t) \/ Number(t) \/ AddToPool(t)
  PROVE  /\ DownSema(t) =>
              /\ Cardinality(Inside') = Cardinality(Inside) + 1
              /\ Cardinality(Pending') = Cardinality(Pending)
              /\ Cardinality(Numbered') = Cardinality(Numbered)
         /\ Number(t) =>
              /\ Cardinality(Inside') = Cardinality(Inside)
              /\ Cardinality(Pending') = Cardinality(Pending)
              /\ Cardinality(Numbered') = Cardinality(Numbered) + 1
         /\ AddToPool(t) =>
              /\ Cardinality(Inside') = Cardinality(Inside)
              /\ Cardinality(Pending') = Cardinality(Pending) + 1
              /\ Cardinality(Numbered') = Cardinality(Numbered) - 1
<1>1. st \in [Tasks -> {"new", "client", "try", "enter", "slot", "numbered",
                        "queued", "done"}]
  BY DEF CountInv, TypeOK
<1>2. ASSUME DownSema(t)
      PROVE  /\ t \notin Inside /\ Inside' = Inside \cup {t}
             /\ Pending' = Pending /\ Numbered' = Numbered
  BY <1>1, <1>2 DEF DownSema, Inside, Pending, Numbered
<1>3. ASSUME Number(t)
      PROVE  /\ t \notin Numbered /\ Numbered' = Numbered \cup {t}
             /\ Pending' = Pending /\ Inside' = Inside
  BY <1>1, <1>3 DEF Number, Inside, Pending, Numbered
<1>4. ASSUME AddToPool(t)
      PROVE  /\ t \in Numbered /\ Numbered' = Numbered \ {t}
             /\ t \notin Pending /\ Pending' = Pending \cup {t}
             /\ Inside' = Inside
  BY <1>1, <1>4 DEF AddToPool, Inside, Pending, Numbered
<1>5. QED BY <1>2, <1>3, <1>4, CardAdd, CardDel, CountedSets

LEMMA InHandType == TypeOK => InHand \in Nat
<1>1. TypeOK => Len(schedule_pool) \in Nat /\ Len(unready_pool) \in Nat
  BY DEF TypeOK
<1>2. QED BY <1>1 DEF InHand

\* WakeIfPending keeps the flag a flag.
LEMMA WakeType == ASSUME TypeOK, WakeIfPending PROVE event' \in BOOLEAN
  BY DEF TypeOK, WakeIfPending

LEMMA CreateCount ==
  ASSUME CountInv, NEW t \in Tasks, Create(t)
  PROVE  TypeOK' /\ SemaAccounts' /\ CountsAdd'
<1>1. /\ st[t] = "new"
      /\ \E s \in {"client", "try", "enter"} : st' = [st EXCEPT ![t] = s]
      /\ ctx_task_id' = [ctx_task_id EXCEPT ![Ctx(t)] = ctx_task_id[Ctx(t)] + 1]
      /\ context_task_id' = [context_task_id EXCEPT ![t] = ctx_task_id[Ctx(t)] + 1]
  BY DEF Create, NewContextTaskId
<1>2. /\ st' \in [Tasks -> {"new", "client", "try", "enter", "slot", "numbered",
                            "queued", "done"}]
      /\ ctx_task_id' \in [Contexts -> Nat] /\ context_task_id' \in [Tasks -> Nat]
  BY <1>1, CtxType DEF CountInv, TypeOK
<1>3. TypeOK'
  BY <1>2 DEF Create, CountInv, TypeOK, idVars, poolVars, workerVars, hwVars
<1>4. SemaAccounts' /\ CountsAdd'
  BY <1>1, SameCounts DEF Create, CountInv, TypeOK
<1>5. QED BY <1>3, <1>4

\* Types of what a finished task changes.
LEMMA FinishType ==
  ASSUME TypeOK, NEW t \in Tasks, Finish(t)
  PROVE  /\ st' \in [Tasks -> {"new", "client", "try", "enter", "slot", "numbered",
                               "queued", "done"}]
         /\ last_submit_to_sw' \in [Contexts -> Nat]
  BY DEF TypeOK, Finish

LEMMA ThreadCount ==
  ASSUME CountInv, NEW t \in Tasks, ThreadStep(t)
  PROVE  TypeOK' /\ SemaAccounts' /\ CountsAdd'
<1> USE DEF CountInv
<1>1. CASE ClientWait(t)
  <2>1. TypeOK'
    BY <1>1, FinishType
    DEF ClientWait, TypeOK, idVars, poolVars, workerVars, hwVars
  <2>2. SemaAccounts' /\ CountsAdd'
    BY <1>1, SameCounts DEF ClientWait, Finish, TypeOK
  <2>3. QED BY <2>1, <2>2
<1>2. CASE TrySignal(t)
  <2>1. notifying' \subseteq Tasks
    BY <1>2 DEF TrySignal, TypeOK
  <2>2. /\ st' \in [Tasks -> {"new", "client", "try", "enter", "slot", "numbered",
                              "queued", "done"}]
        /\ last_submit_to_sw' \in [Contexts -> Nat]
    BY <1>2, FinishType DEF TrySignal, TypeOK
  <2>3. TypeOK'
    BY <1>2, <2>1, <2>2 DEF TrySignal, TypeOK, idVars, poolVars, workerVars, hwVars
  <2>4. SemaAccounts' /\ CountsAdd'
    BY <1>2, SameCounts DEF TrySignal, Finish, TypeOK
  <2>5. QED BY <2>3, <2>4
<1>3. CASE SignalNotify(t)
  <2>1. event' \in BOOLEAN /\ notifying' \subseteq Tasks
    BY <1>3, WakeType DEF SignalNotify, TypeOK
  <2>2. TypeOK'
    BY <1>3, <2>1
    DEF SignalNotify, TypeOK, ctxVars, idVars, poolVars, workerVars, hwVars
  <2>3. SemaAccounts' /\ CountsAdd'
    BY <1>3, SameCounts DEF SignalNotify
  <2>4. QED BY <2>2, <2>3
<1>4. CASE DownSema(t)
  <2>1. /\ st' \in [Tasks -> {"new", "client", "try", "enter", "slot", "numbered",
                              "queued", "done"}]
        /\ sema' \in Nat /\ sema' = sema - 1
    BY <1>4 DEF DownSema, TypeOK
  <2>2. TypeOK'
    BY <1>4, <2>1 DEF DownSema, TypeOK, ctxVars, idVars, workerVars, hwVars
  <2>3. SemaAccounts'
    BY <1>4, <2>1, EnterCounts, CountedSets DEF SemaAccounts, TypeOK
  <2>4. CountsAdd'
    BY <1>4, EnterCounts DEF DownSema, CountsAdd, InHand, workerVars
  <2>5. QED BY <2>2, <2>3, <2>4
<1>5. CASE Number(t)
  <2>1. /\ st' \in [Tasks -> {"new", "client", "try", "enter", "slot", "numbered",
                              "queued", "done"}]
        /\ total_task_num' = total_task_num + 1 /\ total_task_num' \in Nat
    BY <1>5 DEF Number, CountTask, TypeOK
  <2>2. task_id' \in Nat /\ global_task_id' \in [Tasks -> Nat]
    <3>1. task_id \in Nat /\ global_task_id \in [Tasks -> Nat]
      BY DEF TypeOK
    <3>2. CASE UNCHANGED <<task_id, global_task_id>>
      BY <3>1, <3>2
    <3>3. CASE /\ task_id' = task_id + 1
               /\ global_task_id' = [global_task_id EXCEPT ![t] = task_id + 1]
      BY <3>1, <3>3
    <3>4. QED BY <1>5, <3>2, <3>3 DEF Number
  <2>3. TypeOK'
    BY <1>5, <2>1, <2>2 DEF Number, TypeOK, ctxVars, workerVars, hwVars
  <2>4. SemaAccounts'
    BY <1>5, EnterCounts DEF Number, SemaAccounts
  <2>5. CountsAdd'
    <3>1. UNCHANGED <<submited_count, pool, worker>> /\ InHand' = InHand
      BY <1>5 DEF Number, workerVars, InHand
    <3>2. Len(pool) \in Nat /\ submited_count \in Nat
      BY DEF TypeOK
    <3>3. QED BY <1>5, <2>1, <3>1, <3>2, EnterCounts, CountedSets DEF CountsAdd
  <2>6. QED BY <2>3, <2>4, <2>5
<1>6. CASE AddToPool(t)
  <2>1. /\ st' \in [Tasks -> {"new", "client", "try", "enter", "slot", "numbered",
                              "queued", "done"}]
        /\ notifying' \subseteq Tasks /\ event' \in BOOLEAN
    BY <1>6 DEF AddToPool, WakeWorker, TypeOK
  <2>2. pool' \in Seq(Tasks) /\ Len(pool') = Len(pool) + 1
    BY <1>6 DEF AddToPool, TypeOK
  <2>3. TypeOK'
    BY <1>6, <2>1, <2>2 DEF AddToPool, TypeOK, ctxVars, idVars, workerVars, hwVars
  <2>4. SemaAccounts'
    BY <1>6, EnterCounts DEF AddToPool, SemaAccounts
  <2>5. CountsAdd'
    <3>1. UNCHANGED <<total_task_num, submited_count, schedule_pool, unready_pool, worker>>
      BY <1>6 DEF AddToPool, workerVars
    <3>2. /\ Len(pool) \in Nat /\ submited_count \in Nat
          /\ InHand \in Nat /\ InHand' = InHand
      BY <3>1, InHandType DEF TypeOK, InHand
    <3>3. /\ Cardinality(Pending') = Cardinality(Pending) + 1
          /\ Cardinality(Numbered') = Cardinality(Numbered) - 1
      BY <1>6, EnterCounts
    <3>4. total_task_num' = Cardinality(Numbered') + Len(pool') + submited_count'
      BY <2>2, <3>1, <3>2, <3>3, CountedSets DEF CountsAdd
    <3>5. InHand' <= submited_count' /\ Cardinality(Pending') <= Len(pool') + InHand'
      BY <2>2, <3>1, <3>2, <3>3, CountedSets DEF CountsAdd
    <3>6. QED BY <3>1, <3>4, <3>5 DEF CountsAdd
  <2>6. QED BY <2>3, <2>4, <2>5
<1>7. QED BY <1>1, <1>2, <1>3, <1>4, <1>5, <1>6 DEF ThreadStep

LEMMA WorkerCount ==
  ASSUME CountInv, WorkerStep
  PROVE  TypeOK' /\ SemaAccounts' /\ CountsAdd'
<1> USE DEF CountInv
<1>0. /\ Len(pool) \in Nat /\ Len(schedule_pool) \in Nat /\ Len(unready_pool) \in Nat
      /\ submited_count \in Nat
  BY DEF TypeOK
<1>1. CASE WorkerWake
  <2>1. UNCHANGED <<Inside, Pending, Numbered, sema, total_task_num, unready_pool>>
    BY <1>1 DEF WorkerWake, Inside, Pending, Numbered
  <2>2. /\ worker = "asleep" /\ submited_count = 0
        /\ Len(schedule_pool) = 0 /\ Len(unready_pool) = 0
    BY <1>0, <1>1 DEF WorkerWake, CountsAdd, InHand
  <2>3. /\ worker' \in {"asleep", "scan"} /\ event' \in BOOLEAN
        /\ pool' \in Seq(Tasks) /\ schedule_pool' \in Seq(Tasks)
        /\ submited_count' \in Nat
    <3>1. <<>> \in Seq(Tasks)
      OBVIOUS
    <3>2. QED BY <1>0, <1>1, <3>1 DEF WorkerWake, TypeOK
  <2>4. TypeOK'
    BY <1>1, <2>3 DEF WorkerWake, TypeOK, ctxVars, idVars, hwVars
  <2>5. SemaAccounts'
    BY <2>1 DEF SemaAccounts
  <2>6. CountsAdd'
    <3>1. CASE pool # <<>>
      <4>1. /\ Len(pool') = 0 /\ Len(schedule_pool') = Len(pool)
            /\ submited_count' = Len(pool) /\ worker' = "scan"
        BY <1>1, <3>1 DEF WorkerWake
      <4>2. InHand' = Len(pool) /\ InHand = 0
        BY <1>0, <2>1, <2>2, <4>1 DEF InHand
      <4>3. QED BY <1>0, <2>1, <2>2, <4>1, <4>2, CountedSets DEF CountsAdd
    <3>2. CASE pool = <<>>
      BY <1>1, <2>1, <3>2 DEF WorkerWake, CountsAdd, InHand
    <3>3. QED BY <3>1, <3>2
  <2>7. QED BY <2>4, <2>5, <2>6
<1>2. CASE WorkerSubmit
  <2>1. cur \in Tasks /\ st[cur] = "queued"
    BY <1>2 DEF WorkerSubmit, FifoInv, FifoPools
  <2>2. /\ Finish(cur) /\ sema' = sema + 1 /\ worker = "submit" /\ worker' = "scan"
        /\ UNCHANGED <<total_task_num, pool, schedule_pool, unready_pool, submited_count>>
        /\ last_submit_task_id' \in {last_submit_task_id, global_task_id[cur]}
        /\ cur' = NoTask
    BY <1>2 DEF WorkerSubmit, Submitted, UpSema
  <2>3. sema' \in Nat /\ last_submit_task_id' \in Nat
    BY <2>1, <2>2 DEF TypeOK
  <2>4. TypeOK'
    BY <1>2, <2>1, <2>2, <2>3, FinishType DEF WorkerSubmit, TypeOK, hwVars
  <2>5. SemaAccounts'
    <3>1. Cardinality(Inside') = Cardinality(Inside) - 1
      BY <2>1, <2>2, FinishCounts
    <3>2. sema \in Nat /\ sema' = sema + 1
      BY <2>2 DEF TypeOK
    <3>3. QED BY <3>1, <3>2, CountedSets DEF SemaAccounts
  <2>6. InHand' = InHand - 1
    BY <1>0, <2>2 DEF InHand
  <2>7. CountsAdd'
    <3>1. /\ Cardinality(Pending') = Cardinality(Pending) - 1
          /\ Cardinality(Numbered') = Cardinality(Numbered)
          /\ InHand \in Nat
      BY <2>1, <2>2, FinishCounts, InHandType
    <3>2. total_task_num' = Cardinality(Numbered') + Len(pool') + submited_count'
      BY <2>2, <3>1 DEF CountsAdd
    <3>3. InHand' <= submited_count' /\ Cardinality(Pending') <= Len(pool') + InHand'
      BY <1>0, <2>2, <2>6, <3>1, CountedSets DEF CountsAdd
    <3>4. QED BY <2>2, <3>2, <3>3 DEF CountsAdd
  <2>8. QED BY <2>4, <2>5, <2>7
<1>3. CASE WorkerEnd
  <2>1. UNCHANGED <<Inside, Pending, Numbered, sema>>
    BY <1>3 DEF WorkerEnd, Inside, Pending, Numbered
  <2>2. /\ pool' \in Seq(Tasks) /\ unready_pool' \in Seq(Tasks)
        /\ Len(pool') = Len(unready_pool) + Len(pool)
        /\ Len(unready_pool') = 0 /\ Len(schedule_pool') = 0
    BY <1>3 DEF WorkerEnd, SplicePool, TypeOK
  <2>3. /\ worker = "scan" /\ worker' = "asleep" /\ submited_count' = 0
        /\ total_task_num' = total_task_num - (submited_count - Len(unready_pool))
        /\ Len(schedule_pool) = 0
    BY <1>3 DEF WorkerEnd, UncountSubmitted
  <2>4. InHand = Len(unready_pool) /\ InHand' = 0
    BY <1>0, <2>2, <2>3 DEF InHand
  <2>5. CountsAdd'
    BY <1>0, <2>1, <2>2, <2>3, <2>4, CountedSets DEF CountsAdd
  <2>6. total_task_num' \in Nat
    BY <1>0, <2>1, <2>2, <2>3, <2>5, CountedSets DEF CountsAdd
  <2>7. TypeOK'
    BY <1>3, <2>2, <2>3, <2>6 DEF WorkerEnd, TypeOK, ctxVars, idVars, hwVars
  <2>8. SemaAccounts'
    BY <2>1 DEF SemaAccounts
  <2>9. QED BY <2>5, <2>7, <2>8
<1>4. ASSUME NEW t \in Tasks, Fetch(t)
      PROVE  /\ schedule_pool' \in Seq(Tasks) /\ worker = "scan"
             /\ Len(schedule_pool') = Len(schedule_pool) - 1
  BY <1>4 DEF Fetch, TypeOK
<1>5. ASSUME NEW t \in Tasks, WorkerSkip(t)
      PROVE  TypeOK' /\ SemaAccounts' /\ CountsAdd'
  <2>1. UNCHANGED <<Inside, Pending, Numbered, poolVars, submited_count, worker>>
    BY <1>5 DEF WorkerSkip, Inside, Pending, Numbered
  <2>2. /\ unready_pool' \in Seq(Tasks) /\ Len(unready_pool') = Len(unready_pool) + 1
        /\ schedule_pool' \in Seq(Tasks) /\ worker = "scan"
        /\ Len(schedule_pool') = Len(schedule_pool) - 1
    BY <1>4, <1>5 DEF WorkerSkip, TypeOK
  <2>3. TypeOK'
    BY <1>5, <2>2 DEF WorkerSkip, TypeOK, ctxVars, idVars, poolVars, hwVars
  <2>4. InHand' = InHand
    BY <1>0, <2>1, <2>2 DEF InHand
  <2>5. SemaAccounts' /\ CountsAdd'
    BY <2>1, <2>4 DEF SemaAccounts, CountsAdd, poolVars
  <2>6. QED BY <2>3, <2>5
<1>6. ASSUME NEW t \in Tasks, WorkerSync(t)
      PROVE  TypeOK' /\ SemaAccounts' /\ CountsAdd'
  <2>1. st[t] = "queued" /\ Fetch(t)
    BY <1>6, FetchFifo DEF WorkerSync, Ready
  <2>2. /\ Finish(t) /\ sema' = sema + 1 /\ worker = "scan"
        /\ UNCHANGED <<total_task_num, pool, unready_pool, submited_count, worker>>
        /\ last_submit_task_id' \in {last_submit_task_id, global_task_id[t]}
        /\ schedule_pool' \in Seq(Tasks) /\ Len(schedule_pool') = Len(schedule_pool) - 1
    BY <1>4, <1>6, <2>1 DEF WorkerSync, Submitted, UpSema
  <2>3. sema' \in Nat /\ last_submit_task_id' \in Nat
    BY <2>1, <2>2 DEF TypeOK
  <2>4. TypeOK'
    BY <1>6, <2>1, <2>2, <2>3, FinishType DEF WorkerSync, TypeOK, hwVars
  <2>5. SemaAccounts'
    <3>1. Cardinality(Inside') = Cardinality(Inside) - 1
      BY <2>1, <2>2, FinishCounts
    <3>2. sema \in Nat /\ sema' = sema + 1
      BY <2>2 DEF TypeOK
    <3>3. QED BY <3>1, <3>2, CountedSets DEF SemaAccounts
  <2>6. InHand' = InHand - 1
    BY <1>0, <2>2 DEF InHand
  <2>7. CountsAdd'
    <3>1. /\ Cardinality(Pending') = Cardinality(Pending) - 1
          /\ Cardinality(Numbered') = Cardinality(Numbered)
          /\ InHand \in Nat
      BY <2>1, <2>2, FinishCounts, InHandType
    <3>2. total_task_num' = Cardinality(Numbered') + Len(pool') + submited_count'
      BY <2>2, <3>1 DEF CountsAdd
    <3>3. InHand' <= submited_count' /\ Cardinality(Pending') <= Len(pool') + InHand'
      BY <1>0, <2>2, <2>6, <3>1, CountedSets DEF CountsAdd
    <3>4. QED BY <2>2, <3>2, <3>3 DEF CountsAdd
  <2>8. QED BY <2>4, <2>5, <2>7
<1>7. ASSUME NEW t \in Tasks, WorkerPrepare(t)
      PROVE  TypeOK' /\ SemaAccounts' /\ CountsAdd'
  <2>1. UNCHANGED <<Inside, Pending, Numbered, poolVars, submited_count, unready_pool>>
    BY <1>7 DEF WorkerPrepare, Inside, Pending, Numbered
  <2>2. /\ schedule_pool' \in Seq(Tasks) /\ worker = "scan" /\ worker' = "submit"
        /\ Len(schedule_pool') = Len(schedule_pool) - 1 /\ cur' = t
    BY <1>4, <1>7 DEF WorkerPrepare
  <2>3. event' \in BOOLEAN /\ busy' \in Nat
    <3>1. event \in BOOLEAN /\ busy \in Nat
      BY DEF TypeOK
    <3>2. CASE busy' = busy + 1 /\ UNCHANGED event
      BY <3>1, <3>2
    <3>3. CASE WakeIfPending /\ UNCHANGED busy
      BY <3>1, <3>3, WakeType
    <3>4. QED BY <1>7, <3>2, <3>3 DEF WorkerPrepare
  <2>4. TypeOK'
    BY <1>7, <2>2, <2>3 DEF WorkerPrepare, TypeOK, ctxVars, idVars, poolVars
  <2>5. InHand' = InHand
    BY <1>0, <2>1, <2>2 DEF InHand
  <2>6. SemaAccounts' /\ CountsAdd'
    BY <2>1, <2>2, <2>5 DEF SemaAccounts, CountsAdd, poolVars
  <2>7. QED BY <2>4, <2>6
<1>8. QED BY <1>1, <1>2, <1>3, <1>5, <1>6, <1>7 DEF WorkerStep

LEMMA NextCount == CountInv /\ [Next]_vars => CountInv'
<1> SUFFICES ASSUME CountInv, [Next]_vars PROVE CountInv'
  OBVIOUS
<1> USE DEF CountInv
<1>1. FifoInv'
  BY NextFifo
<1>2. TypeOK' /\ SemaAccounts' /\ CountsAdd'
  <2>1. ASSUME NEW t \in Tasks, GpuSignal(t) PROVE TypeOK' /\ SemaAccounts' /\ CountsAdd'
    <3>1. signaled' \subseteq Tasks /\ irq' \in BOOLEAN
      BY <2>1 DEF GpuSignal, TypeOK
    <3>2. TypeOK'
      BY <2>1, <3>1 DEF GpuSignal, TypeOK, ctxVars, idVars, poolVars, workerVars
    <3>3. QED BY <2>1, <3>2, SameCounts DEF GpuSignal
  <2>2. CASE GpuRetire
    <3>1. retired' \in Nat /\ irq' \in BOOLEAN
      BY <2>2 DEF GpuRetire, TypeOK
    <3>2. TypeOK'
      BY <2>2, <3>1 DEF GpuRetire, TypeOK, ctxVars, idVars, poolVars, workerVars
    <3>3. QED BY <2>2, <3>2, SameCounts DEF GpuRetire
  <2>3. CASE FenceInterrupt
    <3>1. busy' \in Nat /\ retired' \in Nat
      BY <2>3 DEF FenceInterrupt, TypeOK
    <3>2. irq' \in BOOLEAN /\ event' \in BOOLEAN
      BY <2>3, WakeType DEF FenceInterrupt
    <3>3. TypeOK'
      BY <2>3, <3>1, <3>2
      DEF FenceInterrupt, TypeOK, ctxVars, idVars, poolVars, workerVars
    <3>4. QED BY <2>3, <3>3, SameCounts DEF FenceInterrupt
  <2>4. CASE WaitWorkerIdle \/ WaitFenceBack
    <3>1. TypeOK'
      BY <2>4
      DEF WaitWorkerIdle, WaitFenceBack, TypeOK, ctxVars, idVars, poolVars, workerVars,
          hwVars
    <3>2. QED BY <2>4, <3>1, SameCounts DEF WaitWorkerIdle, WaitFenceBack
  <2>5. CASE UNCHANGED vars
    <3>1. TypeOK'
      BY <2>5 DEF vars, TypeOK, ctxVars, idVars, poolVars, workerVars, hwVars
    <3>2. QED BY <2>5, <3>1, SameCounts DEF vars
  <2>6. QED
    BY <2>1, <2>2, <2>3, <2>4, <2>5, CreateCount, ThreadCount, WorkerCount DEF Next
<1>3. retired' <= busy'
  <2>0. retired \in Nat /\ busy \in Nat
    BY DEF TypeOK
  <2>1. ASSUME NEW t \in Tasks, Create(t) \/ ThreadStep(t) \/ GpuSignal(t)
        PROVE  UNCHANGED <<retired, busy>>
    BY <2>1
    DEF Create, ThreadStep, ClientWait, TrySignal, SignalNotify, DownSema, Number,
        AddToPool, GpuSignal, hwVars
  <2>2. ASSUME WorkerStep PROVE retired' <= busy'
    <3>1. CASE WorkerWake \/ WorkerSubmit \/ WorkerEnd
      BY <3>1 DEF WorkerWake, WorkerSubmit, WorkerEnd, hwVars
    <3>2. ASSUME NEW t \in Tasks, WorkerSkip(t) \/ WorkerSync(t) PROVE retired' <= busy'
      BY <3>2 DEF WorkerSkip, WorkerSync, hwVars
    <3>3. ASSUME NEW t \in Tasks, WorkerPrepare(t) PROVE retired' <= busy'
      BY <2>0, <3>3 DEF WorkerPrepare
    <3>4. QED BY <2>2, <3>1, <3>2, <3>3 DEF WorkerStep
  <2>3. CASE GpuRetire \/ FenceInterrupt
    BY <2>0, <2>3 DEF GpuRetire, FenceInterrupt
  <2>4. CASE WaitWorkerIdle \/ WaitFenceBack
    BY <2>4 DEF WaitWorkerIdle, WaitFenceBack, hwVars
  <2>5. CASE UNCHANGED vars
    BY <2>5 DEF vars, hwVars
  <2>6. QED BY <2>1, <2>2, <2>3, <2>4, <2>5 DEF Next
<1>4. QED BY <1>1, <1>2, <1>3

LEMMA AlwaysCount == Spec => []CountInv
  BY InitCount, NextCount, PTL DEF Spec

\* Every place in the pool that a client's gf_down took is given back by the
\* worker exactly once: sema and the tasks inside always add up to QueueLength.
THEOREM SemaBalanced == Spec => []SemaAccounts
<1>1. CountInv => SemaAccounts
  BY DEF CountInv
<1>2. QED BY <1>1, AlwaysCount, PTL

\* total_task_num is never below the number of queued tasks, so a fence
\* interrupt that finds one pending wakes the worker.
THEOREM PendingCounted == Spec => []PendingIsCounted
<1>1. CountInv => PendingIsCounted
  <2> SUFFICES ASSUME CountInv PROVE Cardinality(Pending) <= total_task_num
    BY DEF PendingIsCounted
  <2>1. Len(pool) \in Nat /\ submited_count \in Nat /\ InHand \in Nat
    BY InHandType DEF CountInv, TypeOK
  <2>2. QED BY <2>1, CountedSets DEF CountInv, CountsAdd
<1>2. QED BY <1>1, AlwaysCount, PTL

\* No counter of the queue ever goes below zero.
THEOREM QueueTypeCorrect == Spec => []TypeOK
<1>1. CountInv => TypeOK
  BY DEF CountInv
<1>2. QED BY <1>1, AlwaysCount, PTL

-----------------------------------------------------------------------------
(* The pools hold each queued task once.                                   *)

LEMMA AppendList ==
  ASSUME NEW s \in Seq(Tasks), NEW x \in Tasks
  PROVE  /\ Append(s, x) \in Seq(Tasks) /\ Len(Append(s, x)) = Len(s) + 1
         /\ Range(Append(s, x)) = Range(s) \cup {x}
         /\ IsInjective(s) /\ x \notin Range(s) => IsInjective(Append(s, x))
<1>1. /\ Append(s, x) \in Seq(Tasks) /\ Len(Append(s, x)) = Len(s) + 1 /\ Len(s) \in Nat
      /\ DOMAIN s = 1..Len(s) /\ DOMAIN Append(s, x) = 1..(Len(s) + 1)
      /\ \A i \in 1..Len(s) : Append(s, x)[i] = s[i]
      /\ Append(s, x)[Len(s) + 1] = x
  OBVIOUS
<1>2. \A i \in 1..(Len(s) + 1) : i \in 1..Len(s) \/ i = Len(s) + 1
  BY <1>1
<1>3. Range(Append(s, x)) = Range(s) \cup {x}
  <2>1. \A y \in Range(Append(s, x)) : y \in Range(s) \cup {x}
    BY <1>1, <1>2 DEF Range
  <2>2. \A y \in Range(s) : y \in Range(Append(s, x))
    BY <1>1 DEF Range
  <2>3. x \in Range(Append(s, x))
    <3>1. Len(s) + 1 \in DOMAIN Append(s, x)
      BY <1>1
    <3>2. QED BY <1>1, <3>1 DEF Range
  <2>4. QED BY <2>1, <2>2, <2>3
<1>4. ASSUME IsInjective(s), x \notin Range(s) PROVE IsInjective(Append(s, x))
  <2>1. \A i \in 1..Len(s) : s[i] # x
    BY <1>1, <1>4 DEF Range
  <2>2. QED BY <1>1, <1>2, <1>4, <2>1 DEF IsInjective
<1>5. QED BY <1>1, <1>3, <1>4

LEMMA TailList ==
  ASSUME NEW s \in Seq(Tasks), s # <<>>
  PROVE  /\ Tail(s) \in Seq(Tasks) /\ Len(Tail(s)) = Len(s) - 1 /\ Head(s) \in Tasks
         /\ Range(s) = Range(Tail(s)) \cup {Head(s)}
         /\ IsInjective(s) => IsInjective(Tail(s)) /\ Head(s) \notin Range(Tail(s))
<1>1. /\ Tail(s) \in Seq(Tasks) /\ Len(Tail(s)) = Len(s) - 1 /\ Head(s) \in Tasks
      /\ Head(s) = s[1] /\ Len(s) \in Nat \ {0} /\ s \in [1..Len(s) -> Tasks]
      /\ \A i \in 1..Len(Tail(s)) : Tail(s)[i] = s[i + 1]
  OBVIOUS
<1>2. Range(Tail(s)) = {s[i + 1] : i \in 1..(Len(s) - 1)}
  <2>1. DOMAIN Tail(s) = 1..(Len(s) - 1)
    BY <1>1
  <2>2. Range(Tail(s)) = {Tail(s)[i] : i \in 1..(Len(s) - 1)}
    BY <2>1 DEF Range
  <2>3. QED BY <1>1, <2>2
<1>3. \A i \in 1..Len(s) : i = 1 \/ \E j \in 1..(Len(s) - 1) : i = j + 1
  BY <1>1
<1>4. Range(s) = {s[i] : i \in 1..Len(s)}
  BY <1>1 DEF Range
<1>5. Range(s) = Range(Tail(s)) \cup {Head(s)}
  <2>1. \A x \in Range(s) : x \in Range(Tail(s)) \cup {Head(s)}
    BY <1>1, <1>2, <1>3, <1>4
  <2>2. \A x \in Range(Tail(s)) \cup {Head(s)} : x \in Range(s)
    BY <1>1, <1>2, <1>4
  <2>3. QED BY <2>1, <2>2
<1>6. ASSUME IsInjective(s) PROVE IsInjective(Tail(s)) /\ Head(s) \notin Range(Tail(s))
  BY <1>1, <1>2, <1>6 DEF IsInjective
<1>7. QED BY <1>1, <1>5, <1>6

LEMMA JoinList ==
  ASSUME NEW s \in Seq(Tasks), NEW t \in Seq(Tasks)
  PROVE  /\ s \o t \in Seq(Tasks) /\ Len(s \o t) = Len(s) + Len(t)
         /\ Range(s \o t) = Range(s) \cup Range(t)
         /\ IsInjective(s) /\ IsInjective(t) /\ Range(s) \cap Range(t) = {}
              => IsInjective(s \o t)
<1>1. /\ s \o t \in Seq(Tasks) /\ Len(s \o t) = Len(s) + Len(t)
      /\ Len(s) \in Nat /\ Len(t) \in Nat
      /\ \A i \in 1..Len(s) : (s \o t)[i] = s[i]
      /\ \A i \in 1..Len(t) : (s \o t)[Len(s) + i] = t[i]
      /\ DOMAIN s = 1..Len(s) /\ DOMAIN t = 1..Len(t) /\ DOMAIN (s \o t) = 1..(Len(s) + Len(t))
  OBVIOUS
<1>2. \A i \in 1..(Len(s) + Len(t)) :
        \/ i \in 1..Len(s) /\ (s \o t)[i] = s[i]
        \/ i - Len(s) \in 1..Len(t) /\ (s \o t)[i] = t[i - Len(s)]
  <2>1. \A i \in 1..(Len(s) + Len(t)) : 
          i \in 1..Len(s) \/ (i - Len(s) \in 1..Len(t) /\ i = Len(s) + (i - Len(s)))
    BY <1>1
  <2>2. QED BY <1>1, <2>1
<1>3. Range(s \o t) = Range(s) \cup Range(t)
  <2>1. \A x \in Range(s \o t) : x \in Range(s) \cup Range(t)
    BY <1>1, <1>2 DEF Range
  <2>2. \A x \in Range(s) : x \in Range(s \o t)
    BY <1>1 DEF Range
  <2>3. ASSUME NEW x \in Range(t) PROVE x \in Range(s \o t)
    <3>1. PICK i \in 1..Len(t) : t[i] = x
      BY <1>1 DEF Range
    <3>2. Len(s) + i \in DOMAIN (s \o t) /\ (s \o t)[Len(s) + i] = x
      BY <1>1, <3>1
    <3>3. QED BY <3>2 DEF Range
  <2>4. QED BY <2>1, <2>2, <2>3
<1>4. ASSUME IsInjective(s), IsInjective(t), Range(s) \cap Range(t) = {},
             NEW i \in 1..(Len(s) + Len(t)), NEW j \in 1..(Len(s) + Len(t)),
             (s \o t)[i] = (s \o t)[j]
      PROVE  i = j
  <2>1. \A k \in 1..Len(s), m \in 1..Len(t) : s[k] # t[m]
    BY <1>1, <1>4 DEF Range
  <2>2. CASE i \in 1..Len(s) /\ (s \o t)[i] = s[i]
    <3>1. j \in 1..Len(s) /\ (s \o t)[j] = s[j]
      BY <1>2, <1>4, <2>1, <2>2
    <3>2. QED BY <1>1, <1>4, <2>2, <3>1 DEF IsInjective
  <2>3. CASE i - Len(s) \in 1..Len(t) /\ (s \o t)[i] = t[i - Len(s)]
    <3>1. j - Len(s) \in 1..Len(t) /\ (s \o t)[j] = t[j - Len(s)]
      BY <1>2, <1>4, <2>1, <2>3
    <3>2. i - Len(s) = j - Len(s)
      BY <1>1, <1>4, <2>3, <3>1 DEF IsInjective
    <3>3. QED BY <1>1, <3>2
  <2>4. QED BY <1>2, <2>2, <2>3
<1>5. QED BY <1>1, <1>3, <1>4 DEF IsInjective

LEMMA EmptyList == Range(<<>>) = {} /\ IsInjective(<<>>)
  BY DEF Range, IsInjective

LEMMA ListType == ASSUME NEW s \in Seq(Tasks) PROVE Range(s) \subseteq Tasks
  BY DEF Range

\* A list without repeats is as long as the set of what it holds.
LEMMA ListLength ==
  ASSUME NEW s \in Seq(Tasks), IsInjective(s) PROVE Len(s) = Cardinality(Range(s))
<1>1. Len(s) \in Nat /\ DOMAIN s = 1..Len(s)
  OBVIOUS
<1>2. s \in Bijection(1..Len(s), Range(s))
  BY <1>1 DEF IsInjective, Bijection, Injection, Surjection, Range
<1>3. ExistsBijection(1..Len(s), Range(s))
  BY <1>2 DEF ExistsBijection
<1>4. QED BY <1>1, <1>3, FS_CountingElements

LEMMA InitPlaces == Init => PlacesOK
<1> SUFFICES ASSUME Init PROVE PlacesOK
  OBVIOUS
<1>1. Pending = {} /\ InHands = {}
  BY DEF Init, Pending, InHands
<1>2. QED BY <1>1, EmptyList DEF Init, PlacesOK

LEMMA PlacesFrame ==
  ASSUME PlacesOK, UNCHANGED <<pool, workerVars>>, Pending' = Pending PROVE PlacesOK'
  BY DEF PlacesOK, InHands, workerVars

LEMMA AddPlaces == ASSUME PlacesInv, NEW t \in Tasks, AddToPool(t) PROVE PlacesOK'
<1>1. /\ st \in [Tasks -> {"new", "client", "try", "enter", "slot", "numbered",
                           "queued", "done"}]
      /\ pool \in Seq(Tasks)
  BY DEF PlacesInv, FifoInv, FifoTypeOK, OrderTypeOK
<1>2. /\ pool' = Append(pool, t) /\ Pending' = Pending \cup {t} /\ t \notin Pending
      /\ UNCHANGED workerVars
  BY <1>1 DEF AddToPool, Pending
<1>3. t \notin Range(pool) \cup Range(schedule_pool) \cup Range(unready_pool) \cup InHands
  BY <1>2 DEF PlacesInv, PlacesOK
<1>4. Range(pool') = Range(pool) \cup {t} /\ IsInjective(pool')
  BY <1>1, <1>2, <1>3, AppendList DEF PlacesInv, PlacesOK
<1>5. QED BY <1>2, <1>3, <1>4 DEF PlacesInv, PlacesOK, InHands, workerVars

\* The worker takes the whole pool.
LEMMA WakePlaces == ASSUME PlacesInv, WorkerWake PROVE PlacesOK'
<1>1. Pending' = Pending /\ UNCHANGED <<cur, unready_pool>> /\ InHands' = InHands
  BY DEF WorkerWake, Pending, InHands
<1>2. CASE pool # <<>>
  <2>1. /\ schedule_pool' = pool /\ pool' = <<>> /\ worker = "asleep" /\ worker' = "scan"
        /\ schedule_pool = <<>> /\ unready_pool = <<>>
    BY <1>2 DEF WorkerWake, PlacesInv, PlacesOK
  <2>2. QED BY <1>1, <2>1, EmptyList DEF PlacesInv, PlacesOK
<1>3. CASE pool = <<>>
  BY <1>1, <1>3 DEF WorkerWake, PlacesInv, PlacesOK
<1>4. QED BY <1>2, <1>3

\* What it could not submit goes back in front of what was added since.
LEMMA EndPlaces == ASSUME PlacesInv, WorkerEnd PROVE PlacesOK'
<1>1. /\ pool' = unready_pool \o pool /\ unready_pool' = <<>> /\ schedule_pool = <<>>
      /\ schedule_pool' = <<>> /\ worker' = "asleep" /\ worker = "scan"
      /\ cur' = cur /\ InHands' = InHands /\ Pending' = Pending
      /\ pool \in Seq(Tasks) /\ unready_pool \in Seq(Tasks)
  BY DEF WorkerEnd, SplicePool, Pending, InHands, PlacesInv, FifoInv, FifoTypeOK
<1>2. Range(pool') = Range(unready_pool) \cup Range(pool) /\ IsInjective(pool')
  BY <1>1, JoinList DEF PlacesInv, PlacesOK
<1>3. QED BY <1>1, <1>2, EmptyList DEF PlacesInv, PlacesOK

LEMMA FetchPlaces ==
  ASSUME PlacesInv, NEW t \in Tasks, Fetch(t)
  PROVE  /\ Range(schedule_pool) = Range(schedule_pool') \cup {t}
         /\ t \notin Range(schedule_pool') /\ IsInjective(schedule_pool')
         /\ t \notin Range(pool) \cup Range(unready_pool) \cup InHands
         /\ t \in Pending /\ worker = "scan" /\ cur = NoTask /\ InHands = {}
<1>1. /\ schedule_pool \in Seq(Tasks) /\ schedule_pool # <<>> /\ t = Head(schedule_pool)
      /\ schedule_pool' = Tail(schedule_pool) /\ worker = "scan"
  BY DEF Fetch, PlacesInv, FifoInv, FifoTypeOK
<1>2. /\ Range(schedule_pool) = Range(schedule_pool') \cup {t}
      /\ t \notin Range(schedule_pool') /\ IsInjective(schedule_pool')
  BY <1>1, TailList DEF PlacesInv, PlacesOK
<1>3. QED BY <1>1, <1>2 DEF PlacesInv, PlacesOK, InHands

\* A task goes through: it has no place any more.
LEMMA FinishPlaces ==
  ASSUME PlacesInv, NEW t \in Tasks, Finish(t) PROVE Pending' = Pending \ {t}
<1>1. st \in [Tasks -> {"new", "client", "try", "enter", "slot", "numbered",
                        "queued", "done"}]
  BY DEF PlacesInv, FifoInv, FifoTypeOK, OrderTypeOK
<1>2. QED BY <1>1 DEF Finish, Pending

LEMMA SkipPlaces == ASSUME PlacesInv, NEW t \in Tasks, WorkerSkip(t) PROVE PlacesOK'
<1>1. /\ unready_pool' = Append(unready_pool, t) /\ Pending' = Pending
      /\ UNCHANGED <<pool, cur, worker>> /\ InHands' = InHands /\ Fetch(t)
      /\ unready_pool \in Seq(Tasks)
  BY DEF WorkerSkip, Pending, poolVars, InHands, PlacesInv, FifoInv, FifoTypeOK
<1>2. Range(unready_pool') = Range(unready_pool) \cup {t} /\ IsInjective(unready_pool')
  BY <1>1, FetchPlaces, AppendList DEF PlacesInv, PlacesOK
<1>3. QED BY <1>1, <1>2, FetchPlaces DEF PlacesInv, PlacesOK

LEMMA SyncPlaces == ASSUME PlacesInv, NEW t \in Tasks, WorkerSync(t) PROVE PlacesOK'
<1>1. /\ Fetch(t) /\ UNCHANGED <<pool, unready_pool, cur, worker>> /\ InHands' = InHands
      /\ Pending' = Pending \ {t}
  BY FinishPlaces DEF WorkerSync, Submitted, InHands
<1>2. QED BY <1>1, FetchPlaces DEF PlacesInv, PlacesOK

LEMMA PreparePlaces == ASSUME PlacesInv, NEW t \in Tasks, WorkerPrepare(t) PROVE PlacesOK'
<1>1. /\ Fetch(t) /\ UNCHANGED <<pool, unready_pool>> /\ Pending' = Pending
      /\ cur' = t /\ worker' = "submit" /\ t # NoTask
  BY QueueAssumption DEF WorkerPrepare, poolVars, Pending
<1>2. InHands' = {t}
  BY <1>1 DEF InHands
<1>3. QED BY <1>1, <1>2, FetchPlaces DEF PlacesInv, PlacesOK

LEMMA SubmitPlaces == ASSUME PlacesInv, WorkerSubmit PROVE PlacesOK'
<1>1. /\ cur \in Tasks /\ worker = "submit" /\ worker' = "scan" /\ cur' = NoTask
      /\ UNCHANGED <<pool, schedule_pool, unready_pool>>
  BY DEF WorkerSubmit, PlacesInv, FifoInv, FifoPools
<1>2. Pending' = Pending \ {cur}
  BY <1>1, FinishPlaces DEF WorkerSubmit, Submitted
<1>3. InHands = {cur} /\ InHands' = {}
  BY <1>1 DEF InHands, PlacesInv, PlacesOK
<1>4. QED BY <1>1, <1>2, <1>3 DEF PlacesInv, PlacesOK

LEMMA OtherPlaces ==
  ASSUME PlacesInv,
         \/ \E t \in Tasks : \/ Create(t) \/ ClientWait(t) \/ TrySignal(t) \/ SignalNotify(t)
                             \/ DownSema(t) \/ Number(t) \/ GpuSignal(t)
         \/ GpuRetire \/ FenceInterrupt \/ WaitWorkerIdle \/ WaitFenceBack
         \/ UNCHANGED vars
  PROVE  PlacesOK'
<1>1. st \in [Tasks -> {"new", "client", "try", "enter", "slot", "numbered",
                        "queued", "done"}]
  BY DEF PlacesInv, FifoInv, FifoTypeOK, OrderTypeOK
<1>2. ASSUME NEW t \in Tasks,
             \/ Create(t) \/ ClientWait(t) \/ TrySignal(t) \/ SignalNotify(t)
             \/ DownSema(t) \/ Number(t) \/ GpuSignal(t)
      PROVE  Pending' = Pending /\ UNCHANGED <<pool, workerVars>>
  <2>1. UNCHANGED <<pool, workerVars>>
    BY <1>2
    DEF Create, ClientWait, TrySignal, SignalNotify, DownSema, Number, GpuSignal, poolVars
  <2>2. \/ UNCHANGED st
        \/ st[t] # "queued" /\ \E s : s # "queued" /\ st' = [st EXCEPT ![t] = s]
    BY <1>2
    DEF Create, ClientWait, TrySignal, Finish, SignalNotify, DownSema, Number, GpuSignal
  <2>3. QED BY <1>1, <2>1, <2>2 DEF Pending
<1>3. CASE \/ GpuRetire \/ FenceInterrupt \/ WaitWorkerIdle \/ WaitFenceBack
           \/ UNCHANGED vars
  <2>1. Pending' = Pending /\ UNCHANGED <<pool, workerVars>>
    BY <1>3
    DEF GpuRetire, FenceInterrupt, WaitWorkerIdle, WaitFenceBack, vars, poolVars, Pending
  <2>2. QED BY <2>1, PlacesFrame DEF PlacesInv
<1>4. QED BY <1>2, <1>3, PlacesFrame DEF PlacesInv

LEMMA NextPlaces == PlacesInv /\ [Next]_vars => PlacesInv'
<1> SUFFICES ASSUME PlacesInv, [Next]_vars PROVE PlacesInv'
  OBVIOUS
<1>1. FifoInv'
  BY NextFifo DEF PlacesInv
<1>2. PlacesOK'
  BY AddPlaces, WakePlaces, EndPlaces, SkipPlaces, SyncPlaces, PreparePlaces, SubmitPlaces,
     OtherPlaces
  DEF Next, ThreadStep, WorkerStep
<1>3. QED BY <1>1, <1>2 DEF PlacesInv

\* The worker moves tasks between three pools without a lock they share: none is lost or
\* held twice.
THEOREM TasksKept == Spec => []NoTaskLost
<1>1. PlacesInv => NoTaskLost
  <2> SUFFICES ASSUME PlacesInv PROVE NoTaskLost
    OBVIOUS
  <2> DEFINE hand == IF cur = NoTask THEN <<>> ELSE <<cur>>
             two == pool \o schedule_pool
             three == two \o unready_pool
             all == three \o hand
  <2>1. /\ pool \in Seq(Tasks) /\ schedule_pool \in Seq(Tasks) /\ unready_pool \in Seq(Tasks)
        /\ cur = NoTask \/ cur \in Tasks
    BY DEF PlacesInv, PlacesOK, FifoInv, FifoTypeOK, FifoPools
  <2>2. hand \in Seq(Tasks) /\ Range(hand) = InHands /\ IsInjective(hand)
    <3>1. CASE cur = NoTask
      <4>1. hand = <<>> /\ InHands = {}
        BY <3>1 DEF InHands
      <4>2. QED BY <4>1, EmptyList
    <3>2. CASE cur # NoTask
      <4>1. hand = <<cur>> /\ InHands = {cur} /\ cur \in Tasks
        BY <2>1, <3>2 DEF InHands
      <4>2. <<cur>> = Append(<<>>, cur) /\ <<>> \in Seq(Tasks)
        OBVIOUS
      <4>3. QED BY <4>1, <4>2, EmptyList, AppendList
    <3>3. QED BY <3>1, <3>2
  <2> HIDE DEF hand
  <2>3. /\ two \in Seq(Tasks) /\ IsInjective(two)
        /\ Range(two) = Range(pool) \cup Range(schedule_pool)
    BY <2>1, JoinList DEF PlacesInv, PlacesOK
  <2> HIDE DEF two
  <2>4. /\ three \in Seq(Tasks) /\ IsInjective(three)
        /\ Range(three) = Range(two) \cup Range(unready_pool)
    BY <2>1, <2>3, JoinList DEF PlacesInv, PlacesOK
  <2> HIDE DEF three
  <2>5. all \in Seq(Tasks) /\ IsInjective(all) /\ Range(all) = Range(three) \cup InHands
    BY <2>2, <2>3, <2>4, JoinList DEF PlacesInv, PlacesOK
  <2>6. Range(all) = Pending
    BY <2>3, <2>4, <2>5 DEF PlacesInv, PlacesOK
  <2> HIDE DEF all
  <2>7. Len(all) = Cardinality(Pending)
    BY <2>5, <2>6, ListLength
  <2>8. all = pool \o schedule_pool \o unready_pool
               \o (IF cur = NoTask THEN <<>> ELSE <<cur>>)
    BY DEF all, three, two, hand
  <2>9. QED BY <2>6, <2>7, <2>8 DEF NoTaskLost
<1>2. Init => PlacesInv
  BY InitFifo, InitPlaces DEF PlacesInv
<1>3. QED BY <1>1, <1>2, NextPlaces, PTL DEF Spec
=============================================================================
