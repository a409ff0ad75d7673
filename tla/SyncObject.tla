----------------------------- MODULE SyncObject -----------------------------
(***************************************************************************)
(* Who keeps what alive: the contexts and sync objects of one device, and  *)
(* the wait and render tasks that hold references to them.                 *)
(*                                                                         *)
(* A wait task holds its object through a wait instance on the object's    *)
(* instance_list, a render holds the objects its DMA signals; both hold    *)
(* their context.  An object destroyed while it is held is put on the      *)
(* adapter's list of deferred objects and freed by a later call; a context *)
(* that is destroyed waits until nobody holds it and, when that takes too  *)
(* long, sets task_dropped to get the waits of its device through.         *)
(*                                                                         *)
(* Each context has an engine of its own.  VidSchQueue has the pools the   *)
(* worker threads take their tasks from and VidSchEngine the fences; here  *)
(* the worker may look at any pending task.  Time is left out: a timeout   *)
(* may come at any moment.  A client neither destroys an object or a       *)
(* context while one of its threads is in a call on it nor uses it later.  *)
(***************************************************************************)
EXTENDS Naturals, Sequences, SequencesExt, FiniteSets

CONSTANTS
  Contexts,
  ObjectNum, TaskNum,   \* bounds: objects and tasks ever created
  MaxFence,       \* fence values are 1..MaxFence
  MaxObjects,     \* MAX_SYNC_OBJECT_SIZE_PER_DEVICE
  MaxFails,       \* bound: creations of objects that fail
  Creators,       \* bound: threads that create objects at the same time
  GiveUp          \* the last loop of cm_wait_context_idle can run out

ASSUME SyncAssumption ==
  /\ ObjectNum \in Nat /\ TaskNum \in Nat /\ Contexts # {}
  /\ MaxFence \in Nat \ {0} /\ MaxObjects \in Nat /\ MaxFails \in Nat
  /\ Creators \in Nat \ {0} /\ GiveUp \in BOOLEAN

\* Objects and tasks are numbered in the order of their creation.
Objects == 1..ObjectNum
Tasks == 1..TaskNum
NoObject == 0

VARIABLES
  device,                             \* "live" or "destroyed"
  task_dropped, sync_obj_count,       \* gpu_device_t
  ctx,                                \* "live", "idle_wait", "drop_wait", "freed"
  ctx_ref, task_id, last_submit_to_sw,           \* gpu_context_t
  obj,                                \* "none", "fence", "deferred", "freed"
  dma,                                \* the DMAFENCE objects
  obj_ref, instance_list, value,      \* vidsch_sync_object_t
  fails,
  creating,                           \* threads past the test of the limit
  st,                                 \* "new", "client", "wait", "render", "hw",
                                      \* "back", "unref", "done"
  context, object, fence_value, context_task_id,
  dropped,                            \* tasks with reset_dropped
  submitted_task_list,                \* per engine
  submitting                          \* id of the render the worker returns from

devVars == <<device, task_dropped, sync_obj_count, fails, creating>>
ctxVars == <<ctx, ctx_ref, task_id, last_submit_to_sw>>
objVars == <<obj, dma, obj_ref, instance_list, value>>
descVars == <<context, object, fence_value, context_task_id>>
runVars == <<st, dropped, submitted_task_list, submitting>>
vars == <<devVars, ctxVars, objVars, descVars, runVars>>

Init ==
  /\ device = "live" /\ task_dropped = FALSE /\ sync_obj_count = 0 /\ fails = 0
  /\ creating = 0
  /\ ctx = [c \in Contexts |-> "live"]
  /\ ctx_ref = [c \in Contexts |-> 0]
  /\ task_id = [c \in Contexts |-> 0]
  /\ last_submit_to_sw = [c \in Contexts |-> 0]
  /\ obj = [o \in Objects |-> "none"] /\ dma = {}
  /\ obj_ref = [o \in Objects |-> 0]
  /\ instance_list = [o \in Objects |-> <<>>]
  /\ value = [o \in Objects |-> 0]
  /\ st = [t \in Tasks |-> "new"]
  /\ context = [t \in Tasks |-> CHOOSE c \in Contexts : TRUE]
  /\ object = [t \in Tasks |-> NoObject]
  /\ fence_value = [t \in Tasks |-> 0]
  /\ context_task_id = [t \in Tasks |-> 0]
  /\ dropped = {}
  /\ submitted_task_list = [c \in Contexts |-> <<>>]
  /\ submitting = [c \in Contexts |-> 0]

FreshObject(o) == obj[o] = "none" /\ \A p \in Objects : obj[p] = "none" => o <= p
FreshTask(t) == st[t] = "new" /\ \A u \in Tasks : st[u] = "new" => t <= u

\* The objects of the device that its client has not destroyed.
Owned == {o \in Objects : obj[o] = "fence"}

-----------------------------------------------------------------------------
(* Sync objects.                                                           *)

\* vidschi_destroy_defer_sync_obj: the deferred objects nobody holds are freed.
DestroyDefer(os) ==
  [o \in Objects |->
     IF os[o] = "deferred" /\ obj_ref[o] = 0 THEN "freed" ELSE os[o]]

\* Plausible bug: one more object passes.
BugLimit == sync_obj_count <= MaxObjects + 1

\* The test of the limit, on a count that is incremented afterwards, in a step of
\* its own.
BelowLimit == sync_obj_count <= MaxObjects

\* vidsch_create_sync_object up to its test of the limit, which takes no lock: the
\* call fails, or the thread is past the test ...
TestLimit ==
  /\ device = "live" /\ creating < Creators
  /\ obj' = DestroyDefer(obj)
  /\ creating' = creating + IF BelowLimit THEN 1 ELSE 0
  /\ UNCHANGED <<device, task_dropped, sync_obj_count, fails, ctxVars, dma, obj_ref,
                 instance_list, value, descVars, runVars>>

\* ... and counts its object.  One that cannot be allocated, or gets no fence space,
\* stays counted.
CreateSyncObject(o) ==
  /\ creating > 0 /\ creating' = creating - 1
  /\ FreshObject(o)
  /\ sync_obj_count' = sync_obj_count + 1
  /\ \/ fails < MaxFails /\ fails' = fails + 1 /\ UNCHANGED obj
     \/ obj' = [obj EXCEPT ![o] = "fence"] /\ UNCHANGED fails
  /\ UNCHANGED <<device, task_dropped, ctxVars, dma, obj_ref, instance_list,
                 value, descVars, runVars>>

\* Plausible bug: a held object is freed at once.
BugFreeHeld(o) == "freed"

\* What vidsch_destroy_sync_object does with an object.
Destroyed(o) == IF obj_ref[o] # 0 THEN "deferred" ELSE "freed"

\* The device's client destroys one of its objects.
DestroySyncObject(o) ==
  /\ obj[o] = "fence"
  /\ sync_obj_count' = sync_obj_count - 1
  /\ obj' = [obj EXCEPT ![o] = Destroyed(o)]
  /\ UNCHANGED <<device, task_dropped, fails, creating, ctxVars, dma, obj_ref,
                 instance_list, value, descVars, runVars>>

\* cm_destroy_device, once its contexts are gone: vidsch_destroy_remained_sync_obj
\* destroys the objects its client left behind.
DestroyDevice ==
  /\ device = "live" /\ \A c \in Contexts : ctx[c] = "freed"
  /\ creating = 0
  /\ device' = "destroyed"
  /\ sync_obj_count' = sync_obj_count - Cardinality(Owned)
  /\ obj' = DestroyDefer([o \in Objects |->
                            IF obj[o] = "fence" THEN Destroyed(o) ELSE obj[o]])
  /\ UNCHANGED <<task_dropped, fails, creating, ctxVars, dma, obj_ref, instance_list, value,
                 descVars, runVars>>

-----------------------------------------------------------------------------
(* Tasks are created.                                                      *)

\* vidschi_can_submit_task
CanSubmit(t) == context_task_id[t] = last_submit_to_sw[context[t]] + 1

\* vidschi_is_fence_sync_object_signaled first moves the fence of a device that
\* dropped a task to the value waited for.  DMA fences are left alone.
ForcedValue(o, v) == IF task_dropped /\ o \notin dma THEN v ELSE value[o]

\* vidsch_wait_sync_object on the client's thread, up to where it waits: the
\* task gets its references and is tried once, in vain, since it has no id yet.
WaitSyncObject(t, c, o, v, how) ==
  /\ FreshTask(t) /\ ctx[c] = "live" /\ obj[o] = "fence"
  /\ ctx_ref' = [ctx_ref EXCEPT ![c] = @ + 1]
  /\ obj_ref' = [obj_ref EXCEPT ![o] = @ + 1]
  /\ instance_list' = [instance_list EXCEPT ![o] = Append(@, t)]
  /\ value' = [value EXCEPT ![o] = ForcedValue(o, v)]
  /\ task_id' = [task_id EXCEPT ![c] = @ + 1]
  /\ st' = [st EXCEPT ![t] = how]
  /\ context' = [context EXCEPT ![t] = c]
  /\ object' = [object EXCEPT ![t] = o]
  /\ fence_value' = [fence_value EXCEPT ![t] = v]
  /\ context_task_id' = [context_task_id EXCEPT ![t] = task_id[c] + 1]
  /\ UNCHANGED <<devVars, ctx, last_submit_to_sw, obj, dma, dropped,
                 submitted_task_list, submitting>>

\* The same call with timeout 0 only reports the status of the object.
CheckStatus(o, v) ==
  /\ obj[o] = "fence" /\ value' = [value EXCEPT ![o] = ForcedValue(o, v)]
  /\ UNCHANGED <<devVars, ctxVars, obj, dma, obj_ref, instance_list, descVars, runVars>>

\* vidsch_render with one sync object to signal, or none.
RenderTask(t, c, o, v) ==
  /\ FreshTask(t) /\ ctx[c] = "live" /\ (o # NoObject => obj[o] = "fence")
  /\ ctx_ref' = [ctx_ref EXCEPT ![c] = @ + 1]
  /\ obj_ref' = [x \in Objects |-> obj_ref[x] + IF x = o THEN 1 ELSE 0]
  /\ task_id' = [task_id EXCEPT ![c] = @ + 1]
  /\ st' = [st EXCEPT ![t] = "render"]
  /\ context' = [context EXCEPT ![t] = c]
  /\ object' = [object EXCEPT ![t] = o]
  /\ fence_value' = [fence_value EXCEPT ![t] = v]
  /\ context_task_id' = [context_task_id EXCEPT ![t] = task_id[c] + 1]
  /\ UNCHANGED <<devVars, ctx, last_submit_to_sw, obj, dma, instance_list, value,
                 dropped, submitted_task_list, submitting>>

\* vidsch_render of a buffer object other drivers use: a DMA fence object d is
\* created for the wait w, deferred at once so that it goes with its last
\* reference, and the two tasks are given their ids in swapped order.
RenderShared(t, w, c, d) ==
  /\ FreshTask(t) /\ w = t + 1 /\ st[w] = "new"
  /\ ctx[c] = "live" /\ FreshObject(d)
  /\ ctx_ref' = [ctx_ref EXCEPT ![c] = @ + 2]
  /\ obj' = [DestroyDefer(obj) EXCEPT ![d] = "deferred"]
  /\ dma' = dma \cup {d}
  /\ obj_ref' = [obj_ref EXCEPT ![d] = 1]
  /\ instance_list' = [instance_list EXCEPT ![d] = <<w>>]
  /\ task_id' = [task_id EXCEPT ![c] = @ + 2]
  /\ st' = [st EXCEPT ![t] = "render", ![w] = "wait"]
  /\ context' = [context EXCEPT ![t] = c, ![w] = c]
  /\ object' = [object EXCEPT ![w] = d]
  /\ fence_value' = [fence_value EXCEPT ![w] = 1]
  /\ context_task_id' = [context_task_id EXCEPT ![t] = task_id[c] + 2,
                                                ![w] = task_id[c] + 1]
  /\ UNCHANGED <<devVars, last_submit_to_sw, value, dropped, submitted_task_list,
                 submitting, ctx>>

-----------------------------------------------------------------------------
(* Tasks go through.                                                       *)

\* The task is freed.
FreeTask(t) ==
  /\ st' = [st EXCEPT ![t] = "done"]
  /\ object' = [object EXCEPT ![t] = NoObject]
  /\ fence_value' = [fence_value EXCEPT ![t] = 0]
  /\ context_task_id' = [context_task_id EXCEPT ![t] = 0]
  /\ UNCHANGED context

\* Plausible bug: the instance stays on the list.
BugKeepInstance(t) ==
  /\ obj_ref' = [obj_ref EXCEPT ![object[t]] = @ - 1]
  /\ UNCHANGED instance_list

InstanceOf(list, t) == CHOOSE i \in DOMAIN list : list[i] = t

\* vidschi_sync_obj_del_reference
DelReference(t) ==
  /\ obj_ref' = [obj_ref EXCEPT ![object[t]] = @ - 1]
  /\ instance_list' =
       [instance_list EXCEPT ![object[t]] = RemoveAt(@, InstanceOf(@, t))]

\* The wait ends: its turn is over, the references are dropped.
EndWait(t) ==
  /\ DelReference(t)
  /\ last_submit_to_sw' = [last_submit_to_sw EXCEPT ![context[t]] = context_task_id[t]]
  /\ ctx_ref' = [ctx_ref EXCEPT ![context[t]] = @ - 1]
  /\ FreeTask(t)
  /\ UNCHANGED <<devVars, ctx, task_id, obj, dma, dropped, submitted_task_list,
                 submitting>>

\* Plausible bug: the waits rely on task_dropped alone.
BugNoTimeout(t) == FALSE

\* vidschi_is_server_wait_timeout only lets the first instance of an object time
\* out; how long that takes is left open.
ServerWaitTimeout(t) == Head(instance_list[object[t]]) = t

\* The worker gets to a wait: vidschi_try_wait, else the timeout.
WorkerWait(t) ==
  LET o == object[t]  v == ForcedValue(o, fence_value[t]) IN
  /\ st[t] = "wait" /\ submitting[context[t]] = 0 /\ CanSubmit(t)
  /\ v >= fence_value[t] \/ ServerWaitTimeout(t)
  /\ value' = [value EXCEPT ![o] = v]
  /\ EndWait(t)

\* vidschi_client_wait: satisfied or timed out, once it is the wait's turn.
ClientWait(t) ==
  /\ st[t] = "client" /\ CanSubmit(t)
  /\ value' = [value EXCEPT ![object[t]] = ForcedValue(object[t], fence_value[t])]
  /\ EndWait(t)

\* vidschi_force_signal_fence_sync_object
ForceSignal(t) ==
  value' = [o \in Objects |->
              IF o = object[t] /\ value[o] < fence_value[t] THEN fence_value[t]
              ELSE value[o]]

\* Plausible bug: the reference is only dropped with a forced signal.
BugReleaseForced(t, force) ==
  IF force THEN /\ ForceSignal(t)
                /\ obj_ref' = [o \in Objects |->
                                 obj_ref[o] - IF o = object[t] THEN 1 ELSE 0]
  ELSE UNCHANGED <<value, obj_ref>>

\* vidschi_deinit_render_sync_object_list
ReleaseObjects(t, force) ==
  /\ IF force THEN ForceSignal(t) ELSE UNCHANGED value
  /\ obj_ref' = [o \in Objects |-> obj_ref[o] - IF o = object[t] THEN 1 ELSE 0]

\* The worker is in vidschi_prepare_and_submit_dma with a render: it reaches the
\* GPU, or it is discarded, which drops its references on the spot.
WorkerSubmit(t) ==
  LET c == context[t] IN
  /\ st[t] = "render" /\ submitting[c] = 0 /\ CanSubmit(t)
  /\ submitting' = [submitting EXCEPT ![c] = context_task_id[t]]
  /\ \/ /\ submitted_task_list' = [submitted_task_list EXCEPT ![c] = Append(@, t)]
        /\ st' = [st EXCEPT ![t] = "hw"]
        /\ UNCHANGED <<task_dropped, value, obj_ref, ctx_ref, descVars>>
     \/ /\ task_dropped' = TRUE
        /\ ReleaseObjects(t, TRUE)
        /\ ctx_ref' = [ctx_ref EXCEPT ![c] = @ - 1]
        /\ FreeTask(t)
        /\ UNCHANGED submitted_task_list
  /\ UNCHANGED <<device, sync_obj_count, fails, creating, ctx, task_id, last_submit_to_sw,
                 obj, dma, instance_list, dropped>>

\* Back in vidschi_try_submit_pending_task it writes to the task's context.
WorkerReturn(c) ==
  /\ submitting[c] # 0
  /\ last_submit_to_sw' = [last_submit_to_sw EXCEPT ![c] = submitting[c]]
  /\ submitting' = [submitting EXCEPT ![c] = 0]
  /\ UNCHANGED <<devVars, ctx, ctx_ref, task_id, objVars, descVars, st, dropped,
                 submitted_task_list>>

\* The GPU (external) finishes the oldest render of an engine.
GpuFinish(t) ==
  LET l == submitted_task_list[context[t]] IN
  /\ st[t] = "hw"
  /\ \A i \in 1..Len(l) : st[l[i]] = "hw" => \E j \in 1..i : l[j] = t
  /\ st' = [st EXCEPT ![t] = "back"]
  /\ value' = [o \in Objects |-> IF o = object[t] THEN fence_value[t] ELSE value[o]]
  /\ UNCHANGED <<devVars, ctxVars, obj, dma, obj_ref, instance_list, descVars,
                 dropped, submitted_task_list, submitting>>

\* The daemon resets a hung engine: its uncompleted renders are dropped, their
\* fences are back.
ResetEngine(c) ==
  LET dead == {t \in Tasks : st[t] = "hw" /\ context[t] = c} IN
  /\ dead # {}
  /\ st' = [t \in Tasks |-> IF t \in dead THEN "back" ELSE st[t]]
  /\ dropped' = dropped \cup dead
  /\ UNCHANGED <<devVars, ctxVars, objVars, descVars, submitted_task_list, submitting>>

\* vidsch_release_completed_tasks takes a task off the list and drops its
\* context under task_list_lock ...
ReleaseTask(c) ==
  LET l == submitted_task_list[c] IN
  /\ l # <<>> /\ st[Head(l)] = "back"
  /\ submitted_task_list' = [submitted_task_list EXCEPT ![c] = Tail(l)]
  /\ ctx_ref' = [ctx_ref EXCEPT ![c] = @ - 1]
  /\ st' = [st EXCEPT ![Head(l)] = "unref"]
  /\ UNCHANGED <<devVars, ctx, task_id, last_submit_to_sw, objVars, descVars,
                 dropped, submitting>>

\* ... and releases the rest without it.
DoReleaseTask(t) ==
  /\ st[t] = "unref"
  /\ ReleaseObjects(t, t \in dropped)
  /\ FreeTask(t)
  /\ dropped' = dropped \ {t}
  /\ UNCHANGED <<devVars, ctxVars, obj, dma, instance_list, submitted_task_list,
                 submitting>>

\* Another driver (external) signals its DMA fence, which wakes the worker.
DmaSignal(d) ==
  /\ d \in dma /\ value[d] = 0
  /\ value' = [value EXCEPT ![d] = 1]
  /\ UNCHANGED <<devVars, ctxVars, obj, dma, obj_ref, instance_list, descVars, runVars>>

-----------------------------------------------------------------------------
(* Contexts are destroyed.                                                 *)

\* cm_destroy_context enters the first loop of cm_wait_context_idle.
DestroyContext(c) ==
  /\ ctx[c] = "live"
  /\ \A t \in Tasks : st[t] = "client" => context[t] # c
  /\ ctx' = [ctx EXCEPT ![c] = "idle_wait"]
  /\ UNCHANGED <<devVars, ctx_ref, task_id, last_submit_to_sw, objVars, descVars,
                 runVars>>

\* context_destroy_timeout polls did not find it idle.
DropTasks(c) ==
  /\ ctx[c] = "idle_wait" /\ ctx_ref[c] # 0
  /\ task_dropped' = TRUE
  /\ ctx' = [ctx EXCEPT ![c] = "drop_wait"]
  /\ UNCHANGED <<device, sync_obj_count, fails, creating, ctx_ref, task_id,
                 last_submit_to_sw, objVars, descVars, runVars>>

\* cm_wait_context_idle returned.
IdleOrGivenUp(c) ==
  \/ ctx[c] \in {"idle_wait", "drop_wait"} /\ ctx_ref[c] = 0
  \/ ctx[c] = "drop_wait" /\ GiveUp

\* The rest of cm_destroy_context.
FreeContext(c) ==
  /\ IdleOrGivenUp(c)
  /\ ctx' = [ctx EXCEPT ![c] = "freed"]
  /\ UNCHANGED <<devVars, ctx_ref, task_id, last_submit_to_sw, objVars, descVars,
                 runVars>>

-----------------------------------------------------------------------------
WorkerStep(t) == WorkerWait(t) \/ WorkerSubmit(t)

Next ==
  \/ \E o \in Objects : CreateSyncObject(o) \/ DestroySyncObject(o) \/ DmaSignal(o)
  \/ TestLimit \/ DestroyDevice
  \/ \E t \in Tasks, c \in Contexts, o \in Objects, v \in 1..MaxFence :
       \/ WaitSyncObject(t, c, o, v, "wait")
       \/ WaitSyncObject(t, c, o, v, "client")
       \/ RenderTask(t, c, o, v)
  \/ \E t \in Tasks, c \in Contexts : RenderTask(t, c, NoObject, 0)
  \/ \E t, w \in Tasks, c \in Contexts, d \in Objects : RenderShared(t, w, c, d)
  \/ \E o \in Objects, v \in 1..MaxFence : CheckStatus(o, v)
  \/ \E t \in Tasks : WorkerStep(t) \/ ClientWait(t) \/ GpuFinish(t) \/ DoReleaseTask(t)
  \/ \E c \in Contexts :
       \/ WorkerReturn(c) \/ ResetEngine(c) \/ ReleaseTask(c)
       \/ DestroyContext(c) \/ DropTasks(c) \/ FreeContext(c)

Spec == Init /\ [][Next]_vars

\* While a context is in the last loop of cm_wait_context_idle, the worker of
\* every engine with pending tasks is woken each 10 ms; nothing else promises
\* that it looks at a task again.  Submissions end, the GPU finishes or the
\* daemon resets it, completed tasks are released, the destroyer keeps polling.
Fairness ==
  /\ \A t \in Tasks :
       /\ WF_vars((\E c \in Contexts : ctx[c] = "drop_wait") /\ WorkerStep(t))
       /\ WF_vars(GpuFinish(t) \/ ResetEngine(context[t]))
       /\ WF_vars(DoReleaseTask(t))
  /\ \A c \in Contexts :
       /\ WF_vars(WorkerReturn(c)) /\ WF_vars(ReleaseTask(c))
       /\ WF_vars(DropTasks(c)) /\ WF_vars(FreeContext(c))

FairSpec == Spec /\ Fairness

-----------------------------------------------------------------------------
(* Properties.                                                             *)

\* The tasks that hold a reference to a context, and to an object.
HoldContext(c) == {t \in Tasks : context[t] = c /\ st[t] \notin {"new", "unref", "done"}}
HoldObject(o) == {t \in Tasks : object[t] = o}

\* ref_cnt of an object, and of a context, is the number of tasks that hold it:
\* no path (satisfied, timed out, discarded, reset) drops a reference twice or
\* keeps one.
RefsAccount ==
  /\ \A c \in Contexts : ctx_ref[c] = Cardinality(HoldContext(c))
  /\ \A o \in Objects : obj_ref[o] = Cardinality(HoldObject(o))

\* An object's instance_list names the waits that hold it, each once: the list
\* the order of timeouts is taken from never keeps an instance of a freed task.
InstancesAccount ==
  \A o \in Objects :
    /\ Range(instance_list[o]) = {t \in HoldObject(o) : st[t] \in {"wait", "client"}}
    /\ IsInjective(instance_list[o])

\* What a task holds is not freed: neither its object, destroyed by the client
\* or with the device, nor its context.
HeldIsAlive ==
  \A t \in Tasks :
    /\ object[t] # NoObject => obj[object[t]] \in {"fence", "deferred"}
    /\ t \in HoldContext(context[t]) => ctx[context[t]] # "freed"

\* The limit of objects per device is passed by no more objects, owned by the client
\* or lost in a failed creation, than threads can be past the test at the same time:
\* the test takes no lock, the count is incremented afterwards.
LimitHolds == Cardinality(Owned) + fails <= MaxObjects + Creators

\* cm_destroy_context returns: task_dropped gets every wait of the context
\* through, in order, whatever became of what it waits for.
DestroyReturns == \A c \in Contexts : (ctx[c] = "idle_wait") ~> (ctx[c] = "freed")

\* The context a worker is about to write to, after vidschi_prepare_and_submit_dma,
\* still exists.
WorkerContextExists ==
  \A c \in Contexts : submitting[c] # 0 => ctx[c] # "freed"

-----------------------------------------------------------------------------
(* The inductive invariants of SyncObjectProofs.                           *)

\* The types of what is counted.
RefTypeOK ==
  /\ ctx \in [Contexts -> {"live", "idle_wait", "drop_wait", "freed"}]
  /\ ctx_ref \in [Contexts -> Nat]
  /\ obj \in [Objects -> {"none", "fence", "deferred", "freed"}]
  /\ obj_ref \in [Objects -> Nat]
  /\ st \in [Tasks -> {"new", "client", "wait", "render", "hw", "back", "unref", "done"}]
  /\ context \in [Tasks -> Contexts] /\ object \in [Tasks -> Objects \cup {NoObject}]
  /\ submitted_task_list \in [Contexts -> Seq(Tasks)]

\* Only a task between its creation and its end holds an object, a wait always
\* does, and the tasks on an engine's list are of its context.
HoldersInv ==
  /\ \A t \in Tasks : /\ st[t] \in {"new", "done"} => object[t] = NoObject
                      /\ st[t] \in {"wait", "client"} => object[t] # NoObject
  /\ \A c \in Contexts : \A i \in 1..Len(submitted_task_list[c]) :
       /\ context[submitted_task_list[c][i]] = c
       /\ st[submitted_task_list[c][i]] # "new"

RefInv == RefTypeOK /\ HoldersInv /\ RefsAccount /\ HeldIsAlive

\* The count is that of the client's objects and of the failed creations.
LimitInv ==
  /\ obj \in [Objects -> {"none", "fence", "deferred", "freed"}]
  /\ fails \in Nat /\ sync_obj_count \in Nat /\ creating \in 0..Creators
  /\ sync_obj_count = Cardinality(Owned) + fails
  /\ sync_obj_count + creating <= MaxObjects + Creators

-----------------------------------------------------------------------------
(* The inductive invariant behind InstancesAccount.                        *)

\* A wait has an object, an object is created before it is held.
WaitersOK ==
  \A t \in Tasks : /\ st[t] \in {"wait", "client"} => object[t] \in Objects
                   /\ object[t] \in Objects => obj[object[t]] # "none"

InstancesInv ==
  /\ instance_list \in [Objects -> Seq(Tasks)]
  /\ st \in [Tasks -> {"new", "client", "wait", "render", "hw", "back", "unref", "done"}]
  /\ object \in [Tasks -> Objects \cup {NoObject}]
  /\ obj \in [Objects -> {"none", "fence", "deferred", "freed"}]
  /\ WaitersOK /\ InstancesAccount
=============================================================================
