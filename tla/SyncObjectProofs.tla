-------------------------- MODULE SyncObjectProofs --------------------------
(***************************************************************************)
(* Reference counts of contexts and sync objects, for any contexts and any *)
(* number of objects and tasks: a count is the number of tasks that hold   *)
(* the object, and unless cm_wait_context_idle gives up nothing a task     *)
(* holds is freed.  The per-device limit of objects is kept as well, and   *)
(* the lists of waits are right, also when it gives up.                    *)
(***************************************************************************)
EXTENDS SyncObject, FiniteSetTheorems, SequenceTheorems, TLAPS

LEMMA TasksFinite == IsFiniteSet(Tasks) /\ IsFiniteSet(Objects)
  BY FS_Interval, SyncAssumption DEF Tasks, Objects

LEMMA CardAdd ==
  ASSUME NEW A \in SUBSET Tasks, NEW x \in Tasks, x \notin A
  PROVE  Cardinality(A \cup {x}) = Cardinality(A) + 1
  BY FS_Subset, FS_AddElement, TasksFinite

LEMMA CardDel ==
  ASSUME NEW A \in SUBSET Tasks, NEW x \in A
  PROVE  Cardinality(A \ {x}) = Cardinality(A) - 1
  BY FS_Subset, FS_RemoveElement, TasksFinite

LEMMA CardType ==
  \A A \in SUBSET Tasks : Cardinality(A) \in Nat /\ (Cardinality(A) = 0 <=> A = {})
  BY FS_Subset, FS_CardinalityType, FS_EmptySet, TasksFinite

LEMMA HoldSets ==
  /\ \A c \in Contexts : HoldContext(c) \in SUBSET Tasks
  /\ \A o \in Objects : HoldObject(o) \in SUBSET Tasks
  BY DEF HoldContext, HoldObject

LEMMA NoObjectType == NoObject \notin Objects
  BY DEF NoObject, Objects

\* What is held is counted.
LEMMA HeldCounted ==
  ASSUME RefInv
  PROVE  /\ \A t \in Tasks : object[t] # NoObject =>
              object[t] \in Objects /\ obj_ref[object[t]] # 0
         /\ \A t \in Tasks : t \in HoldContext(context[t]) => ctx_ref[context[t]] # 0
<1>1. ASSUME NEW t \in Tasks, object[t] # NoObject
      PROVE  object[t] \in Objects /\ obj_ref[object[t]] # 0
  <2>1. object[t] \in Objects /\ t \in HoldObject(object[t])
    BY <1>1 DEF RefInv, RefTypeOK, HoldObject
  <2>2. QED BY <2>1, CardType, HoldSets DEF RefInv, RefsAccount
<1>2. ASSUME NEW t \in Tasks, t \in HoldContext(context[t])
      PROVE  ctx_ref[context[t]] # 0
  <2>1. context[t] \in Contexts
    BY DEF RefInv, RefTypeOK
  <2>2. QED BY <1>2, <2>1, CardType, HoldSets DEF RefInv, RefsAccount
<1>3. QED BY <1>1, <1>2

LEMMA InitRef == Init => RefInv
<1> SUFFICES ASSUME Init PROVE RefInv
  OBVIOUS
<1>1. RefTypeOK
  <2>1. (CHOOSE c \in Contexts : TRUE) \in Contexts
    BY SyncAssumption
  <2>2. QED BY <2>1 DEF Init, RefTypeOK
<1>2. HoldersInv
  BY DEF Init, HoldersInv
<1>3. RefsAccount
  <2>1. \A c \in Contexts : HoldContext(c) = {}
    BY DEF Init, HoldContext
  <2>2. \A o \in Objects : HoldObject(o) = {}
    BY NoObjectType DEF Init, HoldObject
  <2>3. QED BY <2>1, <2>2, FS_EmptySet DEF Init, RefsAccount
<1>4. HeldIsAlive
  BY DEF Init, HeldIsAlive, HoldContext
<1>5. QED BY <1>1, <1>2, <1>3, <1>4 DEF RefInv

\* Steps of objects: an object that is held stays.
LEMMA ObjectsRef ==
  ASSUME RefInv, obj' \in [Objects -> {"none", "fence", "deferred", "freed"}],
         \A o \in Objects : obj_ref[o] # 0 /\ obj[o] \in {"fence", "deferred"} =>
                              obj'[o] \in {"fence", "deferred"},
         UNCHANGED <<ctx, ctx_ref, obj_ref, st, context, object, submitted_task_list>>
  PROVE  RefInv'
<1>1. RefTypeOK' /\ HoldersInv' /\ RefsAccount'
  BY DEF RefInv, RefTypeOK, HoldersInv, RefsAccount, HoldContext, HoldObject
<1>2. HeldIsAlive'
  BY HeldCounted DEF RefInv, HeldIsAlive, HoldContext
<1>3. QED BY <1>1, <1>2 DEF RefInv

\* Steps of contexts: a context that is held is not freed.
LEMMA ContextsRef ==
  ASSUME RefInv, ctx' \in [Contexts -> {"live", "idle_wait", "drop_wait", "freed"}],
         \A c \in Contexts : ctx_ref[c] # 0 /\ ctx[c] # "freed" => ctx'[c] # "freed",
         UNCHANGED <<obj, ctx_ref, obj_ref, st, context, object, submitted_task_list>>
  PROVE  RefInv'
<1>1. RefTypeOK' /\ HoldersInv' /\ RefsAccount'
  BY DEF RefInv, RefTypeOK, HoldersInv, RefsAccount, HoldContext, HoldObject
<1>2. HeldIsAlive'
  <2>1. ASSUME NEW t \in Tasks, t \in HoldContext(context[t])
        PROVE  ctx'[context[t]] # "freed"
    BY <2>1, HeldCounted DEF RefInv, HeldIsAlive, RefTypeOK
  <2>2. QED BY <2>1 DEF RefInv, HeldIsAlive, HoldContext
<1>3. QED BY <1>1, <1>2 DEF RefInv

\* A task takes its references.
LEMMA TakeRef ==
  ASSUME RefInv, NEW t \in Tasks, NEW c \in Contexts, NEW o \in Objects \cup {NoObject},
         NEW s \in {"client", "wait", "render"},
         st[t] = "new", ctx[c] # "freed",
         o # NoObject => obj[o] \in {"fence", "deferred"},
         s # "render" => o # NoObject,
         st' = [st EXCEPT ![t] = s], context' = [context EXCEPT ![t] = c],
         object' = [object EXCEPT ![t] = o],
         ctx_ref' = [ctx_ref EXCEPT ![c] = @ + 1],
         obj_ref' = [x \in Objects |-> obj_ref[x] + IF x = o THEN 1 ELSE 0],
         UNCHANGED <<ctx, obj, submitted_task_list>>
  PROVE  RefInv'
<1> USE DEF RefInv
<1>1. RefTypeOK'
  BY DEF RefTypeOK
<1>2. HoldersInv'
  <2>1. /\ st' \in [Tasks -> {"new", "client", "wait", "render", "hw", "back", "unref", "done"}]
        /\ st'[t] = s /\ object'[t] = o /\ context'[t] = c
        /\ \A u \in Tasks : u # t => /\ st'[u] = st[u] /\ object'[u] = object[u]
                                     /\ context'[u] = context[u]
    BY DEF RefTypeOK
  <2>2. \A u \in Tasks : /\ st'[u] \in {"new", "done"} => object'[u] = NoObject
                         /\ st'[u] \in {"wait", "client"} => object'[u] # NoObject
    BY <2>1 DEF HoldersInv
  <2>3. ASSUME NEW d \in Contexts, NEW i \in 1..Len(submitted_task_list[d])
        PROVE  /\ context'[submitted_task_list[d][i]] = d
               /\ st'[submitted_task_list[d][i]] # "new"
    <3>1. /\ submitted_task_list[d][i] \in Tasks
          /\ context[submitted_task_list[d][i]] = d /\ st[submitted_task_list[d][i]] # "new"
      BY DEF RefTypeOK, HoldersInv
    <3>2. QED BY <2>1, <3>1
  <2>4. QED BY <2>2, <2>3 DEF HoldersInv
<1>3. object[t] = NoObject
  BY DEF HoldersInv
<1>4. \A d \in Contexts : ctx_ref'[d] = Cardinality(HoldContext(d)')
  <2> SUFFICES ASSUME NEW d \in Contexts PROVE ctx_ref'[d] = Cardinality(HoldContext(d)')
    OBVIOUS
  <2>1. CASE d = c
    <3>1. t \notin HoldContext(d) /\ HoldContext(d)' = HoldContext(d) \cup {t}
      BY <2>1 DEF HoldContext, RefTypeOK
    <3>2. Cardinality(HoldContext(d)') = Cardinality(HoldContext(d)) + 1
      BY <3>1, CardAdd, HoldSets
    <3>3. ctx_ref'[d] = ctx_ref[d] + 1
      BY <2>1 DEF RefTypeOK
    <3>4. QED BY <3>2, <3>3 DEF RefsAccount
  <2>2. CASE d # c
    <3>1. HoldContext(d)' = HoldContext(d)
      BY <2>2 DEF HoldContext, RefTypeOK
    <3>2. QED BY <2>2, <3>1 DEF RefsAccount, RefTypeOK
  <2>3. QED BY <2>1, <2>2
<1>5. \A x \in Objects : obj_ref'[x] = Cardinality(HoldObject(x)')
  <2> SUFFICES ASSUME NEW x \in Objects PROVE obj_ref'[x] = Cardinality(HoldObject(x)')
    OBVIOUS
  <2>1. CASE x = o
    <3>1. t \notin HoldObject(x) /\ HoldObject(x)' = HoldObject(x) \cup {t}
      BY <1>3, <2>1, NoObjectType DEF HoldObject, RefTypeOK
    <3>2. Cardinality(HoldObject(x)') = Cardinality(HoldObject(x)) + 1
      BY <3>1, CardAdd, HoldSets
    <3>3. obj_ref'[x] = obj_ref[x] + 1
      BY <2>1
    <3>4. QED BY <3>2, <3>3 DEF RefsAccount
  <2>2. CASE x # o
    <3>1. HoldObject(x)' = HoldObject(x)
      BY <1>3, <2>2, NoObjectType DEF HoldObject, RefTypeOK
    <3>2. QED BY <2>2, <3>1 DEF RefsAccount, RefTypeOK
  <2>3. QED BY <2>1, <2>2
<1>6. HeldIsAlive'
  BY DEF HeldIsAlive, HoldContext, RefTypeOK
<1>7. QED BY <1>1, <1>2, <1>4, <1>5, <1>6 DEF RefsAccount

\* A task drops its context, its objects, or both.
LEMMA DropRef ==
  ASSUME RefInv, NEW t \in Tasks, NEW s \in {"unref", "done"}, st[t] # "new",
         st' = [st EXCEPT ![t] = s],
         object' \in {object, [object EXCEPT ![t] = NoObject]},
         s = "done" => object'[t] = NoObject,
         \A c \in Contexts :
           ctx_ref'[c] = IF t \in HoldContext(c) THEN ctx_ref[c] - 1 ELSE ctx_ref[c],
         \A o \in Objects :
           obj_ref'[o] = IF object[t] = o /\ object'[t] # o THEN obj_ref[o] - 1
                         ELSE obj_ref[o],
         ctx_ref' = [c \in Contexts |-> ctx_ref'[c]],
         obj_ref' = [o \in Objects |-> obj_ref'[o]],
         submitted_task_list' \in [Contexts -> Seq(Tasks)],
         \A c \in Contexts : \A i \in 1..Len(submitted_task_list'[c]) :
           /\ context[submitted_task_list'[c][i]] = c
           /\ st[submitted_task_list'[c][i]] # "new",
         UNCHANGED <<ctx, obj, context>>
  PROVE  RefInv'
<1> USE DEF RefInv
<1>1. /\ st' \in [Tasks -> {"new", "client", "wait", "render", "hw", "back", "unref",
                            "done"}]
      /\ object' \in [Tasks -> Objects \cup {NoObject}]
      /\ \A u \in Tasks : u # t => st'[u] = st[u] /\ object'[u] = object[u]
      /\ st'[t] = s /\ object'[t] \in {object[t], NoObject}
  <2>1. /\ st' \in [Tasks -> {"new", "client", "wait", "render", "hw", "back", "unref",
                              "done"}]
        /\ st'[t] = s /\ \A u \in Tasks : u # t => st'[u] = st[u]
    BY DEF RefTypeOK
  <2>2. CASE object' = object
    BY <2>1, <2>2 DEF RefTypeOK
  <2>3. CASE object' = [object EXCEPT ![t] = NoObject]
    BY <2>1, <2>3 DEF RefTypeOK
  <2>4. QED BY <2>2, <2>3
<1>2. HoldersInv'
  <2>1. \A u \in Tasks : /\ st'[u] \in {"new", "done"} => object'[u] = NoObject
                         /\ st'[u] \in {"wait", "client"} => object'[u] # NoObject
    BY <1>1 DEF HoldersInv
  <2>2. \A c \in Contexts : \A i \in 1..Len(submitted_task_list'[c]) :
          submitted_task_list'[c][i] \in Tasks
    OBVIOUS
  <2>3. \A u \in Tasks : st[u] # "new" => st'[u] # "new"
    BY <1>1
  <2>4. QED BY <2>1, <2>2, <2>3 DEF HoldersInv
<1>3. ASSUME NEW c \in Contexts
      PROVE  ctx_ref'[c] = Cardinality(HoldContext(c)') /\ ctx_ref'[c] \in Nat
  <2>1. HoldContext(c)' = HoldContext(c) \ {t}
    BY <1>1 DEF HoldContext
  <2>2. CASE t \in HoldContext(c)
    <3>1. Cardinality(HoldContext(c)') = Cardinality(HoldContext(c)) - 1
      BY <2>1, <2>2, CardDel, HoldSets
    <3>2. ctx_ref'[c] = ctx_ref[c] - 1
      BY <2>2
    <3>3. Cardinality(HoldContext(c)') \in Nat
      BY <2>1, CardType, HoldSets
    <3>4. QED BY <3>1, <3>2, <3>3 DEF RefsAccount
  <2>3. CASE t \notin HoldContext(c)
    <3>1. HoldContext(c)' = HoldContext(c)
      BY <2>1, <2>3
    <3>2. QED BY <2>3, <3>1 DEF RefsAccount, RefTypeOK
  <2>4. QED BY <2>2, <2>3
<1>4. ASSUME NEW o \in Objects
      PROVE  obj_ref'[o] = Cardinality(HoldObject(o)') /\ obj_ref'[o] \in Nat
  <2>1. CASE object[t] = o /\ object'[t] # o
    <3>1. t \in HoldObject(o) /\ HoldObject(o)' = HoldObject(o) \ {t}
      BY <1>1, <2>1 DEF HoldObject
    <3>2. Cardinality(HoldObject(o)') = Cardinality(HoldObject(o)) - 1
      BY <3>1, CardDel, HoldSets
    <3>3. obj_ref'[o] = obj_ref[o] - 1
      BY <2>1
    <3>4. Cardinality(HoldObject(o)') \in Nat
      BY <3>1, CardType, HoldSets
    <3>5. QED BY <3>2, <3>3, <3>4 DEF RefsAccount
  <2>2. CASE ~(object[t] = o /\ object'[t] # o)
    <3>1. HoldObject(o)' = HoldObject(o)
      BY <1>1, <2>2, NoObjectType DEF HoldObject
    <3>2. QED BY <2>2, <3>1 DEF RefsAccount, RefTypeOK
  <2>3. QED BY <2>1, <2>2
<1>5. ctx_ref' \in [Contexts -> Nat] /\ obj_ref' \in [Objects -> Nat]
  BY <1>3, <1>4
<1>6. RefTypeOK'
  BY <1>1, <1>5 DEF RefTypeOK
<1>7. HeldIsAlive'
  BY <1>1 DEF HeldIsAlive, HoldContext, RefTypeOK
<1>8. QED BY <1>2, <1>3, <1>4, <1>6, <1>7 DEF RefsAccount

\* A task moves on and keeps what it holds.
LEMMA KeepRef ==
  ASSUME RefInv,
         st' \in [Tasks -> {"new", "client", "wait", "render", "hw", "back", "unref",
                            "done"}],
         \A t \in Tasks : st'[t] = st[t]
                            \/ (st[t] \in {"render", "hw"} /\ st'[t] \in {"hw", "back"}),
         submitted_task_list' \in [Contexts -> Seq(Tasks)],
         \A c \in Contexts : \A i \in 1..Len(submitted_task_list'[c]) :
           /\ context[submitted_task_list'[c][i]] = c
           /\ st[submitted_task_list'[c][i]] # "new",
         UNCHANGED <<ctx, ctx_ref, obj, obj_ref, context, object>>
  PROVE  RefInv'
<1> USE DEF RefInv
<1>1. \A c \in Contexts : HoldContext(c)' = HoldContext(c)
  BY DEF HoldContext
<1>2. \A o \in Objects : HoldObject(o)' = HoldObject(o)
  BY DEF HoldObject
<1>3. RefTypeOK' /\ RefsAccount'
  BY <1>1, <1>2 DEF RefTypeOK, RefsAccount
<1>4. HoldersInv'
  <2>1. \A t \in Tasks : /\ st'[t] \in {"new", "done"} => st[t] = st'[t]
                         /\ st'[t] \in {"wait", "client"} => st[t] = st'[t]
                         /\ st[t] # "new" => st'[t] # "new"
    OBVIOUS
  <2>2. \A c \in Contexts : \A i \in 1..Len(submitted_task_list'[c]) :
          submitted_task_list'[c][i] \in Tasks
    OBVIOUS
  <2>3. QED BY <2>1, <2>2 DEF HoldersInv
<1>5. HeldIsAlive'
  BY <1>1 DEF HeldIsAlive, RefTypeOK
<1>6. QED BY <1>3, <1>4, <1>5

LEMMA CreateRef ==
  ASSUME RefInv, TestLimit \/ \E o \in Objects : CreateSyncObject(o) PROVE RefInv'
<1>1. DestroyDefer(obj) \in [Objects -> {"none", "fence", "deferred", "freed"}]
  BY DEF RefInv, RefTypeOK, DestroyDefer
<1>2. \A x \in Objects : obj_ref[x] # 0 => DestroyDefer(obj)[x] = obj[x]
  BY DEF DestroyDefer
<1>3. \/ obj' \in {obj, DestroyDefer(obj)}
      \/ \E o \in Objects : obj' = [obj EXCEPT ![o] = "fence"]
  BY DEF TestLimit, CreateSyncObject
<1>4. /\ obj' \in [Objects -> {"none", "fence", "deferred", "freed"}]
      /\ \A x \in Objects : obj_ref[x] # 0 /\ obj[x] \in {"fence", "deferred"} =>
                              obj'[x] \in {"fence", "deferred"}
  BY <1>1, <1>2, <1>3 DEF RefInv, RefTypeOK
<1>5. QED
  BY <1>4, ObjectsRef DEF TestLimit, CreateSyncObject, ctxVars, descVars, runVars

LEMMA DestroyRef ==
  ASSUME RefInv, NEW o \in Objects, DestroySyncObject(o) PROVE RefInv'
<1>1. /\ obj' \in [Objects -> {"none", "fence", "deferred", "freed"}]
      /\ \A x \in Objects : obj_ref[x] # 0 /\ obj[x] \in {"fence", "deferred"} =>
                              obj'[x] \in {"fence", "deferred"}
  BY DEF DestroySyncObject, Destroyed, RefInv, RefTypeOK
<1>2. QED BY <1>1, ObjectsRef DEF DestroySyncObject, ctxVars, descVars, runVars

LEMMA DestroyDeviceRef == ASSUME RefInv, DestroyDevice PROVE RefInv'
<1>1. /\ obj' \in [Objects -> {"none", "fence", "deferred", "freed"}]
      /\ \A x \in Objects : obj_ref[x] # 0 /\ obj[x] \in {"fence", "deferred"} =>
                              obj'[x] \in {"fence", "deferred"}
  BY DEF DestroyDevice, DestroyDefer, Destroyed, RefInv, RefTypeOK
<1>2. QED BY <1>1, ObjectsRef DEF DestroyDevice, ctxVars, descVars, runVars

LEMMA WaitRef ==
  ASSUME RefInv, NEW t \in Tasks, NEW c \in Contexts, NEW o \in Objects, NEW v,
         NEW how \in {"wait", "client"}, WaitSyncObject(t, c, o, v, how)
  PROVE  RefInv'
<1>1. obj_ref' = [x \in Objects |-> obj_ref[x] + IF x = o THEN 1 ELSE 0]
  <2>1. obj_ref \in [Objects -> Nat] /\ obj_ref' = [obj_ref EXCEPT ![o] = obj_ref[o] + 1]
    BY DEF WaitSyncObject, RefInv, RefTypeOK
  <2>2. \A x \in Objects : obj_ref'[x] = obj_ref[x] + IF x = o THEN 1 ELSE 0
    BY <2>1
  <2>3. obj_ref' = [x \in Objects |-> obj_ref'[x]]
    BY <2>1
  <2>4. QED BY <2>2, <2>3
<1>2. /\ st[t] = "new" /\ ctx[c] # "freed" /\ obj[o] \in {"fence", "deferred"}
      /\ st' = [st EXCEPT ![t] = how] /\ context' = [context EXCEPT ![t] = c]
      /\ object' = [object EXCEPT ![t] = o]
      /\ ctx_ref' = [ctx_ref EXCEPT ![c] = @ + 1]
      /\ UNCHANGED <<ctx, obj, submitted_task_list>>
  BY DEF WaitSyncObject, FreshTask
<1>3. o # NoObject /\ how \in {"client", "wait", "render"}
  BY NoObjectType
<1>4. QED BY <1>1, <1>2, <1>3, TakeRef

LEMMA RenderRef ==
  ASSUME RefInv, NEW t \in Tasks, NEW c \in Contexts, NEW o \in Objects \cup {NoObject},
         NEW v, RenderTask(t, c, o, v)
  PROVE  RefInv'
<1>1. /\ st[t] = "new" /\ ctx[c] # "freed"
      /\ o # NoObject => obj[o] \in {"fence", "deferred"}
      /\ st' = [st EXCEPT ![t] = "render"] /\ context' = [context EXCEPT ![t] = c]
      /\ object' = [object EXCEPT ![t] = o]
      /\ ctx_ref' = [ctx_ref EXCEPT ![c] = @ + 1]
      /\ obj_ref' = [x \in Objects |-> obj_ref[x] + IF x = o THEN 1 ELSE 0]
      /\ UNCHANGED <<ctx, obj, submitted_task_list>>
  BY DEF RenderTask, FreshTask
<1>2. QED BY <1>1, TakeRef

\* The two tasks of a shared buffer: the render holds the context, the wait the
\* context and the new DMA fence object.
LEMMA RenderSharedRef ==
  ASSUME RefInv, NEW t \in Tasks, NEW w \in Tasks, NEW c \in Contexts,
         NEW d \in Objects, RenderShared(t, w, c, d)
  PROVE  RefInv'
<1> USE DEF RefInv
<1>1. /\ st[t] = "new" /\ st[w] = "new" /\ w # t /\ ctx[c] = "live" /\ obj[d] = "none"
      /\ ctx_ref' = [ctx_ref EXCEPT ![c] = @ + 2]
      /\ obj' = [DestroyDefer(obj) EXCEPT ![d] = "deferred"]
      /\ obj_ref' = [obj_ref EXCEPT ![d] = 1]
      /\ st' = [st EXCEPT ![t] = "render", ![w] = "wait"]
      /\ context' = [context EXCEPT ![t] = c, ![w] = c]
      /\ object' = [object EXCEPT ![w] = d]
      /\ UNCHANGED <<ctx, submitted_task_list>>
  BY DEF RenderShared, FreshTask, FreshObject, Tasks
<1>2. object[t] = NoObject /\ object[w] = NoObject
  BY <1>1 DEF HoldersInv
<1>3. /\ \A u \in Tasks : u # t /\ u # w => st'[u] = st[u] /\ context'[u] = context[u]
      /\ \A u \in Tasks : u # w => object'[u] = object[u]
      /\ st'[t] = "render" /\ st'[w] = "wait" /\ context'[t] = c /\ context'[w] = c
      /\ object'[w] = d
  BY <1>1 DEF RefTypeOK
<1>4. HoldObject(d) = {} /\ \A x \in Objects : obj_ref[x] # 0 => DestroyDefer(obj)[x] = obj[x]
  <2>1. HoldObject(d) = {}
    BY <1>1, NoObjectType DEF HeldIsAlive, HoldObject
  <2>2. QED BY <2>1 DEF DestroyDefer
<1>5. RefTypeOK'
  <2>1. DestroyDefer(obj) \in [Objects -> {"none", "fence", "deferred", "freed"}]
    BY DEF RefTypeOK, DestroyDefer
  <2>2. obj' \in [Objects -> {"none", "fence", "deferred", "freed"}]
    BY <1>1, <2>1
  <2>3. ctx_ref' \in [Contexts -> Nat] /\ obj_ref' \in [Objects -> Nat]
    BY <1>1 DEF RefTypeOK
  <2>4. QED BY <1>1, <2>2, <2>3 DEF RefTypeOK
<1>6. HoldersInv'
  <2>1. \A u \in Tasks : /\ st'[u] \in {"new", "done"} => object'[u] = NoObject
                         /\ st'[u] \in {"wait", "client"} => object'[u] # NoObject
    BY <1>2, <1>3, NoObjectType DEF HoldersInv
  <2>2. \A e \in Contexts : \A i \in 1..Len(submitted_task_list[e]) :
          submitted_task_list[e][i] \in Tasks
    BY DEF RefTypeOK
  <2>3. ASSUME NEW e \in Contexts, NEW i \in 1..Len(submitted_task_list[e])
        PROVE  /\ context'[submitted_task_list[e][i]] = e
               /\ st'[submitted_task_list[e][i]] # "new"
    <3> DEFINE u == submitted_task_list[e][i]
    <3>1. u \in Tasks /\ context[u] = e /\ st[u] # "new"
      BY <2>2 DEF HoldersInv
    <3>2. u # t /\ u # w
      BY <1>1, <3>1
    <3>3. st'[u] = st[u] /\ context'[u] = context[u]
      BY <1>3, <3>1, <3>2
    <3>4. QED BY <3>1, <3>3
  <2>4. submitted_task_list' = submitted_task_list
    BY <1>1
  <2>5. QED BY <2>1, <2>3, <2>4 DEF HoldersInv
<1>7. ASSUME NEW e \in Contexts PROVE ctx_ref'[e] = Cardinality(HoldContext(e)')
  <2>1. CASE e = c
    <3>1. /\ t \notin HoldContext(e) /\ w \notin HoldContext(e)
          /\ HoldContext(e)' = (HoldContext(e) \cup {t}) \cup {w}
      BY <1>1, <1>3, <2>1 DEF HoldContext
    <3>2. /\ HoldContext(e) \cup {t} \in SUBSET Tasks /\ w \notin HoldContext(e) \cup {t}
      BY <1>1, <3>1, HoldSets
    <3>3. /\ Cardinality(HoldContext(e) \cup {t}) = Cardinality(HoldContext(e)) + 1
          /\ Cardinality(HoldContext(e)') = Cardinality(HoldContext(e) \cup {t}) + 1
      BY <3>1, <3>2, CardAdd, HoldSets
    <3>4. ctx_ref'[e] = ctx_ref[e] + 2 /\ ctx_ref[e] \in Nat
      BY <1>1, <2>1 DEF RefTypeOK
    <3>5. QED BY <3>3, <3>4 DEF RefsAccount
  <2>2. CASE e # c
    <3>1. HoldContext(e)' = HoldContext(e)
      BY <1>1, <1>3, <2>2 DEF HoldContext
    <3>2. QED BY <1>1, <2>2, <3>1 DEF RefsAccount, RefTypeOK
  <2>3. QED BY <2>1, <2>2
<1>8. ASSUME NEW x \in Objects PROVE obj_ref'[x] = Cardinality(HoldObject(x)')
  <2>1. CASE x = d
    <3>1. HoldObject(x)' = {w}
      BY <1>3, <1>4, <2>1 DEF HoldObject
    <3>2. QED BY <1>1, <2>1, <3>1, FS_Singleton DEF RefTypeOK
  <2>2. CASE x # d
    <3>1. HoldObject(x)' = HoldObject(x)
      BY <1>2, <1>3, <2>2, NoObjectType DEF HoldObject
    <3>2. QED BY <1>1, <2>2, <3>1 DEF RefsAccount, RefTypeOK
  <2>3. QED BY <2>1, <2>2
<1>9. HeldIsAlive'
  <2>1. ASSUME NEW u \in Tasks, object'[u] # NoObject
        PROVE  obj'[object'[u]] \in {"fence", "deferred"}
    <3>1. CASE u = w
      BY <1>1, <1>3, <3>1 DEF RefTypeOK, DestroyDefer
    <3>2. CASE u # w
      <4>1. object'[u] = object[u] /\ object[u] # d /\ obj[object[u]] \in {"fence", "deferred"}
        BY <1>1, <1>3, <2>1, <3>2 DEF HeldIsAlive
      <4>2. object[u] \in Objects /\ obj_ref[object[u]] # 0
        BY <2>1, <4>1, HeldCounted
      <4>3. obj'[object[u]] = obj[object[u]]
        BY <1>1, <1>4, <4>1, <4>2 DEF DestroyDefer
      <4>4. QED BY <4>1, <4>3
    <3>3. QED BY <3>1, <3>2
  <2>2. ASSUME NEW u \in Tasks, u \in HoldContext(context[u])'
        PROVE  ctx'[context'[u]] # "freed"
    <3>1. CASE u = t \/ u = w
      BY <1>1, <1>3, <3>1
    <3>2. CASE u # t /\ u # w
      <4>1. st'[u] = st[u] /\ context'[u] = context[u]
        BY <1>3, <3>2
      <4>2. u \in HoldContext(context[u])
        BY <2>2, <4>1 DEF HoldContext
      <4>3. ctx[context[u]] # "freed"
        BY <4>2 DEF HeldIsAlive
      <4>4. QED BY <1>1, <4>1, <4>3
    <3>3. QED BY <3>1, <3>2
  <2>3. QED BY <2>1, <2>2 DEF HeldIsAlive
<1>10. QED BY <1>5, <1>6, <1>7, <1>8, <1>9 DEF RefsAccount

\* A wait that ends holds its object and its context.
LEMMA EndWaitRef ==
  ASSUME RefInv, NEW t \in Tasks, st[t] \in {"wait", "client"}, EndWait(t)
  PROVE  RefInv'
<1> USE DEF RefInv
<1>1. /\ st' = [st EXCEPT ![t] = "done"] /\ object' = [object EXCEPT ![t] = NoObject]
      /\ obj_ref' = [obj_ref EXCEPT ![object[t]] = @ - 1]
      /\ ctx_ref' = [ctx_ref EXCEPT ![context[t]] = @ - 1]
      /\ UNCHANGED <<ctx, obj, context, submitted_task_list>>
  BY DEF EndWait, FreeTask, DelReference
<1>2. /\ object[t] \in Objects /\ object'[t] = NoObject
      /\ \A c \in Contexts : t \in HoldContext(c) <=> c = context[t]
  BY <1>1 DEF HoldersInv, RefTypeOK, HoldContext
<1>3. \A c \in Contexts :
        ctx_ref'[c] = IF t \in HoldContext(c) THEN ctx_ref[c] - 1 ELSE ctx_ref[c]
  BY <1>1, <1>2 DEF RefTypeOK
<1>4. \A o \in Objects :
        obj_ref'[o] = IF object[t] = o /\ object'[t] # o THEN obj_ref[o] - 1
                      ELSE obj_ref[o]
  BY <1>1, <1>2, NoObjectType DEF RefTypeOK
<1>5. /\ ctx_ref' = [c \in Contexts |-> ctx_ref'[c]]
      /\ obj_ref' = [o \in Objects |-> obj_ref'[o]]
  BY <1>1 DEF RefTypeOK
<1>6. /\ submitted_task_list' \in [Contexts -> Seq(Tasks)]
      /\ \A c \in Contexts : \A i \in 1..Len(submitted_task_list'[c]) :
           /\ context[submitted_task_list'[c][i]] = c
           /\ st[submitted_task_list'[c][i]] # "new"
  BY <1>1 DEF RefTypeOK, HoldersInv
<1>7. /\ st[t] # "new" /\ UNCHANGED <<ctx, obj, context>>
      /\ object' \in {object, [object EXCEPT ![t] = NoObject]}
  BY <1>1
<1>8. QED BY <1>1, <1>2, <1>3, <1>4, <1>5, <1>6, <1>7, DropRef

LEMMA WorkerSubmitRef ==
  ASSUME RefInv, NEW t \in Tasks, WorkerSubmit(t) PROVE RefInv'
<1> DEFINE c == context[t]
<1> USE DEF RefInv
<1>1. /\ c \in Contexts /\ st[t] = "render" /\ UNCHANGED <<ctx, obj>>
      /\ \A e \in Contexts : t \in HoldContext(e) <=> e = c
  BY DEF WorkerSubmit, RefTypeOK, HoldContext
<1>2. CASE /\ submitted_task_list' = [submitted_task_list EXCEPT ![c] = Append(@, t)]
           /\ st' = [st EXCEPT ![t] = "hw"]
           /\ UNCHANGED <<obj_ref, ctx_ref, context, object>>
  <2>1. submitted_task_list \in [Contexts -> Seq(Tasks)]
    BY DEF RefTypeOK
  <2>2. submitted_task_list' \in [Contexts -> Seq(Tasks)]
    BY <1>1, <1>2, <2>1
  <2>3. ASSUME NEW e \in Contexts, NEW i \in 1..Len(submitted_task_list'[e])
        PROVE  /\ context[submitted_task_list'[e][i]] = e
               /\ st[submitted_task_list'[e][i]] # "new"
    <3>1. CASE e # c
      BY <1>1, <1>2, <2>1, <3>1 DEF HoldersInv
    <3>2. CASE e = c /\ i = Len(submitted_task_list[e]) + 1
      <4>1. submitted_task_list'[e][i] = t
        BY <1>1, <1>2, <2>1, <3>2
      <4>2. QED BY <1>1, <3>2, <4>1
    <3>3. CASE e = c /\ i # Len(submitted_task_list[e]) + 1
      <4>1. /\ i \in 1..Len(submitted_task_list[e])
            /\ submitted_task_list'[e][i] = submitted_task_list[e][i]
        BY <1>1, <1>2, <2>1, <3>3
      <4>2. QED BY <4>1 DEF HoldersInv
    <3>4. QED BY <3>1, <3>2, <3>3
  <2>4. /\ st' \in [Tasks -> {"new", "client", "wait", "render", "hw", "back", "unref",
                              "done"}]
        /\ \A u \in Tasks : st'[u] = st[u]
                            \/ (st[u] \in {"render", "hw"} /\ st'[u] \in {"hw", "back"})
    BY <1>1, <1>2 DEF RefTypeOK
  <2>5. QED BY <1>1, <1>2, <2>2, <2>3, <2>4, KeepRef
<1>3. CASE /\ ReleaseObjects(t, TRUE) /\ ctx_ref' = [ctx_ref EXCEPT ![c] = @ - 1]
           /\ FreeTask(t) /\ UNCHANGED submitted_task_list
  <2>1. /\ st' = [st EXCEPT ![t] = "done"] /\ object' = [object EXCEPT ![t] = NoObject]
        /\ UNCHANGED context /\ object'[t] = NoObject
    BY <1>3 DEF FreeTask, RefTypeOK
  <2>2. \A e \in Contexts :
          ctx_ref'[e] = IF t \in HoldContext(e) THEN ctx_ref[e] - 1 ELSE ctx_ref[e]
    BY <1>1, <1>3 DEF RefTypeOK
  <2>3. \A o \in Objects :
          obj_ref'[o] = IF object[t] = o /\ object'[t] # o THEN obj_ref[o] - 1
                        ELSE obj_ref[o]
    BY <1>3, <2>1, NoObjectType DEF ReleaseObjects, RefTypeOK
  <2>4. /\ ctx_ref' = [e \in Contexts |-> ctx_ref'[e]]
        /\ obj_ref' = [o \in Objects |-> obj_ref'[o]]
    BY <1>3 DEF RefTypeOK, ReleaseObjects
  <2>5. /\ submitted_task_list' \in [Contexts -> Seq(Tasks)]
        /\ \A e \in Contexts : \A i \in 1..Len(submitted_task_list'[e]) :
             /\ context[submitted_task_list'[e][i]] = e
             /\ st[submitted_task_list'[e][i]] # "new"
    BY <1>3 DEF RefTypeOK, HoldersInv
  <2>6. QED BY <1>1, <2>1, <2>2, <2>3, <2>4, <2>5, DropRef
<1>4. QED BY <1>2, <1>3 DEF WorkerSubmit, descVars

LEMMA GpuFinishRef ==
  ASSUME RefInv, NEW t \in Tasks, GpuFinish(t) PROVE RefInv'
<1>1. /\ st[t] = "hw" /\ st' = [st EXCEPT ![t] = "back"]
      /\ UNCHANGED <<ctx, ctx_ref, obj, obj_ref, context, object, submitted_task_list>>
  BY DEF GpuFinish, ctxVars, descVars
<1>2. QED BY <1>1, KeepRef DEF RefInv, RefTypeOK, HoldersInv

LEMMA ResetRef ==
  ASSUME RefInv, NEW c \in Contexts, ResetEngine(c) PROVE RefInv'
<1>1. UNCHANGED <<ctx, ctx_ref, obj, obj_ref, context, object, submitted_task_list>>
  BY DEF ResetEngine, ctxVars, objVars, descVars
<1>2. st' = [t \in Tasks |-> IF st[t] = "hw" /\ context[t] = c THEN "back" ELSE st[t]]
  BY DEF ResetEngine
<1>3. QED BY <1>1, <1>2, KeepRef DEF RefInv, RefTypeOK, HoldersInv

LEMMA ReleaseTaskRef ==
  ASSUME RefInv, NEW c \in Contexts, ReleaseTask(c) PROVE RefInv'
<1> DEFINE l == submitted_task_list[c]
           t == Head(l)
<1> USE DEF RefInv
<1>1. /\ l # <<>> /\ st[t] = "back" /\ st' = [st EXCEPT ![t] = "unref"]
      /\ submitted_task_list' = [submitted_task_list EXCEPT ![c] = Tail(l)]
      /\ ctx_ref' = [ctx_ref EXCEPT ![c] = @ - 1]
      /\ UNCHANGED <<ctx, obj, obj_ref, context, object>>
  BY DEF ReleaseTask, objVars, descVars
<1>2. l \in Seq(Tasks) /\ submitted_task_list \in [Contexts -> Seq(Tasks)]
  BY DEF RefTypeOK
<1>3. t \in Tasks /\ t = l[1] /\ 1 \in 1..Len(l)
  BY <1>1, <1>2
<1>4. context[t] = c
  BY <1>3 DEF HoldersInv
<1>5. \A e \in Contexts : t \in HoldContext(e) <=> e = c
  BY <1>1, <1>3, <1>4 DEF HoldContext
<1>6. \A e \in Contexts :
        ctx_ref'[e] = IF t \in HoldContext(e) THEN ctx_ref[e] - 1 ELSE ctx_ref[e]
  BY <1>1, <1>5 DEF RefTypeOK
<1>7. /\ ctx_ref' = [e \in Contexts |-> ctx_ref'[e]]
      /\ obj_ref' = [o \in Objects |-> obj_ref'[o]]
      /\ \A o \in Objects :
           obj_ref'[o] = IF object[t] = o /\ object'[t] # o THEN obj_ref[o] - 1
                         ELSE obj_ref[o]
  BY <1>1 DEF RefTypeOK
<1>8. Tail(l) \in Seq(Tasks) /\ submitted_task_list' \in [Contexts -> Seq(Tasks)]
  BY <1>1, <1>2
<1>9. ASSUME NEW e \in Contexts, NEW i \in 1..Len(submitted_task_list'[e])
      PROVE  /\ context[submitted_task_list'[e][i]] = e
             /\ st[submitted_task_list'[e][i]] # "new"
  <2>1. CASE e # c
    BY <1>1, <1>2, <2>1 DEF HoldersInv
  <2>2. CASE e = c
    <3>1. submitted_task_list'[e] = Tail(l)
      BY <1>1, <1>2, <2>2
    <3>2. Len(Tail(l)) = Len(l) - 1 /\ \A j \in 1..Len(Tail(l)) : Tail(l)[j] = l[j + 1]
      BY <1>1, <1>2
    <3>3. i \in 1..Len(Tail(l)) /\ Len(l) \in Nat
      BY <1>2, <3>1
    <3>4. i + 1 \in 1..Len(l)
      BY <3>2, <3>3
    <3>5. submitted_task_list'[e][i] = l[i + 1]
      BY <3>1, <3>2, <3>3
    <3>6. QED BY <2>2, <3>4, <3>5 DEF HoldersInv
  <2>3. QED BY <2>1, <2>2
<1>10. object' \in {object, [object EXCEPT ![t] = NoObject]} /\ st[t] # "new"
  BY <1>1
<1>11. QED BY <1>1, <1>3, <1>6, <1>7, <1>8, <1>9, <1>10, DropRef

LEMMA DoReleaseRef ==
  ASSUME RefInv, NEW t \in Tasks, DoReleaseTask(t) PROVE RefInv'
<1> USE DEF RefInv
<1>1. /\ st[t] = "unref" /\ st' = [st EXCEPT ![t] = "done"]
      /\ object' = [object EXCEPT ![t] = NoObject] /\ object'[t] = NoObject
      /\ obj_ref' = [o \in Objects |-> obj_ref[o] - IF o = object[t] THEN 1 ELSE 0]
      /\ UNCHANGED <<ctx, ctx_ref, obj, context, submitted_task_list>>
  BY DEF DoReleaseTask, ReleaseObjects, FreeTask, ctxVars, RefTypeOK
<1>2. \A c \in Contexts :
        ctx_ref'[c] = IF t \in HoldContext(c) THEN ctx_ref[c] - 1 ELSE ctx_ref[c]
  BY <1>1 DEF HoldContext
<1>3. \A o \in Objects :
        obj_ref'[o] = IF object[t] = o /\ object'[t] # o THEN obj_ref[o] - 1
                      ELSE obj_ref[o]
  BY <1>1, NoObjectType DEF RefTypeOK
<1>4. /\ ctx_ref' = [c \in Contexts |-> ctx_ref'[c]]
      /\ obj_ref' = [o \in Objects |-> obj_ref'[o]]
  BY <1>1 DEF RefTypeOK
<1>5. /\ submitted_task_list' \in [Contexts -> Seq(Tasks)]
      /\ \A c \in Contexts : \A i \in 1..Len(submitted_task_list'[c]) :
           /\ context[submitted_task_list'[c][i]] = c
           /\ st[submitted_task_list'[c][i]] # "new"
  BY <1>1 DEF RefTypeOK, HoldersInv
<1>6. QED BY <1>1, <1>2, <1>3, <1>4, <1>5, DropRef

\* Steps that touch neither counts nor what is counted.
LEMMA FrameRef ==
  ASSUME RefInv,
         UNCHANGED <<ctx, ctx_ref, obj, obj_ref, st, context, object, submitted_task_list>>
  PROVE  RefInv'
  BY DEF RefInv, RefTypeOK, HoldersInv, RefsAccount, HeldIsAlive, HoldContext, HoldObject

\* The contexts' own steps.  A context is freed when nobody holds it, unless its
\* destroyer gave up.
LEMMA ContextRef ==
  ASSUME RefInv, GiveUp = FALSE, NEW c \in Contexts,
         DestroyContext(c) \/ DropTasks(c) \/ FreeContext(c)
  PROVE  RefInv'
<1>1. UNCHANGED <<obj, ctx_ref, obj_ref, st, context, object, submitted_task_list>>
  BY DEF DestroyContext, DropTasks, FreeContext, objVars, descVars, runVars
<1>2. \/ ctx' \in {[ctx EXCEPT ![c] = "idle_wait"], [ctx EXCEPT ![c] = "drop_wait"]}
      \/ ctx_ref[c] = 0 /\ ctx' = [ctx EXCEPT ![c] = "freed"]
  BY DEF DestroyContext, DropTasks, FreeContext, IdleOrGivenUp
<1>3. /\ ctx' \in [Contexts -> {"live", "idle_wait", "drop_wait", "freed"}]
      /\ \A e \in Contexts : ctx_ref[e] # 0 /\ ctx[e] # "freed" => ctx'[e] # "freed"
  BY <1>2 DEF RefInv, RefTypeOK
<1>4. QED BY <1>1, <1>3, ContextsRef

LEMMA NextRef ==
  ASSUME RefInv, GiveUp = FALSE, [Next]_vars PROVE RefInv'
<1>1. CASE TestLimit \/ \E o \in Objects : CreateSyncObject(o) \/ DestroySyncObject(o)
  BY <1>1, CreateRef, DestroyRef
<1>2. CASE \E o \in Objects : DmaSignal(o) \/ \E v \in 1..MaxFence : CheckStatus(o, v)
  BY <1>2, FrameRef DEF DmaSignal, CheckStatus, ctxVars, descVars, runVars
<1>3. CASE DestroyDevice
  BY <1>3, DestroyDeviceRef
<1>4. CASE \E t \in Tasks, c \in Contexts, o \in Objects, v \in 1..MaxFence :
             \/ WaitSyncObject(t, c, o, v, "wait")
             \/ WaitSyncObject(t, c, o, v, "client")
  BY <1>4, WaitRef
<1>5. CASE \E t \in Tasks, c \in Contexts, o \in Objects, v \in 1..MaxFence :
             RenderTask(t, c, o, v)
  BY <1>5, RenderRef
<1>6. CASE \E t \in Tasks, c \in Contexts : RenderTask(t, c, NoObject, 0)
  BY <1>6, RenderRef
<1>7. CASE \E t, w \in Tasks, c \in Contexts, d \in Objects : RenderShared(t, w, c, d)
  BY <1>7, RenderSharedRef
<1>8. CASE \E t \in Tasks : WorkerWait(t) \/ ClientWait(t)
  BY <1>8, EndWaitRef DEF WorkerWait, ClientWait
<1>9. CASE \E t \in Tasks : WorkerSubmit(t) \/ GpuFinish(t) \/ DoReleaseTask(t)
  BY <1>9, WorkerSubmitRef, GpuFinishRef, DoReleaseRef
<1>10. CASE \E c \in Contexts : WorkerReturn(c)
  BY <1>10, FrameRef DEF WorkerReturn, objVars, descVars
<1>11. CASE \E c \in Contexts : ResetEngine(c) \/ ReleaseTask(c)
  BY <1>11, ResetRef, ReleaseTaskRef
<1>12. CASE \E c \in Contexts : DestroyContext(c) \/ DropTasks(c) \/ FreeContext(c)
  BY <1>12, ContextRef
<1>13. CASE UNCHANGED vars
  BY <1>13, FrameRef DEF vars, ctxVars, objVars, descVars, runVars
<1>14. QED
  BY <1>1, <1>2, <1>3, <1>4, <1>5, <1>6, <1>7, <1>8, <1>9, <1>10, <1>11, <1>12, <1>13
  DEF Next, WorkerStep

\* Every path on which a wait or a render ends (satisfied, timed out, discarded,
\* reset, released in two steps) drops each of its references once: ref_cnt of
\* contexts and sync objects is always the number of tasks that hold them.
THEOREM RefsBalanced == GiveUp = FALSE /\ Spec => []RefsAccount
<1> SUFFICES ASSUME GiveUp = FALSE PROVE Spec => []RefsAccount
  OBVIOUS
<1>1. Init => RefInv
  BY InitRef
<1>2. RefInv /\ [Next]_vars => RefInv'
  BY NextRef
<1>3. RefInv => RefsAccount
  BY DEF RefInv
<1>4. QED BY <1>1, <1>2, <1>3, PTL DEF Spec

\* Neither a deferred object nor a context is freed while a task holds it, as
\* long as cm_wait_context_idle does not give up.
THEOREM HeldStaysAlive == GiveUp = FALSE /\ Spec => []HeldIsAlive
<1> SUFFICES ASSUME GiveUp = FALSE PROVE Spec => []HeldIsAlive
  OBVIOUS
<1>1. Init => RefInv
  BY InitRef
<1>2. RefInv /\ [Next]_vars => RefInv'
  BY NextRef
<1>3. RefInv => HeldIsAlive
  BY DEF RefInv
<1>4. QED BY <1>1, <1>2, <1>3, PTL DEF Spec

-----------------------------------------------------------------------------
(* The limit of objects per device.                                        *)

LEMMA OwnedFinite == Owned \in SUBSET Objects /\ IsFiniteSet(Owned)
                     /\ Cardinality(Owned) \in Nat
  BY TasksFinite, FS_Subset, FS_CardinalityType DEF Owned

LEMMA InitLimit == Init => LimitInv
<1> SUFFICES ASSUME Init PROVE LimitInv
  OBVIOUS
<1>1. Owned = {}
  BY DEF Init, Owned
<1>2. QED BY <1>1, FS_EmptySet, SyncAssumption DEF Init, LimitInv

\* Steps that take no object from the client's and give it none.
LEMMA FrameLimit ==
  ASSUME LimitInv, UNCHANGED <<sync_obj_count, fails, creating>>,
         obj' \in [Objects -> {"none", "fence", "deferred", "freed"}],
         \A o \in Objects : obj'[o] = "fence" <=> obj[o] = "fence"
  PROVE  LimitInv'
<1>1. Owned' = Owned
  BY DEF Owned
<1>2. QED BY <1>1 DEF LimitInv

LEMMA TestKeepsLimit == ASSUME LimitInv, TestLimit PROVE LimitInv'
<1>1. /\ obj' = DestroyDefer(obj) /\ UNCHANGED <<sync_obj_count, fails>>
      /\ creating < Creators /\ creating' = creating + IF BelowLimit THEN 1 ELSE 0
  BY DEF TestLimit
<1>2. /\ obj' \in [Objects -> {"none", "fence", "deferred", "freed"}]
      /\ Owned' = Owned
  BY <1>1 DEF DestroyDefer, LimitInv, Owned
<1>3. /\ creating' \in 0..Creators
      /\ sync_obj_count + creating' <= MaxObjects + Creators
  BY <1>1, SyncAssumption DEF LimitInv, BelowLimit
<1>4. QED BY <1>1, <1>2, <1>3 DEF LimitInv

LEMMA CreateLimit ==
  ASSUME LimitInv, NEW o \in Objects, CreateSyncObject(o) PROVE LimitInv'
<1>1. /\ creating > 0 /\ creating' = creating - 1 /\ sync_obj_count' = sync_obj_count + 1
      /\ o \notin Owned
  BY DEF CreateSyncObject, FreshObject, Owned
<1>2. /\ sync_obj_count' \in Nat /\ creating' \in 0..Creators
      /\ sync_obj_count' + creating' <= MaxObjects + Creators
  BY <1>1, SyncAssumption DEF LimitInv
<1>3. CASE fails' = fails + 1 /\ UNCHANGED obj
  <2>1. Owned' = Owned
    BY <1>3 DEF Owned
  <2>2. QED BY <1>1, <1>2, <1>3, <2>1, OwnedFinite DEF LimitInv
<1>4. CASE obj' = [obj EXCEPT ![o] = "fence"] /\ UNCHANGED fails
  <2>1. /\ obj' \in [Objects -> {"none", "fence", "deferred", "freed"}]
        /\ \A x \in Objects : obj'[x] = "fence" <=> (x = o \/ obj[x] = "fence")
    BY <1>4 DEF LimitInv
  <2>2. Owned' = Owned \cup {o}
    BY <2>1 DEF Owned
  <2>3. Cardinality(Owned') = Cardinality(Owned) + 1
    BY <1>1, <2>2, OwnedFinite, FS_AddElement
  <2>4. QED BY <1>1, <1>2, <1>4, <2>1, <2>3, OwnedFinite DEF LimitInv
<1>5. QED BY <1>3, <1>4 DEF CreateSyncObject

LEMMA DestroyLimit ==
  ASSUME LimitInv, NEW o \in Objects, DestroySyncObject(o) PROVE LimitInv'
<1>1. /\ o \in Owned
      /\ obj' \in [Objects -> {"none", "fence", "deferred", "freed"}]
      /\ \A x \in Objects : obj'[x] = "fence" <=> (x # o /\ obj[x] = "fence")
  BY DEF DestroySyncObject, Destroyed, LimitInv, Owned
<1>2. Owned' = Owned \ {o}
  BY <1>1 DEF Owned
<1>3. Cardinality(Owned') = Cardinality(Owned) - 1 /\ Cardinality(Owned') \in Nat
  BY <1>1, <1>2, OwnedFinite, FS_RemoveElement, FS_CardinalityType
<1>4. sync_obj_count' = sync_obj_count - 1 /\ UNCHANGED <<fails, creating>>
  BY DEF DestroySyncObject
<1>5. QED
  BY <1>1, <1>3, <1>4, OwnedFinite, SyncAssumption DEF LimitInv

LEMMA DestroyDeviceLimit == ASSUME LimitInv, DestroyDevice PROVE LimitInv'
<1>1. /\ obj' \in [Objects -> {"none", "fence", "deferred", "freed"}]
      /\ \A x \in Objects : obj'[x] # "fence"
  BY DEF DestroyDevice, DestroyDefer, Destroyed, LimitInv
<1>2. Owned' = {}
  BY <1>1 DEF Owned
<1>3. Cardinality(Owned') = 0
  BY <1>2, FS_EmptySet
<1>4. sync_obj_count' = sync_obj_count - Cardinality(Owned) /\ UNCHANGED <<fails, creating>>
  BY DEF DestroyDevice
<1>5. QED
  BY <1>1, <1>3, <1>4, OwnedFinite, SyncAssumption DEF LimitInv

LEMMA RenderSharedLimit ==
  ASSUME LimitInv, NEW t \in Tasks, NEW w \in Tasks, NEW c \in Contexts,
         NEW d \in Objects, RenderShared(t, w, c, d)
  PROVE  LimitInv'
<1>1. /\ obj' = [DestroyDefer(obj) EXCEPT ![d] = "deferred"] /\ obj[d] = "none"
      /\ UNCHANGED <<sync_obj_count, fails, creating>>
  BY DEF RenderShared, FreshObject, devVars
<1>2. /\ obj' \in [Objects -> {"none", "fence", "deferred", "freed"}]
      /\ \A o \in Objects : obj'[o] = "fence" <=> obj[o] = "fence"
  BY <1>1 DEF DestroyDefer, LimitInv
<1>3. QED BY <1>1, <1>2, FrameLimit

LEMMA NextLimit == ASSUME LimitInv, [Next]_vars PROVE LimitInv'
<1> USE DEF devVars, ctxVars, objVars, descVars, runVars
<1>1. ASSUME UNCHANGED <<obj, sync_obj_count, fails, creating>> PROVE LimitInv'
  BY <1>1 DEF LimitInv, Owned
<1>2. CASE TestLimit \/ \E o \in Objects : CreateSyncObject(o) \/ DestroySyncObject(o)
  BY <1>2, TestKeepsLimit, CreateLimit, DestroyLimit
<1>3. CASE DestroyDevice
  BY <1>3, DestroyDeviceLimit
<1>4. CASE \E t, w \in Tasks, c \in Contexts, d \in Objects : RenderShared(t, w, c, d)
  BY <1>4, RenderSharedLimit
<1>5. CASE \E o \in Objects : DmaSignal(o) \/ \E v \in 1..MaxFence : CheckStatus(o, v)
  BY <1>1, <1>5 DEF DmaSignal, CheckStatus
<1>6. CASE \E t \in Tasks, c \in Contexts, o \in Objects \cup {NoObject}, v \in 0..MaxFence :
             \/ WaitSyncObject(t, c, o, v, "wait") \/ WaitSyncObject(t, c, o, v, "client")
             \/ RenderTask(t, c, o, v)
  BY <1>1, <1>6 DEF WaitSyncObject, RenderTask
<1>7. CASE \E t \in Tasks : WorkerWait(t) \/ ClientWait(t)
  BY <1>1, <1>7 DEF WorkerWait, ClientWait, EndWait
<1>8. CASE \E t \in Tasks : WorkerSubmit(t) \/ GpuFinish(t) \/ DoReleaseTask(t)
  BY <1>1, <1>8 DEF WorkerSubmit, GpuFinish, DoReleaseTask
<1>9. CASE \E c \in Contexts : WorkerReturn(c) \/ ResetEngine(c) \/ ReleaseTask(c)
  BY <1>1, <1>9 DEF WorkerReturn, ResetEngine, ReleaseTask
<1>10. CASE \E c \in Contexts : DestroyContext(c) \/ DropTasks(c) \/ FreeContext(c)
  BY <1>1, <1>10 DEF DestroyContext, DropTasks, FreeContext
<1>11. CASE UNCHANGED vars
  BY <1>1, <1>11 DEF vars
<1>12. (1..MaxFence) \subseteq 0..MaxFence /\ 0 \in 0..MaxFence
  BY SyncAssumption
<1>13. QED
  BY <1>2, <1>3, <1>4, <1>5, <1>6, <1>7, <1>8, <1>9, <1>10, <1>11, <1>12
  DEF Next, WorkerStep

\* The per-device limit is passed by no more objects than threads can be between its
\* test and the count, for every MAX_SYNC_OBJECT_SIZE_PER_DEVICE, every number of
\* threads and every order of creations, failures and destructions.
THEOREM LimitKept == Spec => []LimitHolds
<1>1. Init => LimitInv
  BY InitLimit
<1>2. LimitInv /\ [Next]_vars => LimitInv'
  BY NextLimit
<1>3. LimitInv => LimitHolds
  BY OwnedFinite, SyncAssumption DEF LimitInv, LimitHolds
<1>4. QED BY <1>1, <1>2, <1>3, PTL DEF Spec

-----------------------------------------------------------------------------
(* The instances of the waits.                                             *)

\* What is left of a list of distinct tasks when one of them is taken off.
LEMMA TakeOff ==
  ASSUME NEW s \in Seq(Tasks), IsInjective(s), NEW t \in Range(s)
  PROVE  LET r == RemoveAt(s, InstanceOf(s, t))
         IN  /\ r \in Seq(Tasks) /\ IsInjective(r) /\ Range(r) = Range(s) \ {t}
<1> DEFINE n == Len(s)
           k == InstanceOf(s, t)
           a == SubSeq(s, 1, k - 1)
           b == SubSeq(s, k + 1, n)
           r == a \o b
<1>1. n \in Nat /\ DOMAIN s = 1..n /\ \A i \in 1..n : s[i] \in Tasks
  OBVIOUS
<1>2. k \in 1..n /\ s[k] = t
  BY <1>1 DEF InstanceOf, Range
<1> HIDE DEF n, k
<1>3. /\ a \in Seq(Tasks) /\ Len(a) = k - 1
      /\ \A i \in 1..(k - 1) : a[i] = s[i]
  <2>1. \A i \in 1..(k - 1) : s[i] \in Tasks
    BY <1>1, <1>2
  <2>2. k - 1 \in Int /\ 1 \in Int /\ (1 <= k - 1 <=> k > 1) /\ (k - 1) - 1 + 1 = k - 1
    BY <1>1, <1>2
  <2>3. /\ a \in Seq(Tasks) /\ Len(a) = IF 1 <= k - 1 THEN (k - 1) - 1 + 1 ELSE 0
        /\ \A i \in 1..((k - 1) - 1 + 1) : a[i] = s[1 + i - 1]
    BY <2>1, <2>2, SubSeqProperties
  <2>4. Len(a) = k - 1
    BY <1>1, <1>2, <2>3
  <2>5. \A i \in 1..(k - 1) : a[i] = s[i]
    <3> SUFFICES ASSUME NEW i \in 1..(k - 1) PROVE a[i] = s[i]
      OBVIOUS
    <3>1. 1 + i - 1 = i /\ i \in 1..((k - 1) - 1 + 1)
      BY <1>1, <1>2
    <3>2. QED BY <2>3, <3>1
  <2>6. QED BY <2>3, <2>4, <2>5
<1>4. /\ b \in Seq(Tasks) /\ Len(b) = n - k
      /\ \A i \in 1..(n - k) : b[i] = s[k + i]
  <2>1. \A i \in (k + 1)..n : s[i] \in Tasks
    BY <1>1, <1>2
  <2>2. k + 1 \in Int /\ n \in Int
    BY <1>1, <1>2
  <2>3. /\ b \in Seq(Tasks) /\ Len(b) = IF k + 1 <= n THEN n - (k + 1) + 1 ELSE 0
        /\ \A i \in 1..(n - (k + 1) + 1) : b[i] = s[(k + 1) + i - 1]
    BY <2>1, <2>2, SubSeqProperties
  <2>4. Len(b) = n - k
    BY <1>1, <1>2, <2>3
  <2>5. \A i \in 1..(n - k) : b[i] = s[k + i]
    <3> SUFFICES ASSUME NEW i \in 1..(n - k) PROVE b[i] = s[k + i]
      OBVIOUS
    <3>1. (k + 1) + i - 1 = k + i /\ i \in 1..(n - (k + 1) + 1)
      BY <1>1, <1>2
    <3>2. QED BY <2>3, <3>1
  <2>6. QED BY <2>3, <2>4, <2>5
<1> HIDE DEF a, b
<1>5. /\ r \in Seq(Tasks) /\ Len(r) = n - 1 /\ DOMAIN r = 1..(n - 1)
      /\ \A i \in 1..(n - 1) : r[i] = IF i < k THEN s[i] ELSE s[i + 1]
  <2>1. /\ r \in Seq(Tasks) /\ Len(r) = Len(a) + Len(b)
        /\ \A i \in 1..(Len(a) + Len(b)) :
             r[i] = IF i <= Len(a) THEN a[i] ELSE b[i - Len(a)]
    BY <1>3, <1>4, ConcatProperties
  <2> HIDE DEF r
  <2>2. Len(r) = n - 1 /\ Len(a) + Len(b) = n - 1
    BY <1>1, <1>2, <1>3, <1>4, <2>1
  <2>3. ASSUME NEW i \in 1..(n - 1) PROVE r[i] = IF i < k THEN s[i] ELSE s[i + 1]
    <3>1. CASE i < k
      <4>1. i \in 1..(k - 1) /\ i <= Len(a)
        BY <1>1, <1>2, <1>3, <3>1
      <4>2. QED BY <1>3, <2>1, <2>2, <3>1, <4>1
    <3>2. CASE ~(i < k)
      <4>1. /\ i - Len(a) \in 1..(n - k) /\ k + (i - Len(a)) = i + 1
            /\ ~(i <= Len(a))
        BY <1>1, <1>2, <1>3, <3>2
      <4>2. r[i] = b[i - Len(a)]
        BY <2>1, <2>2, <4>1
      <4>3. QED BY <1>4, <3>2, <4>1, <4>2
    <3>3. QED BY <3>1, <3>2
  <2>4. QED BY <2>1, <2>2, <2>3
<1> HIDE DEF r
<1>6. \A i, j \in 1..n : s[i] = s[j] => i = j
  BY <1>1 DEF IsInjective
<1>7. IsInjective(r)
  <2> SUFFICES ASSUME NEW i \in 1..(n - 1), NEW j \in 1..(n - 1), r[i] = r[j] PROVE i = j
    BY <1>5 DEF IsInjective
  <2>1. PICK p \in 1..n : r[i] = s[p] /\ p = IF i < k THEN i ELSE i + 1
    BY <1>1, <1>2, <1>5
  <2>2. PICK q \in 1..n : r[j] = s[q] /\ q = IF j < k THEN j ELSE j + 1
    BY <1>1, <1>2, <1>5
  <2>3. p = q
    BY <1>6, <2>1, <2>2
  <2>4. QED BY <1>1, <1>2, <2>1, <2>2, <2>3
<1>8. Range(r) = Range(s) \ {t}
  <2>1. ASSUME NEW i \in 1..(n - 1) PROVE r[i] \in Range(s) \ {t}
    <3>1. PICK p \in 1..n : r[i] = s[p] /\ p # k
      BY <1>1, <1>2, <1>5
    <3>2. QED BY <1>1, <1>2, <1>6, <3>1 DEF Range
  <2>2. ASSUME NEW p \in 1..n, p # k PROVE s[p] \in Range(r)
    <3>1. CASE p < k
      <4>1. p \in 1..(n - 1) /\ r[p] = s[p]
        BY <1>1, <1>2, <1>5, <3>1
      <4>2. QED BY <1>5, <4>1 DEF Range
    <3>2. CASE p > k
      <4>1. p - 1 \in 1..(n - 1) /\ ~(p - 1 < k) /\ (p - 1) + 1 = p
        BY <1>1, <1>2, <3>2
      <4>2. r[p - 1] = s[p]
        BY <1>5, <4>1
      <4>3. QED BY <1>5, <4>1, <4>2 DEF Range
    <3>3. QED BY <1>1, <1>2, <2>2, <3>1, <3>2
  <2>3. Range(r) \subseteq Range(s) \ {t}
    BY <1>5, <2>1 DEF Range
  <2>4. Range(s) \ {t} \subseteq Range(r)
    BY <1>1, <1>2, <2>2 DEF Range
  <2>5. QED BY <2>3, <2>4
<1>9. r = RemoveAt(s, InstanceOf(s, t))
  BY DEF r, a, b, n, k, RemoveAt
<1>10. QED BY <1>5, <1>7, <1>8, <1>9

\* A list of distinct tasks with another one put at its end.
LEMMA AddOn ==
  ASSUME NEW s \in Seq(Tasks), IsInjective(s), NEW t \in Tasks \ Range(s)
  PROVE  /\ Append(s, t) \in Seq(Tasks) /\ IsInjective(Append(s, t))
         /\ Range(Append(s, t)) = Range(s) \cup {t}
<1> DEFINE n == Len(s)
           r == Append(s, t)
<1>1. /\ n \in Nat /\ DOMAIN s = 1..n /\ r \in Seq(Tasks) /\ DOMAIN r = 1..(n + 1)
      /\ r[n + 1] = t /\ \A i \in 1..n : r[i] = s[i]
  OBVIOUS
<1>2. \A i \in 1..n : s[i] # t
  BY <1>1 DEF Range
<1> HIDE DEF n, r
<1>3. IsInjective(r)
  <2> SUFFICES ASSUME NEW i \in 1..(n + 1), NEW j \in 1..(n + 1), r[i] = r[j] PROVE i = j
    BY <1>1 DEF IsInjective
  <2>1. (i \in 1..n \/ i = n + 1) /\ (j \in 1..n \/ j = n + 1)
    BY <1>1
  <2>2. QED BY <1>1, <1>2, <2>1 DEF IsInjective
<1>4. Range(r) = Range(s) \cup {t}
  <2>1. \A i \in 1..(n + 1) : i \in 1..n \/ i = n + 1
    BY <1>1
  <2>2. (1..n) \subseteq 1..(n + 1) /\ n + 1 \in 1..(n + 1)
    BY <1>1
  <2>3. QED BY <1>1, <2>1, <2>2 DEF Range
<1>5. QED BY <1>1, <1>3, <1>4 DEF r

\* What InstancesInv is about.
instVars == <<instance_list, st, object, obj>>

\* No object has a wait yet.
LEMMA InitInstances == Init => InstancesInv
<1> SUFFICES ASSUME Init PROVE InstancesInv
  OBVIOUS
<1>1. WaitersOK
  BY DEF Init, WaitersOK, NoObject, Objects
<1>2. InstancesAccount
  BY DEF Init, InstancesAccount, HoldObject, Range, IsInjective
<1>3. QED BY <1>1, <1>2 DEF Init, InstancesInv

\* The waits of an object, as its list names them.
Waits(o) == {t \in Tasks : object[t] = o /\ st[t] \in {"wait", "client"}}

Listed ==
  \A o \in Objects : Range(instance_list[o]) = Waits(o) /\ IsInjective(instance_list[o])

LEMMA ListedWaits == InstancesAccount <=> Listed
  BY DEF InstancesAccount, Listed, HoldObject, Waits

\* A step that neither starts nor ends a wait.
SameWaits ==
  \A t \in Tasks : /\ st'[t] \in {"wait", "client"} <=> st[t] \in {"wait", "client"}
                   /\ st[t] \in {"wait", "client"} => object'[t] = object[t]
                   /\ object'[t] \in Objects =>
                        object'[t] = object[t] \/ obj[object'[t]] # "none"

LEMMA KeepWaits ==
  ASSUME InstancesInv, UNCHANGED instance_list,
         st' \in [Tasks -> {"new", "client", "wait", "render", "hw", "back", "unref", "done"}],
         object' \in [Tasks -> Objects \cup {NoObject}],
         obj' \in [Objects -> {"none", "fence", "deferred", "freed"}],
         \A o \in Objects : obj[o] # "none" => obj'[o] # "none",
         SameWaits
  PROVE  InstancesInv'
<1>1. WaitersOK'
  BY DEF InstancesInv, WaitersOK, SameWaits
<1>2. \A o \in Objects : Waits(o)' = Waits(o)
  BY DEF InstancesInv, Waits, SameWaits
<1>3. InstancesAccount'
  <2>1. Listed
    BY ListedWaits DEF InstancesInv
  <2>2. Listed'
    BY <1>2, <2>1 DEF Listed
  <2>3. QED BY <2>2, ListedWaits, PTL
<1>4. QED BY <1>1, <1>3 DEF InstancesInv

\* Freeing the deferred objects makes none of them new.
LEMMA DeferKeeps ==
  ASSUME NEW os \in [Objects -> {"none", "fence", "deferred", "freed"}]
  PROVE  /\ DestroyDefer(os) \in [Objects -> {"none", "fence", "deferred", "freed"}]
         /\ \A o \in Objects : os[o] # "none" => DestroyDefer(os)[o] # "none"
  BY DEF DestroyDefer

\* A step that only changes objects.
LEMMA ObjectWaits ==
  ASSUME InstancesInv, UNCHANGED <<instance_list, st, object>>,
         obj' \in [Objects -> {"none", "fence", "deferred", "freed"}],
         \A o \in Objects : obj[o] # "none" => obj'[o] # "none"
  PROVE  InstancesInv'
  BY KeepWaits DEF InstancesInv, SameWaits, WaitersOK

LEMMA CreateWaits ==
  ASSUME InstancesInv, TestLimit \/ \E o \in Objects : CreateSyncObject(o)
  PROVE  InstancesInv'
<1>1. /\ obj \in [Objects -> {"none", "fence", "deferred", "freed"}]
      /\ UNCHANGED <<instance_list, st, object>>
  BY DEF InstancesInv, TestLimit, CreateSyncObject, descVars, runVars
<1>2. \/ obj' \in {obj, DestroyDefer(obj)}
      \/ \E o \in Objects : obj' = [obj EXCEPT ![o] = "fence"]
  BY DEF TestLimit, CreateSyncObject
<1>3. QED BY <1>1, <1>2, DeferKeeps, ObjectWaits

LEMMA DestroyWaits ==
  ASSUME InstancesInv, NEW o \in Objects, DestroySyncObject(o) PROVE InstancesInv'
<1>1. /\ obj \in [Objects -> {"none", "fence", "deferred", "freed"}]
      /\ UNCHANGED <<instance_list, st, object>>
  BY DEF InstancesInv, DestroySyncObject, descVars, runVars
<1>2. obj' = [obj EXCEPT ![o] = Destroyed(o)] /\ Destroyed(o) \in {"deferred", "freed"}
  BY DEF DestroySyncObject, Destroyed
<1>3. QED BY <1>1, <1>2, ObjectWaits

LEMMA DestroyDeviceWaits == ASSUME InstancesInv, DestroyDevice PROVE InstancesInv'
<1> DEFINE os == [o \in Objects |-> IF obj[o] = "fence" THEN Destroyed(o) ELSE obj[o]]
<1>1. /\ obj \in [Objects -> {"none", "fence", "deferred", "freed"}]
      /\ UNCHANGED <<instance_list, st, object>>
  BY DEF InstancesInv, DestroyDevice, descVars, runVars
<1>2. /\ os \in [Objects -> {"none", "fence", "deferred", "freed"}]
      /\ \A o \in Objects : obj[o] # "none" => os[o] # "none"
  BY <1>1 DEF Destroyed
<1>3. obj' = DestroyDefer(os)
  BY DEF DestroyDevice
<1> HIDE DEF os
<1>4. QED BY <1>1, <1>2, <1>3, DeferKeeps, ObjectWaits

\* A new wait is on no list, and is put on the one of its object.
LEMMA NewWait ==
  ASSUME InstancesInv, NEW t \in Tasks, NEW o \in Objects, NEW how \in {"wait", "client"},
         st[t] = "new",
         instance_list' = [instance_list EXCEPT ![o] = Append(@, t)],
         object' = [object EXCEPT ![t] = o],
         st' \in [Tasks -> {"new", "client", "wait", "render", "hw", "back", "unref", "done"}],
         st'[t] = how,
         \A u \in Tasks \ {t} :
           st'[u] \in {"wait", "client"} <=> st[u] \in {"wait", "client"},
         obj' \in [Objects -> {"none", "fence", "deferred", "freed"}], obj'[o] # "none",
         \A p \in Objects : obj[p] # "none" => obj'[p] # "none"
  PROVE  InstancesInv'
<1>1. /\ instance_list \in [Objects -> Seq(Tasks)]
      /\ object \in [Tasks -> Objects \cup {NoObject}]
      /\ \A p \in Objects : Range(instance_list[p]) = Waits(p) /\ IsInjective(instance_list[p])
  BY ListedWaits DEF InstancesInv, Listed
<1>2. \A p \in Objects : t \notin Waits(p)
  BY DEF Waits
<1>3. /\ Append(instance_list[o], t) \in Seq(Tasks)
      /\ IsInjective(Append(instance_list[o], t))
      /\ Range(Append(instance_list[o], t)) = Waits(o) \cup {t}
  BY <1>1, <1>2, AddOn
<1>4. Waits(o)' = Waits(o) \cup {t} /\ \A p \in Objects \ {o} : Waits(p)' = Waits(p)
  BY <1>1, <1>2 DEF Waits
<1>5. InstancesAccount'
  <2>1. Listed'
    BY <1>1, <1>3, <1>4 DEF Listed
  <2>2. QED BY <2>1, ListedWaits, PTL
<1>6. WaitersOK'
  BY <1>1 DEF InstancesInv, WaitersOK
<1>7. /\ instance_list' \in [Objects -> Seq(Tasks)]
      /\ object' \in [Tasks -> Objects \cup {NoObject}]
  BY <1>1, <1>3
<1>8. QED BY <1>5, <1>6, <1>7 DEF InstancesInv

LEMMA WaitWaits ==
  ASSUME InstancesInv, NEW t \in Tasks, NEW c \in Contexts, NEW o \in Objects, NEW v,
         NEW how \in {"wait", "client"}, WaitSyncObject(t, c, o, v, how)
  PROVE  InstancesInv'
<1>1. /\ st[t] = "new" /\ obj[o] = "fence" /\ UNCHANGED obj
      /\ instance_list' = [instance_list EXCEPT ![o] = Append(@, t)]
      /\ object' = [object EXCEPT ![t] = o] /\ st' = [st EXCEPT ![t] = how]
  BY DEF WaitSyncObject, FreshTask
<1>2. /\ st \in [Tasks -> {"new", "client", "wait", "render", "hw", "back", "unref", "done"}]
      /\ obj \in [Objects -> {"none", "fence", "deferred", "freed"}]
  BY DEF InstancesInv
<1>3. QED BY <1>1, <1>2, NewWait

LEMMA RenderWaits ==
  ASSUME InstancesInv, NEW t \in Tasks, NEW c \in Contexts, NEW o \in Objects \cup {NoObject},
         NEW v, RenderTask(t, c, o, v)
  PROVE  InstancesInv'
<1>1. /\ st[t] = "new"
      /\ o # NoObject => obj[o] = "fence"
      /\ UNCHANGED <<instance_list, obj>>
      /\ object' = [object EXCEPT ![t] = o] /\ st' = [st EXCEPT ![t] = "render"]
  BY DEF RenderTask, FreshTask
<1>2. NoObject \notin Objects
  BY DEF NoObject, Objects
<1>3. /\ st' \in [Tasks -> {"new", "client", "wait", "render", "hw", "back", "unref", "done"}]
      /\ object' \in [Tasks -> Objects \cup {NoObject}]
      /\ obj' \in [Objects -> {"none", "fence", "deferred", "freed"}]
      /\ UNCHANGED instance_list /\ \A p \in Objects : obj[p] # "none" => obj'[p] # "none"
  BY <1>1 DEF InstancesInv
<1>4. SameWaits
  BY <1>1, <1>2 DEF InstancesInv, SameWaits
<1>5. QED BY <1>3, <1>4, KeepWaits

LEMMA RenderSharedWaits ==
  ASSUME InstancesInv, NEW t \in Tasks, NEW w \in Tasks, NEW c \in Contexts, NEW d \in Objects,
         RenderShared(t, w, c, d)
  PROVE  InstancesInv'
<1>1. /\ st[t] = "new" /\ w = t + 1 /\ st[w] = "new" /\ obj[d] = "none"
      /\ obj' = [DestroyDefer(obj) EXCEPT ![d] = "deferred"]
      /\ instance_list' = [instance_list EXCEPT ![d] = <<w>>]
      /\ object' = [object EXCEPT ![w] = d]
      /\ st' = [st EXCEPT ![t] = "render", ![w] = "wait"]
  BY DEF RenderShared, FreshTask, FreshObject
<1>2. t # w
  BY <1>1 DEF Tasks
<1>3. /\ st \in [Tasks -> {"new", "client", "wait", "render", "hw", "back", "unref", "done"}]
      /\ obj \in [Objects -> {"none", "fence", "deferred", "freed"}]
      /\ instance_list \in [Objects -> Seq(Tasks)]
      /\ \A p \in Objects : Range(instance_list[p]) = Waits(p)
  BY ListedWaits DEF InstancesInv, Listed
<1>4. instance_list[d] = <<>>
  <2>1. Waits(d) = {}
    BY <1>1 DEF Waits, InstancesInv, WaitersOK
  <2>2. instance_list[d] \in Seq(Tasks) /\ Range(instance_list[d]) = {}
    BY <1>3, <2>1
  <2>3. ASSUME Len(instance_list[d]) > 0 PROVE FALSE
    <3>1. 1 \in DOMAIN instance_list[d]
      BY <2>2, <2>3
    <3>2. QED BY <2>2, <3>1 DEF Range
  <2>4. QED BY <2>2, <2>3
<1>5. instance_list' = [instance_list EXCEPT ![d] = Append(@, w)]
  BY <1>1, <1>3, <1>4
<1>6. /\ obj' \in [Objects -> {"none", "fence", "deferred", "freed"}] /\ obj'[d] # "none"
      /\ \A p \in Objects : obj[p] # "none" => obj'[p] # "none"
  BY <1>1, <1>3, DeferKeeps
<1>7. /\ st' \in [Tasks -> {"new", "client", "wait", "render", "hw", "back", "unref", "done"}]
      /\ st'[w] = "wait"
      /\ \A u \in Tasks \ {w} : st'[u] \in {"wait", "client"} <=> st[u] \in {"wait", "client"}
  BY <1>1, <1>2, <1>3
<1>8. QED BY <1>1, <1>5, <1>6, <1>7, NewWait

\* A wait that ends was on the list of its object alone.
LEMMA EndWaitWaits ==
  ASSUME InstancesInv, NEW t \in Tasks, EndWait(t), st[t] \in {"wait", "client"}
  PROVE  InstancesInv'
<1>0. PICK o \in Objects : o = object[t]
  BY DEF InstancesInv, WaitersOK
<1>1. /\ instance_list \in [Objects -> Seq(Tasks)] /\ o \in Objects
      /\ object \in [Tasks -> Objects \cup {NoObject}]
      /\ st \in [Tasks -> {"new", "client", "wait", "render", "hw", "back", "unref", "done"}]
      /\ \A p \in Objects : Range(instance_list[p]) = Waits(p) /\ IsInjective(instance_list[p])
  BY ListedWaits DEF InstancesInv, WaitersOK, Listed
<1> DEFINE r == RemoveAt(instance_list[o], InstanceOf(instance_list[o], t))
<1>2. /\ instance_list' = [instance_list EXCEPT ![o] = r]
      /\ st' = [st EXCEPT ![t] = "done"] /\ object' = [object EXCEPT ![t] = NoObject]
      /\ UNCHANGED obj
  BY <1>0 DEF EndWait, DelReference, FreeTask
<1>3. t \in Waits(o) /\ \A p \in Objects \ {o} : t \notin Waits(p)
  BY <1>0 DEF Waits
<1>4. r \in Seq(Tasks) /\ IsInjective(r) /\ Range(r) = Waits(o) \ {t}
  BY <1>1, <1>3, TakeOff
<1> HIDE DEF r
<1>5. Waits(o)' = Waits(o) \ {t} /\ \A p \in Objects \ {o} : Waits(p)' = Waits(p)
  <2>1. NoObject \notin Objects
    BY DEF NoObject, Objects
  <2>2. \A u \in Tasks : u # t => st'[u] = st[u] /\ object'[u] = object[u]
    BY <1>1, <1>2
  <2>3. st'[t] = "done"
    BY <1>1, <1>2
  <2>4. QED BY <1>0, <2>2, <2>3 DEF Waits
<1>6. InstancesAccount'
  <2>1. Listed'
    BY <1>1, <1>2, <1>4, <1>5 DEF Listed
  <2>2. QED BY <2>1, ListedWaits, PTL
<1>7. NoObject \notin Objects
  BY DEF NoObject, Objects
<1>8. WaitersOK'
  BY <1>1, <1>2, <1>7 DEF InstancesInv, WaitersOK
<1>9. /\ instance_list' \in [Objects -> Seq(Tasks)]
      /\ object' \in [Tasks -> Objects \cup {NoObject}]
  BY <1>1, <1>2, <1>4
<1>10. QED BY <1>2, <1>6, <1>8, <1>9 DEF InstancesInv

\* The other steps of a task: none of them is a wait.
LEMMA MoveWaits ==
  ASSUME InstancesInv, UNCHANGED <<instance_list, obj>>,
         st' \in [Tasks -> {"new", "client", "wait", "render", "hw", "back", "unref", "done"}],
         \A t \in Tasks : st'[t] \in {"wait", "client"} <=> st[t] \in {"wait", "client"},
         \/ UNCHANGED object
         \/ \E t \in Tasks : /\ st[t] \notin {"wait", "client"}
                             /\ object' = [object EXCEPT ![t] = NoObject]
  PROVE  InstancesInv'
<1>1. NoObject \notin Objects
  BY DEF NoObject, Objects
<1>2. QED BY <1>1, KeepWaits DEF InstancesInv, SameWaits

LEMMA NextInstances == ASSUME InstancesInv, [Next]_vars PROVE InstancesInv'
<1>1. /\ st \in [Tasks -> {"new", "client", "wait", "render", "hw", "back", "unref", "done"}]
  BY DEF InstancesInv
<1>2. CASE TestLimit \/ \E o \in Objects : CreateSyncObject(o) \/ DestroySyncObject(o)
  BY <1>2, CreateWaits, DestroyWaits
<1>3. CASE DestroyDevice
  BY <1>3, DestroyDeviceWaits
<1>4. CASE \E t \in Tasks, c \in Contexts, o \in Objects, v \in 1..MaxFence :
             \/ WaitSyncObject(t, c, o, v, "wait")
             \/ WaitSyncObject(t, c, o, v, "client")
             \/ RenderTask(t, c, o, v)
  BY <1>4, WaitWaits, RenderWaits
<1>5. CASE \E t \in Tasks, c \in Contexts : RenderTask(t, c, NoObject, 0)
  BY <1>5, RenderWaits
<1>6. CASE \E t, w \in Tasks, c \in Contexts, d \in Objects : RenderShared(t, w, c, d)
  BY <1>6, RenderSharedWaits
<1>7. CASE \E t \in Tasks : WorkerWait(t) \/ ClientWait(t)
  BY <1>7, EndWaitWaits DEF WorkerWait, ClientWait
<1>8. CASE \E t \in Tasks : WorkerSubmit(t) \/ GpuFinish(t) \/ DoReleaseTask(t)
  <2>1. PICK t \in Tasks : WorkerSubmit(t) \/ GpuFinish(t) \/ DoReleaseTask(t)
    BY <1>8
  <2>2. /\ st[t] \in {"render", "hw", "unref"} /\ UNCHANGED <<instance_list, obj>>
        /\ \E s \in {"hw", "back", "done"} : st' = [st EXCEPT ![t] = s]
        /\ UNCHANGED object \/ object' = [object EXCEPT ![t] = NoObject]
    BY <2>1 DEF WorkerSubmit, GpuFinish, DoReleaseTask, FreeTask, descVars
  <2>3. QED BY <1>1, <2>2, MoveWaits
<1>9. CASE \E c \in Contexts : ResetEngine(c)
  BY <1>1, <1>9, MoveWaits DEF ResetEngine, objVars, descVars
<1>10. CASE \E c \in Contexts : ReleaseTask(c)
  <2>1. PICK c \in Contexts : ReleaseTask(c)
    BY <1>10
  <2>2. PICK t : st[t] = "back" /\ st' = [st EXCEPT ![t] = "unref"]
    BY <2>1 DEF ReleaseTask
  <2>3. UNCHANGED <<instance_list, obj, object>>
    BY <2>1 DEF ReleaseTask, objVars, descVars
  <2>4. QED BY <1>1, <2>2, <2>3, MoveWaits
<1>11. CASE \/ \E o \in Objects : DmaSignal(o)
            \/ \E o \in Objects, v \in 1..MaxFence : CheckStatus(o, v)
            \/ \E c \in Contexts :
                 WorkerReturn(c) \/ DestroyContext(c) \/ DropTasks(c) \/ FreeContext(c)
            \/ UNCHANGED vars
  <2>1. UNCHANGED instVars
    BY <1>11
    DEF DmaSignal, CheckStatus, WorkerReturn, DestroyContext, DropTasks, FreeContext, vars,
        objVars, descVars, runVars, instVars
  <2>2. QED BY <1>1, <2>1, MoveWaits DEF instVars
<1>12. QED BY <1>2, <1>3, <1>4, <1>5, <1>6, <1>7, <1>8, <1>9, <1>10, <1>11
           DEF Next, WorkerStep

\* The list the order of timeouts is taken from names the waits of the object, each
\* once, whichever way they end; also when a context is given up.
THEOREM InstancesCorrect == Spec => []InstancesAccount
<1>1. InstancesInv => InstancesAccount
  BY DEF InstancesInv
<1>2. QED BY <1>1, InitInstances, NextInstances, PTL DEF Spec
=============================================================================
