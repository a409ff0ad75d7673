---------------------------- MODULE VidMmPaging ----------------------------
(***************************************************************************)
(* Paging of allocations between video memory and system pages, and their  *)
(* deferred destruction.  The worker thread of each engine makes the       *)
(* allocations of a task resident, submits the task and gives its claims   *)
(* on them back; whoever holds paging_lock pages allocations in and, when  *)
(* video memory is full, others out, with copies on the paging engine; a   *)
(* client pins an allocation for a mapping or the display; the last        *)
(* reference to an allocation may go at any time, and an allocation that   *)
(* is not idle then waits in defer_destroy_list.                           *)
(*                                                                         *)
(* A task moves through                                                    *)
(*   new -> pending -> [retry ->] lock -> paging -> ready -> patch -> hw   *)
(* or ends as "drop" -> "dropped".  The holder of paging_lock moves        *)
(* through pg = in (-> build -> outsub -> outwait -> in) -> submit -> set. *)
(*                                                                         *)
(* There is one local segment; a place is the memory of one allocation     *)
(* (HeapManager has the heap).  segment_id, list_node and phys_addr change *)
(* together and are one variable.  Engines retire their work in order      *)
(* (VidSchEngine has the fences).                                          *)
(***************************************************************************)
EXTENDS Naturals, Integers, FiniteSets, FiniteSetsExt

CONSTANTS
  Allocs, Places, Tasks, Clients, Engines,
  PagingEngine,   \* adapter->paging_engine_index
  EngineOf,       \* the engine of a task's context
  PinOf,          \* the allocation a client pins
  NoPlace,        \* SEGMENT_ID_INVALID
  Nobody,
  MaxTries,       \* VISCH_MAX_PREPARE_TRY_TIMES
  PinModulus      \* force_unpagable has 5 bits: 32

ASSUME PagingAssumption ==
  /\ PagingEngine \in Engines /\ EngineOf \in [Tasks -> Engines]
  /\ PinOf \in [Clients -> Allocs]
  /\ NoPlace \notin Places /\ Nobody \notin Tasks \cup Clients
  /\ Tasks \cap Clients = {}
  /\ IsFiniteSet(Tasks) /\ IsFiniteSet(Clients) /\ IsFiniteSet(Allocs)
  /\ MaxTries \in Nat /\ PinModulus \in Nat \ {0}

VARIABLES
  life, seg, cached, free,              \* allocations, the heap's free places
  render_count, fence_id,               \* by engine and allocation
  submit_ref_cnt, force_unpagable, last_paging,
  send, back,                           \* last sent and last returned fence ids
  jobs,                                 \* what the GPU was given and not finished
  st, allocs, tries, seen,              \* tasks
  pager, pg, todo, coming, leaving, result, pgfence,
  client,
  failed                                \* by allocation: pins that found no memory

allocVars == <<life, seg, cached, free>>
countVars == <<render_count, submit_ref_cnt>>
fenceVars == <<fence_id, last_paging, send, jobs>>
taskVars == <<st, allocs, tries, seen>>
pagerVars == <<pager, pg, todo, coming, leaving, result, pgfence>>
clientVars == <<client, force_unpagable>>
vars == <<allocVars, countVars, fenceVars, back, taskVars, pagerVars, clientVars,
          failed>>

Nowhere == [a \in Allocs |-> NoPlace]
In(where) == {a \in Allocs : where[a] # NoPlace}
Zero == [a \in Allocs |-> 0]

Init ==
  /\ life = [a \in Allocs |-> "none"] /\ seg = Nowhere
  /\ cached = {} /\ free = Places
  /\ render_count = [e \in Engines |-> Zero] /\ fence_id = [e \in Engines |-> Zero]
  /\ submit_ref_cnt = Zero /\ force_unpagable = Zero /\ last_paging = Zero
  /\ send = [e \in Engines |-> 0] /\ back = [e \in Engines |-> 0] /\ jobs = {}
  /\ st = [t \in Tasks |-> "new"] /\ allocs = [t \in Tasks |-> {}]
  /\ tries = [t \in Tasks |-> 0] /\ seen = [t \in Tasks |-> 0]
  /\ pager = Nobody /\ pg = "none" /\ todo = {} /\ coming = Nowhere
  /\ leaving = Nowhere /\ result = "ok" /\ pgfence = 0
  /\ client = [c \in Clients |-> "idle"]
  /\ failed = Zero

-----------------------------------------------------------------------------
(* Counts, fences and places.                                              *)

Plus(f, S, n) == [a \in Allocs |-> IF a \in S THEN f[a] + n ELSE f[a]]
CountRender(e, S, n) == [render_count EXCEPT ![e] = Plus(@, S, n)]

Back(e, f) == f <= back[e]

\* vidsch_allocation_in_hw_queue, vidsch_is_allocation_idle
InHwQueue(a) == \E e \in Engines : ~Back(e, fence_id[e][a])
Idle(a) == ~InHwQueue(a) /\ \A e \in Engines : render_count[e][a] = 0

\* Plausible bug: force_unpagable is not part of the word that is tested.
BugPageOutPinned(a) == submit_ref_cnt[a] = 0 /\ life[a] = "live" /\ ~InHwQueue(a)

\* status.temp_unpagable is submit_ref_cnt, force_unpagable and wait_for_destroy
\* in one word; an allocation is paged out only when the word is 0.
CanPageOut(a) ==
  /\ submit_ref_cnt[a] = 0 /\ force_unpagable[a] = 0 /\ life[a] = "live"
  /\ ~InHwQueue(a)

\* engine_lock is held from taking a fence id to the kick-off.
EngineLockFree(e) == \A t \in Tasks : st[t] = "patch" => EngineOf[t] # e

Sent(e, S) ==
  /\ send' = [send EXCEPT ![e] = @ + 1]
  /\ fence_id' = [fence_id EXCEPT
                    ![e] = [a \in Allocs |-> IF a \in S THEN send[e] + 1 ELSE @[a]]]

Job(e, f, where) == [engine |-> e, fence |-> f, uses |-> where]

-----------------------------------------------------------------------------
(* Creation and destruction.                                               *)

\* vidmm_create_allocation: in video memory if there is room, else as system
\* cache; what must be in video memory at once (primary, unpagable or
\* compressed allocations) is left out.
CreateAllocation(a) ==
  /\ life[a] = "none" /\ life' = [life EXCEPT ![a] = "live"]
  /\ IF free = {} THEN cached' = cached \cup {a} /\ UNCHANGED <<seg, free>>
     ELSE \E p \in free : /\ seg' = [seg EXCEPT ![a] = p] /\ free' = free \ {p}
                          /\ UNCHANGED cached
  /\ UNCHANGED <<countVars, fenceVars, back, taskVars, pagerVars, clientVars, failed>>

\* Plausible bugs: only the fences are looked at, or only resident allocations.
BugDestroyQueued(a) == ~InHwQueue(a)
BugDestroyResident(a) == Idle(a) /\ seg[a] # NoPlace

CanDestroy(a) == Idle(a)

Pinning(a) == {c \in Clients : client[c] \in {"lock", "prepare", "pinned"} /\ PinOf[c] = a}

\* vidmm_unreference_allocation of the last reference; a thread that pins the
\* allocation has one.
Unreference(a) ==
  /\ life[a] = "live" /\ Pinning(a) = {}
  /\ life' = [life EXCEPT ![a] = IF CanDestroy(a) THEN "freeing" ELSE "deferred"]
  /\ UNCHANGED <<seg, cached, free, countVars, fenceVars, back, taskVars, pagerVars,
                 clientVars, failed>>

\* vidmm_destroy_defer_allocation
DestroyDefer(a) ==
  /\ life[a] = "deferred" /\ CanDestroy(a)
  /\ life' = [life EXCEPT ![a] = "freeing"]
  /\ UNCHANGED <<seg, cached, free, countVars, fenceVars, back, taskVars, pagerVars,
                 clientVars, failed>>

\* Plausible bug: the video memory is kept.
BugKeepMemory(a) == {}

\* vidmmi_release_video_memory
ReleasedPlace(a) == {seg[a]} \ {NoPlace}

\* Removal from its list and vidmmi_destroy_allocation, without the lock.
DestroyAllocation(a) ==
  /\ life[a] = "freeing" /\ life' = [life EXCEPT ![a] = "gone"]
  /\ seg' = [seg EXCEPT ![a] = NoPlace] /\ free' = free \cup ReleasedPlace(a)
  /\ cached' = cached \ {a}
  /\ UNCHANGED <<countVars, fenceVars, back, taskVars, pagerVars, clientVars, failed>>

-----------------------------------------------------------------------------
(* A task: rendering, claims on its allocations, submission.               *)

\* vidschi_init_render_allocation_list
Render(t, S) ==
  /\ st[t] = "new" /\ S # {} /\ \A a \in S : life[a] = "live"
  /\ st' = [st EXCEPT ![t] = "pending"] /\ allocs' = [allocs EXCEPT ![t] = S]
  /\ render_count' = CountRender(EngineOf[t], S, 1)
  /\ UNCHANGED <<allocVars, submit_ref_cnt, fenceVars, back, tries, seen, pagerVars,
                 clientVars, failed>>

InWorker(t) == st[t] \in {"retry", "lock", "paging", "ready", "patch", "drop"}
WorkerFree(t) == \A u \in Tasks : EngineOf[u] = EngineOf[t] => ~InWorker(u)

\* The first loop of vidschi_resident_task_allocations.
Mark(t) ==
  /\ st[t] = "retry" \/ (st[t] = "pending" /\ WorkerFree(t))
  /\ submit_ref_cnt' = Plus(submit_ref_cnt, allocs[t], 1)
  /\ seen' = [seen EXCEPT ![t] = Max({last_paging[a] : a \in allocs[t]})]
  /\ st' = [st EXCEPT ![t] = IF \E a \in allocs[t] : seg[a] = NoPlace
                             THEN "lock" ELSE "ready"]
  /\ UNCHANGED <<allocVars, render_count, fenceVars, back, allocs, tries, pagerVars,
                 clientVars, failed>>

\* paging_lock is taken and residency looked at again.
LockPaging(t) ==
  /\ st[t] = "lock" /\ pager = Nobody /\ pager' = t
  /\ st' = [st EXCEPT ![t] = "paging"]
  /\ pg' = "in" /\ todo' = {a \in allocs[t] : seg[a] = NoPlace}
  /\ result' = "ok" /\ pgfence' = 0
  /\ UNCHANGED <<allocVars, countVars, fenceVars, back, allocs, tries, seen, coming,
                 leaving, clientVars, failed>>

\* Plausible bug: the claim is given back twice.
BugDropTwice(t) == submit_ref_cnt' = Plus(submit_ref_cnt, allocs[t], -2)

DropClaim(t) == submit_ref_cnt' = Plus(submit_ref_cnt, allocs[t], -1)

\* vidschi_submit_dma up to the unlock of each allocation; a task of another
\* engine has waited for the paging it knows of.
SubmitDma(t) ==
  LET e == EngineOf[t] IN
  /\ st[t] = "ready" /\ (e # PagingEngine => Back(PagingEngine, seen[t]))
  /\ EngineLockFree(e)
  /\ Sent(e, allocs[t])
  /\ render_count' = CountRender(e, allocs[t], -1)
  /\ DropClaim(t)
  /\ st' = [st EXCEPT ![t] = "patch"]
  /\ UNCHANGED <<allocVars, last_paging, jobs, back, allocs, tries, seen, pagerVars,
                 clientVars, failed>>

\* The addresses are read, patched into the commands and kicked off.
KickOff(t) ==
  LET e == EngineOf[t] IN
  /\ st[t] = "patch" /\ st' = [st EXCEPT ![t] = "hw"]
  /\ jobs' = jobs \cup
       {Job(e, send[e], [a \in Allocs |-> IF a \in allocs[t] THEN seg[a] ELSE NoPlace])}
  /\ UNCHANGED <<allocVars, countVars, fence_id, last_paging, send, back, allocs, tries,
                 seen, pagerVars, clientVars, failed>>

\* vidschi_fake_submit_dma: nothing could be made resident, or the hardware
\* context is invalid since a task of it was dropped.
FakeSubmit(t) ==
  /\ \/ st[t] = "drop"
     \/ st[t] = "pending" /\ WorkerFree(t) /\ \E u \in Tasks : st[u] = "dropped"
  /\ st' = [st EXCEPT ![t] = "dropped"]
  /\ render_count' = CountRender(EngineOf[t], allocs[t], -1)
  /\ UNCHANGED <<allocVars, submit_ref_cnt, fenceVars, back, allocs, tries, seen,
                 pagerVars, clientVars, failed>>

-----------------------------------------------------------------------------
(* A client pins an allocation: vidmm_prepare_and_mark_unpagable.          *)

MarkUnpagable(c) ==
  LET a == PinOf[c] IN
  /\ client[c] = "idle" /\ life[a] = "live"
  /\ force_unpagable' = [force_unpagable EXCEPT ![a] = (@ + 1) % PinModulus]
  /\ client' = [client EXCEPT ![c] = IF seg[a] = NoPlace THEN "lock" ELSE "pinned"]
  /\ UNCHANGED <<allocVars, countVars, fenceVars, back, taskVars, pagerVars, failed>>

\* vidmmi_prepare_one_allocation, with the double check under paging_lock.
PrepareOne(c) ==
  /\ client[c] = "lock" /\ pager = Nobody
  /\ IF seg[PinOf[c]] # NoPlace
     THEN /\ client' = [client EXCEPT ![c] = "pinned"]
          /\ UNCHANGED <<pager, pg, todo, result, pgfence>>
     ELSE /\ client' = [client EXCEPT ![c] = "prepare"]
          /\ pager' = c /\ pg' = "in" /\ todo' = {PinOf[c]}
          /\ result' = "ok" /\ pgfence' = 0
  /\ UNCHANGED <<allocVars, countVars, fenceVars, back, taskVars, coming, leaving,
                 force_unpagable, failed>>

MarkPagable(c) ==
  /\ client[c] = "pinned" /\ client' = [client EXCEPT ![c] = "done"]
  /\ force_unpagable' = [force_unpagable EXCEPT
                           ![PinOf[c]] = (@ + PinModulus - 1) % PinModulus]
  /\ UNCHANGED <<allocVars, countVars, fenceVars, back, taskVars, pagerVars, failed>>

-----------------------------------------------------------------------------
(* The holder of paging_lock.                                              *)

\* vidmm_resident_one_allocation of an allocation for which there is room.
ResidentOne(a, p) ==
  /\ pg = "in" /\ a \in todo /\ p \in free
  /\ free' = free \ {p} /\ cached' = cached \ {a}
  /\ coming' = [coming EXCEPT ![a] = p] /\ todo' = todo \ {a}
  /\ render_count' = CountRender(PagingEngine, {a}, 1)
  /\ UNCHANGED <<life, seg, submit_ref_cnt, fenceVars, back, taskVars, pager, pg,
                 leaving, result, pgfence, clientVars, failed>>

\* vidmmi_paging_in fails: no system pages ("nomem"), or no room for the copy in
\* the paging segment or in the paging DMA ("again").  The rest is not tried.
PagingInFails(r) ==
  /\ pg = "in" /\ todo # {} /\ free # {}
  /\ result' = r /\ pg' = "submit"
  /\ UNCHANGED <<allocVars, countVars, fenceVars, back, taskVars, pager, todo, coming,
                 leaving, pgfence, clientVars, failed>>

\* vidmmi_segment_unresident_allocations, step 1: some of the candidates (a
\* bounded number is taken), or none is found.
Unresident(S) ==
  /\ pg = "in" /\ todo # {} /\ free = {}
  /\ S # {} /\ \A a \in S : seg[a] # NoPlace /\ CanPageOut(a)
  /\ pg' = "build"
  /\ leaving' = [a \in Allocs |-> IF a \in S THEN seg[a] ELSE NoPlace]
  /\ seg' = [a \in Allocs |-> IF a \in S THEN NoPlace ELSE seg[a]]
  /\ render_count' = CountRender(PagingEngine, S, 2)
  /\ UNCHANGED <<life, cached, free, submit_ref_cnt, fenceVars, back, taskVars, pager,
                 todo, coming, result, pgfence, clientVars, failed>>

NoCandidate ==
  /\ pg = "in" /\ todo # {} /\ free = {}
  /\ \A a \in In(seg) : ~CanPageOut(a)
  /\ result' = "again" /\ pg' = "submit"
  /\ UNCHANGED <<allocVars, countVars, fenceVars, back, taskVars, pager, todo, coming,
                 leaving, pgfence, clientVars, failed>>

\* Plausible bug: the second of the two references is not taken back.
BugRestoreOne(F) == CountRender(PagingEngine, F, -1)

RestoreCount(F) == CountRender(PagingEngine, F, -2)

\* Step 2: the copies of F cannot be built; these allocations are restored and
\* the others still paged out.
PagingOut(F) ==
  /\ pg = "build" /\ F \subseteq In(leaving)
  /\ seg' = [a \in Allocs |-> IF a \in F THEN leaving[a] ELSE seg[a]]
  /\ leaving' = [a \in Allocs |-> IF a \in F THEN NoPlace ELSE leaving[a]]
  /\ render_count' = RestoreCount(F)
  /\ IF In(leaving) # F THEN pg' = "outsub" /\ UNCHANGED result
     ELSE pg' = "submit" /\ result' \in {"again", "nomem"}
  /\ UNCHANGED <<life, cached, free, submit_ref_cnt, fenceVars, back, taskVars, pager,
                 todo, coming, pgfence, clientVars, failed>>

\* vidsch_submit_paging_task of the copies for the allocations in where.
SubmitPaging(where) ==
  LET S == In(where) IN
  /\ EngineLockFree(PagingEngine)
  /\ Sent(PagingEngine, S)
  /\ last_paging' = [a \in Allocs |-> IF a \in S THEN send[PagingEngine] + 1
                                      ELSE last_paging[a]]
  /\ jobs' = jobs \cup {Job(PagingEngine, send[PagingEngine] + 1, where)}
  /\ pgfence' = send[PagingEngine] + 1

\* Step 3.
SubmitOut ==
  /\ pg = "outsub" /\ pg' = "outwait"
  /\ SubmitPaging(leaving)
  /\ render_count' = CountRender(PagingEngine, In(leaving), -1)
  /\ UNCHANGED <<allocVars, submit_ref_cnt, back, taskVars, pager, todo, coming, leaving,
                 result, clientVars, failed>>

\* Plausible bug: the memory is given back before the copy is done.
BugNoWait == TRUE

CopyDone == Back(PagingEngine, pgfence)

\* Step 4, after the fence is back.
ReleaseVideoMemory ==
  /\ pg = "outwait" /\ CopyDone /\ pg' = "in"
  /\ free' = free \cup {leaving[a] : a \in In(leaving)}
  /\ cached' = cached \cup In(leaving)
  /\ render_count' = CountRender(PagingEngine, In(leaving), -1)
  /\ leaving' = Nowhere /\ pgfence' = 0
  /\ UNCHANGED <<life, seg, submit_ref_cnt, fenceVars, back, taskVars, pager, todo,
                 coming, result, clientVars, failed>>

\* The paging task of what could be paged in is submitted in any case.
\* vidmmi_prepare_one_allocation counts its allocation as paged in even when it
\* was not (paging_allocation_num is 1 from the start).
SubmitIn ==
  /\ pg = "submit" \/ (pg = "in" /\ todo = {})
  /\ pg' = "set"
  /\ IF In(coming) # {} THEN SubmitPaging(coming) ELSE UNCHANGED <<fenceVars, pgfence>>
  /\ render_count' = CountRender(PagingEngine,
                                 IF pager \in Clients THEN {PinOf[pager]} ELSE In(coming),
                                 -1)
  /\ failed' = IF pager \in Clients /\ In(coming) = {}
               THEN [failed EXCEPT ![PinOf[pager]] = @ + 1] ELSE failed
  /\ UNCHANGED <<allocVars, submit_ref_cnt, back, taskVars, pager, todo, coming, leaving,
                 result, clientVars>>

\* The new places become visible and paging_lock is released.
Resident ==
  /\ seg' = [a \in Allocs |-> IF coming[a] # NoPlace THEN coming[a] ELSE seg[a]]
  /\ coming' = Nowhere /\ todo' = {} /\ pager' = Nobody /\ pg' = "none"
  /\ result' = "ok" /\ pgfence' = 0
  /\ UNCHANGED <<life, cached, free, render_count, fenceVars, back, allocs, leaving,
                 force_unpagable, failed>>

\* The task is ready, tries again, or is given up; a failure drops its claims.
TaskResident(t) ==
  /\ pager = t /\ pg = "set" /\ Resident
  /\ seen' = IF pgfence > 0 THEN [seen EXCEPT ![t] = pgfence] ELSE seen
  /\ IF result = "ok"
     THEN /\ st' = [st EXCEPT ![t] = "ready"]
          /\ UNCHANGED <<submit_ref_cnt, tries>>
     ELSE /\ submit_ref_cnt' = Plus(submit_ref_cnt, allocs[t], -1)
          /\ IF result = "again" /\ tries[t] < MaxTries
             THEN st' = [st EXCEPT ![t] = "retry"] /\ tries' = [tries EXCEPT ![t] = @ + 1]
             ELSE st' = [st EXCEPT ![t] = "drop"] /\ UNCHANGED tries
  /\ UNCHANGED client

\* The client waits for the copy first.
ClientResident(c) ==
  /\ pager = c /\ pg = "set" /\ CopyDone /\ Resident
  /\ client' = [client EXCEPT ![c] = "pinned"]
  /\ UNCHANGED <<submit_ref_cnt, st, tries, seen>>

-----------------------------------------------------------------------------
\* The GPU (external) finishes the oldest work of an engine.
GpuFinish(e) ==
  /\ \E j \in jobs : j.engine = e /\ j.fence = back[e] + 1
  /\ jobs' = {j \in jobs : ~(j.engine = e /\ j.fence = back[e] + 1)}
  /\ back' = [back EXCEPT ![e] = @ + 1]
  /\ UNCHANGED <<allocVars, countVars, fence_id, last_paging, send, taskVars, pagerVars,
                 clientVars, failed>>

WorkerStep(t) == Mark(t) \/ LockPaging(t) \/ SubmitDma(t) \/ KickOff(t) \/ FakeSubmit(t)

PagerStep ==
  \/ \E a \in Allocs, p \in Places : ResidentOne(a, p)
  \/ \E r \in {"again", "nomem"} : PagingInFails(r)
  \/ \E S \in SUBSET Allocs : Unresident(S) \/ PagingOut(S)
  \/ NoCandidate \/ SubmitOut \/ ReleaseVideoMemory \/ SubmitIn
  \/ \E t \in Tasks : TaskResident(t)
  \/ \E c \in Clients : ClientResident(c)

Next ==
  \/ \E a \in Allocs : CreateAllocation(a) \/ Unreference(a) \/ DestroyDefer(a)
                       \/ DestroyAllocation(a)
  \/ \E t \in Tasks : WorkerStep(t) \/ \E S \in SUBSET Allocs : Render(t, S)
  \/ \E c \in Clients : MarkUnpagable(c) \/ PrepareOne(c) \/ MarkPagable(c)
  \/ PagerStep
  \/ \E e \in Engines : GpuFinish(e)

Spec == Init /\ [][Next]_vars

\* Threads inside the driver and the GPU keep running and the daemon looks at
\* defer_destroy_list again and again; nobody has to render, to pin, to unpin or
\* to drop a reference.
Fairness ==
  /\ \A t \in Tasks : WF_vars(WorkerStep(t))
  /\ \A c \in Clients : WF_vars(PrepareOne(c))
  /\ \A a \in Allocs : WF_vars(DestroyDefer(a) \/ DestroyAllocation(a))
  /\ WF_vars(PagerStep) /\ \A e \in Engines : WF_vars(GpuFinish(e))

FairSpec == Spec /\ Fairness

-----------------------------------------------------------------------------
(* Properties.                                                             *)

\* The variables keep their types; no claim of a submission is given back twice.
TypeOK ==
  /\ life \in [Allocs -> {"none", "live", "deferred", "freeing", "gone"}]
  /\ seg \in [Allocs -> Places \cup {NoPlace}]
  /\ cached \subseteq Allocs /\ free \subseteq Places
  /\ render_count \in [Engines -> [Allocs -> Int]]
  /\ fence_id \in [Engines -> [Allocs -> Nat]]
  /\ submit_ref_cnt \in [Allocs -> Nat] /\ force_unpagable \in [Allocs -> Nat]
  /\ last_paging \in [Allocs -> Nat]
  /\ send \in [Engines -> Nat] /\ back \in [Engines -> Nat]
  /\ st \in [Tasks -> {"new", "pending", "retry", "lock", "paging", "ready", "patch",
                       "hw", "drop", "dropped"}]
  /\ allocs \in [Tasks -> SUBSET Allocs]
  /\ tries \in [Tasks -> 0..MaxTries] /\ seen \in [Tasks -> Nat]
  /\ pager \in Tasks \cup Clients \cup {Nobody}
  /\ pg \in {"none", "in", "build", "outsub", "outwait", "submit", "set"}
  /\ todo \subseteq Allocs
  /\ coming \in [Allocs -> Places \cup {NoPlace}]
  /\ leaving \in [Allocs -> Places \cup {NoPlace}]
  /\ result \in {"ok", "again", "nomem"} /\ pgfence \in Nat
  /\ client \in [Clients -> {"idle", "lock", "prepare", "pinned", "done"}]
  /\ failed \in [Allocs -> Nat]

\* The allocation's own place: where it is, comes to or leaves from.
At(a, p) == seg[a] = p \/ coming[a] = p \/ leaving[a] = p

\* A place of video memory is free or belongs to one allocation, on every path
\* of paging and of its failures.
PlacesAccount ==
  \A p \in Places :
    Cardinality({a \in Allocs : At(a, p)}) = IF p \in free THEN 0 ELSE 1

\* The queue, the worker or a paging step still needs the allocation.
InQueue(t) == st[t] = "pending" \/ (InWorker(t) /\ st[t] # "patch")
Holders(e, a) ==
  Cardinality({t \in Tasks : EngineOf[t] = e /\ InQueue(t) /\ a \in allocs[t]})
PagingHolds(a) ==
  (IF coming[a] # NoPlace /\ pg # "set" THEN 1 ELSE 0)
    + (IF leaving[a] = NoPlace THEN 0 ELSE IF pg = "outwait" THEN 1 ELSE 2)

\* render_count is the number of tasks and of paging steps that still need the
\* allocation (one less for each pin that found no memory), and submit_ref_cnt
\* the number of tasks being submitted: every path through paging, its failures
\* and its retries gives back what it took.
CountsAccount ==
  /\ \A e \in Engines, a \in Allocs :
       render_count[e][a] =
         Holders(e, a) + IF e = PagingEngine THEN PagingHolds(a) - failed[a] ELSE 0
  /\ \A a \in Allocs :
       submit_ref_cnt[a] =
         Cardinality({t \in Tasks : st[t] \in {"lock", "paging", "ready"} /\ a \in allocs[t]})

Needed(a) ==
  \/ \E t \in Tasks : InQueue(t) /\ a \in allocs[t]
  \/ coming[a] # NoPlace \/ leaving[a] # NoPlace \/ Pinning(a) # {}

\* An allocation that a task in the queue, a paging step or a pin relies on is
\* neither destroyed nor about to be, unless a pin of it found no memory.
NeededIsAlive ==
  \A a \in Allocs :
    Needed(a) /\ failed[a] = 0 => life[a] \in {"live", "deferred"}

\* What the GPU is given is in video memory, and what it still has to execute
\* finds every allocation at the address that was patched into the commands:
\* neither paging nor destruction takes memory from under a task or a copy.
GpuMemoryStays ==
  /\ \A t \in Tasks : st[t] = "patch" =>
       \A a \in allocs[t] : failed[a] = 0 => seg[a] # NoPlace
  /\ \A j \in jobs : \A a \in In(j.uses) :
       failed[a] = 0 => life[a] # "gone" /\ At(a, j.uses[a])

\* An allocation somebody mapped or displays stays in video memory, although the
\* check that it is there is made without a lock.
PinnedIsResident ==
  \A c \in Clients :
    client[c] = "pinned" /\ failed[PinOf[c]] = 0 => seg[PinOf[c]] # NoPlace

\* An allocation in defer_destroy_list is destroyed in the end: no count and no
\* fence keeps it busy for ever, unless a pin of it found no memory.
DeferredIsDestroyed ==
  \A a \in Allocs : life[a] = "deferred" ~> (life[a] = "gone" \/ failed[a] > 0)

\* A task of another engine than the paging engine only runs when the copies of
\* its allocations into video memory are done ("multi-engine sync: wait paging
\* back").
PagedInBeforeUse ==
  \A t \in Tasks :
    st[t] = "patch" /\ EngineOf[t] # PagingEngine
      => \A a \in allocs[t] : Back(PagingEngine, last_paging[a])

-----------------------------------------------------------------------------
(* The inductive invariant behind PlacesAccount.                           *)

PlacesTypeOK ==
  /\ life \in [Allocs -> {"none", "live", "deferred", "freeing", "gone"}]
  /\ seg \in [Allocs -> Places \cup {NoPlace}] /\ free \subseteq Places
  /\ coming \in [Allocs -> Places \cup {NoPlace}]
  /\ leaving \in [Allocs -> Places \cup {NoPlace}]
  /\ todo \subseteq Allocs /\ allocs \in [Tasks -> SUBSET Allocs]
  /\ client \in [Clients -> {"idle", "lock", "prepare", "pinned", "done"}]

\* A place that is not free has one owner, which has it in one of three roles.
OneOwner ==
  /\ \A p \in Places : p \in free <=> \A a \in Allocs : ~At(a, p)
  /\ \A p \in Places, a, b \in Allocs : At(a, p) /\ At(b, p) => a = b
  /\ \A a \in Allocs : seg[a] # NoPlace => coming[a] = NoPlace /\ leaving[a] = NoPlace
  /\ \A a \in Allocs : coming[a] # NoPlace => leaving[a] = NoPlace

\* Allocations only come and leave under paging_lock, and what is to come has
\* no place yet.
OnlyPaged ==
  /\ pager = Nobody <=> pg = "none"
  /\ pg = "none" => coming = Nowhere
  /\ pg \notin {"build", "outsub", "outwait"} => leaving = Nowhere
  /\ \A a \in todo : seg[a] = NoPlace /\ coming[a] = NoPlace /\ leaving[a] = NoPlace

\* What is rendered with, pinned or paged in has been created.
Created ==
  /\ \A t \in Tasks : \A a \in allocs[t] : life[a] # "none"
  /\ \A c \in Clients : client[c] # "idle" => life[PinOf[c]] # "none"
  /\ pager \in Clients => client[pager] # "idle"
  /\ \A a \in todo : life[a] # "none"
  /\ \A a \in Allocs :
       life[a] = "none" => seg[a] = NoPlace /\ coming[a] = NoPlace /\ leaving[a] = NoPlace

PlacesInv == PlacesTypeOK /\ OneOwner /\ OnlyPaged /\ Created

-----------------------------------------------------------------------------
(* The inductive invariant behind CountsAccount.                           *)

\* Who holds paging_lock pages for itself: a task its own allocations, a client
\* the one it pins.  Without an error everything was paged in.  A task that was
\* rendered has allocations.
PagerOK ==
  /\ \A t \in Tasks : st[t] # "new" => allocs[t] # {}
  /\ \A t \in Tasks : st[t] = "paging" <=> pager = t
  /\ \A c \in Clients : client[c] = "prepare" <=> pager = c
  /\ pager \in Tasks => todo \cup In(coming) \subseteq allocs[pager]
  /\ pager \in Clients => todo \cup In(coming) \subseteq {PinOf[pager]}
  /\ pg = "submit" => result # "ok"
  /\ pg = "set" /\ result = "ok" => todo = {}
  /\ pg = "set" /\ pager \in Clients /\ In(coming) = {} => failed[PinOf[pager]] > 0

CountsInv == TypeOK /\ PlacesInv /\ PagerOK /\ CountsAccount

-----------------------------------------------------------------------------
(* The inductive invariant behind NeededIsAlive and GpuMemoryStays.        *)

\* A task between its fence id and its kick-off has the newest id of its engine,
\* which is not back.
FencesOK ==
  /\ \A e \in Engines : back[e] <= send[e]
  /\ \A t \in Tasks : st[t] = "patch" =>
       /\ back[EngineOf[t]] < send[EngineOf[t]]
       /\ \A a \in allocs[t] : fence_id[EngineOf[t]][a] = send[EngineOf[t]]
  /\ \A t, u \in Tasks :
       st[t] = "patch" /\ st[u] = "patch" /\ EngineOf[t] = EngineOf[u] => t = u

\* A job is not back, and what it uses is known to be in the hardware queue; what
\* is on its way out is only used by the copy that is waited for.
JobOK(j) ==
  /\ back[j.engine] < j.fence /\ j.fence <= send[j.engine]
  /\ \A t \in Tasks :
       st[t] = "patch" /\ EngineOf[t] = j.engine => j.fence < send[j.engine]
  /\ \A a \in In(j.uses) :
       /\ j.fence <= fence_id[j.engine][a]
       /\ leaving[a] # NoPlace =>
            pg = "outwait" /\ j.engine = PagingEngine /\ j.fence <= pgfence

JobType == [engine : Engines, fence : Nat, uses : [Allocs -> Places \cup {NoPlace}]]

JobsOK ==
  /\ jobs \subseteq JobType
  /\ \A j \in jobs : JobOK(j)

\* What is needed or in the hardware queue is neither destroyed nor about to be.
AliveOK ==
  /\ \A a \in Allocs : Pinning(a) # {} => life[a] = "live"
  /\ \A a \in Allocs :
       (Needed(a) \/ InHwQueue(a)) /\ failed[a] = 0 => life[a] \in {"live", "deferred"}

\* What a task was made resident with is there until the GPU has it.
ResidentOK ==
  \A t \in Tasks : \A a \in allocs[t] : failed[a] = 0 =>
    /\ st[t] \in {"ready", "patch"} => seg[a] # NoPlace
    /\ st[t] = "paging" => seg[a] # NoPlace \/ coming[a] # NoPlace \/ a \in todo

\* The second part of GpuMemoryStays; ResidentOK gives the first.
JobStays(j) ==
  \A a \in In(j.uses) : failed[a] = 0 => life[a] # "gone" /\ At(a, j.uses[a])

StaysOK == \A j \in jobs : JobStays(j)

UseInv == FencesOK /\ JobsOK /\ AliveOK /\ ResidentOK /\ StaysOK

-----------------------------------------------------------------------------
(* The inductive invariant behind PinnedIsResident.                        *)

\* The five bits of force_unpagable are enough for the pins of one allocation.
FewPins ==
  \A a \in Allocs : Cardinality({c \in Clients : PinOf[c] = a}) < PinModulus

PinCounts == \A a \in Allocs : force_unpagable[a] = Cardinality(Pinning(a))

PinsInv == PinCounts /\ PinnedIsResident

-----------------------------------------------------------------------------
(* What PagedInBeforeUse needs: no allocation is used by tasks of two      *)
(* engines.  The inductive invariant.                                      *)

NotShared ==
  \A t, u \in Tasks : EngineOf[t] # EngineOf[u] => allocs[t] \cap allocs[u] = {}

\* The wait of SubmitDma covers the last copy of the allocation.
Covered(t, a) == last_paging[a] <= seen[t] \/ Back(PagingEngine, last_paging[a])

\* Each engine has one worker, which has one task at a time.
OneTask ==
  /\ \A t \in Tasks : st[t] = "new" => allocs[t] = {}
  /\ \A t, u \in Tasks :
       InWorker(t) /\ InWorker(u) /\ EngineOf[t] = EngineOf[u] => t = u

\* Copies have ids that were sent, and the holder of paging_lock knows the last.
CopiesOK ==
  /\ \A a \in Allocs : last_paging[a] <= send[PagingEngine]
  /\ pg \notin {"outwait", "set"} => pgfence = 0
  /\ pgfence > 0 => \A a \in Allocs : last_paging[a] <= pgfence

\* What a task was made resident with is not paged any more, unless it was
\* destroyed by mistake.
SettledOK ==
  \A t \in Tasks : \A a \in allocs[t] :
    /\ st[t] \in {"ready", "patch"} =>
         /\ coming[a] = NoPlace /\ leaving[a] = NoPlace /\ a \notin todo
         /\ seg[a] # NoPlace \/ life[a] = "gone"
    /\ st[t] = "paging" =>
         seg[a] # NoPlace \/ coming[a] # NoPlace \/ a \in todo \/ life[a] = "gone"

\* A copy the task does not know of is waited for under paging_lock.
CoveredOK ==
  \A t \in Tasks : \A a \in allocs[t] :
    /\ st[t] \in {"lock", "paging"} =>
         \/ Covered(t, a)
         \/ /\ pg \in {"outwait", "set"} /\ last_paging[a] <= pgfence
            /\ pg = "set" => pager = t \/ pager \in Clients
    /\ st[t] = "ready" => Covered(t, a)
    /\ st[t] = "patch" /\ EngineOf[t] # PagingEngine =>
         Back(PagingEngine, last_paging[a])

WaitInv == OneTask /\ CopiesOK /\ (NotShared => SettledOK /\ CoveredOK)
=============================================================================
