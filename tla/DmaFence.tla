------------------------------ MODULE DmaFence ------------------------------
(***************************************************************************)
(* The DMA fences of gf_fence.c: how renders are seen by other drivers,    *)
(* and how a render waits for the fences of others.                        *)
(*                                                                         *)
(* A render emits a fence when it is queued and attaches it to the         *)
(* reservation of its buffer.  Whoever waits for it enables signaling,     *)
(* which puts it on fence_list; the event thread signals the fences on the *)
(* list whose id is back.  A DMA sync object collects the fences of a      *)
(* buffer that belong to other engines: it adds a callback to each and is  *)
(* signaled by the last one, which wakes the worker of its render.         *)
(*                                                                         *)
(* The locks are kept: each engine's fences share a spin lock, fence_list  *)
(* has driver->lock, the sync object has its own.  dma_fence_t, its        *)
(* callbacks and the reservation are Linux (external).  Lost interrupts    *)
(* are in VidSchEngine; freezing and the display's primary buffers are     *)
(* left out.                                                               *)
(***************************************************************************)
EXTENDS Naturals, Sequences, SequencesExt, FiniteSets

CONSTANTS
  Fences, Engines, EngineOf,
  SyncEngine,     \* the engine whose render waits with a DMA sync object
  NoFence

ASSUME FenceAssumption ==
  /\ IsFiniteSet(Fences) /\ NoFence \notin Fences
  /\ EngineOf \in [Fences -> Engines] /\ SyncEngine \in Engines

VARIABLES
  render,         \* the fence's render: "none", "emitted", "sent", "discarded"
  last_send_fence_id, returned_fence_id,
  posting,        \* notifications that have still to post the event
  missed,         \* history: fences whose notification came while they were on
                  \* their way to fence_list
  value, refcount,                    \* gf_dma_fence
  resv,                               \* fences attached to the buffer
  enabled, signaled,                  \* dma_fence_t flags
  fence_list, fence_count, event,     \* gf_dma_fence_driver
  thread, process_list, kept, cur,    \* the event thread
  arming, arming_by,    \* the fence in gf_dma_fence_enable_signaling
  lock,                 \* of an engine's fences: who holds it
  signaling,            \* the fence whose lock a signaler holds while it
                        \* signals the sync object
  sync,                 \* "none", "create", "live", "released"
  fences, todo,         \* of the sync object; those its loop has not reached
  callbacks, num_pending, sync_ref, sync_signaled,
  worker_woken

renderVars == <<render, last_send_fence_id, returned_fence_id, value>>
postVars == <<posting, missed>>
listVars == <<fence_list, fence_count>>
threadVars == <<thread, process_list, kept, cur>>
armVars == <<arming, arming_by, enabled>>
syncVars == <<sync, fences, todo, callbacks, num_pending, sync_ref, sync_signaled,
              worker_woken>>
vars == <<renderVars, postVars, refcount, resv, signaled, listVars, event, threadVars,
          armVars, lock, signaling, syncVars>>

Signalers == {"event", "poll"}

Init ==
  /\ render = [f \in Fences |-> "none"] /\ value = [f \in Fences |-> 0]
  /\ last_send_fence_id = [e \in Engines |-> 0]
  /\ returned_fence_id = [e \in Engines |-> 0] /\ posting = 0 /\ missed = {}
  /\ refcount = [f \in Fences |-> 0] /\ resv = {} /\ enabled = {} /\ signaled = {}
  /\ fence_list = <<>> /\ fence_count = 0 /\ event = FALSE
  /\ thread = "wait" /\ process_list = <<>> /\ kept = <<>> /\ cur = NoFence
  /\ arming = NoFence /\ arming_by = "none"
  /\ lock = [e \in Engines |-> "free"]
  /\ signaling = [who \in Signalers |-> NoFence]
  /\ sync = "none" /\ fences = {} /\ todo = {} /\ callbacks = {} /\ num_pending = 0
  /\ sync_ref = 0 /\ sync_signaled = FALSE /\ worker_woken = FALSE

\* dma_fence_get and dma_fence_put on a set of fences.
Get(fs) == refcount' = [f \in Fences |-> refcount[f] + IF f \in fs THEN 1 ELSE 0]
Put(fs) == refcount' = [f \in Fences |-> refcount[f] - IF f \in fs THEN 1 ELSE 0]

Unlocked(f) == lock[EngineOf[f]] = "free"

-----------------------------------------------------------------------------
(* Renders and the GPU.                                                    *)

\* Plausible bug: the fence starts with an id that is always back.
BugInitialValue == 0

\* 0xffffffffffffffff, more than any fence id.
InitialValue == Cardinality(Fences) + 1

\* vidschi_emit_dma_fence: one reference for the task, one for the reservation.
Emit(f) ==
  /\ render[f] = "none"
  /\ render' = [render EXCEPT ![f] = "emitted"]
  /\ value' = [value EXCEPT ![f] = InitialValue]
  /\ refcount' = [refcount EXCEPT ![f] = 2] /\ resv' = resv \cup {f}
  /\ UNCHANGED <<last_send_fence_id, returned_fence_id, postVars, signaled, listVars,
                 event, threadVars, armVars, lock, signaling, syncVars>>

\* vidschi_submit_dma: the fence gets its id and is released before the kick-off.
Submit(f) ==
  LET e == EngineOf[f]  id == last_send_fence_id[e] + 1 IN
  /\ render[f] = "emitted"
  /\ render' = [render EXCEPT ![f] = "sent"]
  /\ last_send_fence_id' = [last_send_fence_id EXCEPT ![e] = id]
  /\ value' = [value EXCEPT ![f] = id]
  /\ Put({f})
  /\ UNCHANGED <<returned_fence_id, postVars, resv, signaled, listVars, event,
                 threadVars, armVars, lock, signaling, syncVars>>

\* vidschi_fake_submit_dma: id 0 is back, the notification follows.
Discard(f) ==
  /\ render[f] = "emitted"
  /\ render' = [render EXCEPT ![f] = "discarded"]
  /\ value' = [value EXCEPT ![f] = 0]
  /\ Put({f})
  /\ posting' = posting + 1
  /\ UNCHANGED <<missed, last_send_fence_id, returned_fence_id, resv, signaled, listVars,
                 event, threadVars, armVars, lock, signaling, syncVars>>

\* The GPU (external) finished up to id n; vidschi_update_fence_id accepts it.
FenceBack(e, n) ==
  /\ n > returned_fence_id[e] /\ n <= last_send_fence_id[e]
  /\ returned_fence_id' = [returned_fence_id EXCEPT ![e] = n]
  /\ posting' = posting + 1
  /\ UNCHANGED <<missed, render, last_send_fence_id, value, refcount, resv, signaled,
                 listVars, event, threadVars, armVars, lock, signaling, syncVars>>

\* gf_dma_fence_signaled
Back(f) == returned_fence_id[EngineOf[f]] >= value[f]

\* Plausible bug: a single fence is not announced.
BugOffByOne == fence_count > 1

\* gf_dma_fence_post_event_cb looks at fence_count without a lock.
WakesThread == fence_count > 0

\* vidschi_notify_dma_fence at the end of a notification.  A fence that was not back
\* when gf_dma_fence_enable_signaling looked, and is not counted yet, goes unnoticed.
PostEvent ==
  /\ posting > 0 /\ posting' = posting - 1
  /\ event' = (event \/ WakesThread)
  /\ missed' = missed \cup
                 {f \in Fences : f = arming /\ Back(f) /\ ~WakesThread}
  /\ UNCHANGED <<renderVars, refcount, resv, signaled, listVars, threadVars, armVars,
                 lock, signaling, syncVars>>

\* The same from an interrupt for some other work.
OtherInterrupt ==
  /\ ~event /\ WakesThread /\ event' = TRUE
  /\ UNCHANGED <<renderVars, postVars, refcount, resv, signaled, listVars, threadVars,
                 armVars, lock, signaling, syncVars>>

\* A later fence replaces this one in the reservation (external).
Replace(f) ==
  /\ f \in resv /\ resv' = resv \ {f}
  /\ ~(arming = f /\ arming_by = "other") /\ signaling["poll"] # f
  /\ Put({f})
  /\ UNCHANGED <<renderVars, postVars, signaled, listVars, event, threadVars, armVars,
                 lock, signaling, syncVars>>

-----------------------------------------------------------------------------
(* Signaling is enabled.                                                   *)

\* Someone waits for f for the first time: gf_dma_fence_enable_signaling, with
\* the fence's lock and driver->lock, up to its second look at the id.
EnableSignaling(f, by) ==
  /\ f \notin enabled \cup signaled /\ Unlocked(f) /\ arming = NoFence
  /\ ~Back(f)
  /\ enabled' = enabled \cup {f}
  /\ arming' = f /\ arming_by' = by
  /\ lock' = [lock EXCEPT ![EngineOf[f]] = "arm"]

\* Plausible bug: the list has no reference of its own.
BugListWithoutRef(f) == UNCHANGED refcount

\* dma_fence_get(base)
ListReference(f) == Get({f})

\* ... and its end: the fence is put on fence_list.
AddToList ==
  /\ arming # NoFence
  /\ ListReference(arming)
  /\ fence_list' = Append(fence_list, arming) /\ fence_count' = fence_count + 1
  /\ arming' = NoFence /\ arming_by' = "none"
  /\ lock' = [lock EXCEPT ![EngineOf[arming]] = "free"]
  /\ IF arming_by = "sync"
     THEN callbacks' = callbacks \cup {arming} /\ todo' = todo \ {arming}
     ELSE UNCHANGED <<callbacks, todo>>
  /\ UNCHANGED <<renderVars, postVars, resv, signaled, event, threadVars, enabled,
                 signaling, sync, fences, num_pending, sync_ref, sync_signaled,
                 worker_woken>>

\* Another driver or a client (external) waits for a fence of the buffer.
OtherWaits(f) ==
  /\ f \in resv
  /\ EnableSignaling(f, "other")
  /\ UNCHANGED <<renderVars, postVars, refcount, resv, signaled, listVars, event,
                 threadVars, signaling, syncVars>>

-----------------------------------------------------------------------------
(* Fences are signaled.                                                    *)

\* gf_dma_sync_object_release gives the fences up with the last reference.
PutSync(fs) ==
  refcount' = [f \in Fences |-> refcount[f] - (IF f \in fs THEN 1 ELSE 0)
                                 - IF sync_ref = 1 /\ f \in fences THEN 1 ELSE 0]

\* dma_fence_signal on f, with its lock, and the callback of the sync object on
\* it: the last one goes on to signal the object, still with the lock.  "put" is
\* what the signaler gives up afterwards.
SignalFence(f, who, put) ==
  /\ Unlocked(f)
  /\ signaled' = signaled \cup {f}
  /\ callbacks' = callbacks \ {f}
  /\ num_pending' = num_pending - IF f \in callbacks THEN 1 ELSE 0
  /\ IF f \in callbacks /\ num_pending = 1
     THEN /\ signaling' = [signaling EXCEPT ![who] = f]
          /\ lock' = [lock EXCEPT ![EngineOf[f]] = who]
          /\ UNCHANGED <<refcount, sync_ref>>
     ELSE /\ IF f \in callbacks THEN PutSync(put) /\ sync_ref' = sync_ref - 1
             ELSE Put(put) /\ UNCHANGED sync_ref
          /\ UNCHANGED <<signaling, lock>>

\* dma_fence_signal on the sync object needs its lock; its own callback,
\* vidsch_dma_sync_object_trigger, wakes the worker.
SignalSync(who) ==
  LET f == signaling[who] IN
  /\ f # NoFence /\ sync # "create"
  /\ sync_signaled' = TRUE
  /\ worker_woken' = (worker_woken \/ ~sync_signaled)
  /\ PutSync(IF who = "event" THEN {f} ELSE {}) /\ sync_ref' = sync_ref - 1
  /\ signaling' = [signaling EXCEPT ![who] = NoFence]
  /\ lock' = [lock EXCEPT ![EngineOf[f]] = "free"]
  /\ IF who = "event" THEN thread' = "scan" /\ cur' = NoFence
     ELSE UNCHANGED <<thread, cur>>
  /\ UNCHANGED <<renderVars, postVars, resv, signaled, listVars, event, process_list,
                 kept, armVars, sync, fences, todo, callbacks, num_pending>>

\* gf_dma_fence_event_thread is woken and takes over fence_list.
EventWake ==
  /\ thread = "wait" /\ event /\ arming = NoFence
  /\ event' = FALSE /\ thread' = "scan"
  /\ process_list' = fence_list /\ fence_list' = <<>>
  /\ UNCHANGED <<renderVars, postVars, refcount, resv, signaled, fence_count, kept, cur,
                 armVars, lock, signaling, syncVars>>

\* The next fence: taken off the list when its id is back.
EventScan ==
  /\ thread = "scan" /\ process_list # <<>>
  /\ process_list' = Tail(process_list)
  /\ IF Back(Head(process_list))
     THEN /\ cur' = Head(process_list) /\ thread' = "signal"
          /\ fence_count' = fence_count - 1 /\ UNCHANGED kept
     ELSE /\ kept' = Append(kept, Head(process_list))
          /\ UNCHANGED <<cur, thread, fence_count>>
  /\ UNCHANGED <<renderVars, postVars, refcount, resv, signaled, fence_list, event,
                 armVars, lock, signaling, syncVars>>

EventSignal ==
  /\ thread = "signal" /\ signaling["event"] = NoFence
  /\ SignalFence(cur, "event", {cur})
  /\ IF signaling'["event"] = NoFence THEN thread' = "scan" /\ cur' = NoFence
     ELSE UNCHANGED <<thread, cur>>
  /\ UNCHANGED <<renderVars, postVars, resv, listVars, event, process_list, kept,
                 armVars, sync, fences, todo, sync_signaled, worker_woken>>

\* The others go back to the front of fence_list.
EventEnd ==
  /\ thread = "scan" /\ process_list = <<>> /\ arming = NoFence
  /\ fence_list' = kept \o fence_list /\ kept' = <<>> /\ thread' = "wait"
  /\ UNCHANGED <<renderVars, postVars, refcount, resv, signaled, fence_count, event,
                 process_list, cur, armVars, lock, signaling, syncVars>>

\* Whoever asks dma_fence_is_signaled, or waits for a fence that is back already
\* (external), signals it.
Poll(f) ==
  /\ f \in resv \ signaled /\ Back(f) /\ signaling["poll"] = NoFence
  /\ SignalFence(f, "poll", {})
  /\ UNCHANGED <<renderVars, postVars, resv, listVars, event, threadVars, armVars, sync,
                 fences, todo, sync_signaled, worker_woken>>

-----------------------------------------------------------------------------
(* The DMA sync object.                                                    *)

\* Plausible bug: num_pending counts what the loop has reached.
BugCountAsAdded(fs) == 1

\* atomic_set(&sync_obj->num_pending, sync_obj->num_fences)
Pending(fs) == Cardinality(fs)

\* gf_dma_sync_object_create_cb collects the fences of the other engines, then
\* enters gf_dma_sync_object_enable_signaling with the object's lock.
CreateSync ==
  LET fs == {f \in resv : EngineOf[f] # SyncEngine} IN
  /\ sync = "none" /\ fs # {}
  /\ sync' = "create" /\ fences' = fs /\ todo' = fs
  /\ num_pending' = Pending(fs) /\ sync_ref' = 1
  /\ Get(fs)
  /\ UNCHANGED <<renderVars, postVars, resv, signaled, listVars, event, threadVars,
                 armVars, lock, signaling, callbacks, sync_signaled, worker_woken>>

InLoop(f) == sync = "create" /\ f \in todo /\ arming_by # "sync"

\* dma_fence_add_callback on f enables its signaling ...
SyncEnables(f) ==
  /\ InLoop(f) /\ EnableSignaling(f, "sync")
  /\ sync_ref' = sync_ref + 1
  /\ UNCHANGED <<renderVars, postVars, refcount, resv, signaled, listVars, event,
                 threadVars, signaling, sync, fences, todo, callbacks, num_pending,
                 sync_signaled, worker_woken>>

\* ... or finds it enabled, and adds the callback.
SyncAdds(f) ==
  /\ InLoop(f) /\ f \in enabled \ signaled /\ Unlocked(f)
  /\ sync_ref' = sync_ref + 1
  /\ callbacks' = callbacks \cup {f} /\ todo' = todo \ {f}
  /\ UNCHANGED <<renderVars, postVars, refcount, resv, signaled, listVars, event,
                 threadVars, armVars, lock, signaling, sync, fences, num_pending,
                 sync_signaled, worker_woken>>

\* It is signaled, or back when it is looked at, which signals it.  The last one
\* signals the sync object: nothing is left to wait for, and it is given up.
SyncSkips(f) ==
  /\ InLoop(f)
  /\ f \in signaled \/ (f \notin enabled /\ Unlocked(f) /\ arming = NoFence /\ Back(f))
  /\ signaled' = signaled \cup {f} /\ enabled' = enabled \cup {f}
  /\ num_pending' = num_pending - 1 /\ todo' = todo \ {f}
  /\ IF num_pending = 1
     THEN /\ sync_signaled' = TRUE /\ sync' = "released"
          /\ PutSync({}) /\ sync_ref' = sync_ref - 1
     ELSE UNCHANGED <<sync_signaled, sync, refcount, sync_ref>>
  /\ UNCHANGED <<renderVars, postVars, resv, listVars, event, threadVars, arming,
                 arming_by, lock, signaling, fences, callbacks, worker_woken>>

\* The loop is over and the object's lock dropped.
CreateEnd ==
  /\ sync = "create" /\ todo = {}
  /\ sync' = "live"
  /\ UNCHANGED <<renderVars, postVars, refcount, resv, signaled, listVars, event,
                 threadVars, armVars, lock, signaling, fences, todo, callbacks,
                 num_pending, sync_ref, sync_signaled, worker_woken>>

\* The worker's gf_dma_sync_object_is_signaled_cb signals it as well.
PollSync ==
  /\ sync = "live" /\ num_pending = 0 /\ ~sync_signaled
  /\ sync_signaled' = TRUE /\ worker_woken' = TRUE
  /\ UNCHANGED <<renderVars, postVars, refcount, resv, signaled, listVars, event,
                 threadVars, armVars, lock, signaling, sync, fences, todo, callbacks,
                 num_pending, sync_ref>>

\* gf_dma_sync_object_release_cb, when the wait ended: signaled, timed out or
\* dropped.
ReleaseSync ==
  /\ sync = "live" /\ sync' = "released"
  /\ PutSync({}) /\ sync_ref' = sync_ref - 1
  /\ UNCHANGED <<renderVars, postVars, resv, signaled, listVars, event, threadVars,
                 armVars, lock, signaling, fences, todo, callbacks, num_pending,
                 sync_signaled, worker_woken>>

-----------------------------------------------------------------------------
SyncLoop == CreateEnd \/ \E f \in Fences : SyncEnables(f) \/ SyncAdds(f) \/ SyncSkips(f)
EventThread == EventWake \/ EventScan \/ EventSignal \/ EventEnd

Next ==
  \/ \E f \in Fences :
       Emit(f) \/ Submit(f) \/ Discard(f) \/ Replace(f) \/ OtherWaits(f) \/ Poll(f)
  \/ \E e \in Engines : \E n \in 1..last_send_fence_id[e] : FenceBack(e, n)
  \/ PostEvent \/ OtherInterrupt \/ AddToList \/ EventThread
  \/ CreateSync \/ SyncLoop \/ PollSync \/ ReleaseSync
  \/ \E who \in Signalers : SignalSync(who)

Spec == Init /\ [][Next]_vars

\* Threads that are in the driver go on: the one that enables signaling, the
\* one that creates the sync object, the event thread, a notification, and those
\* that spin on the sync object's lock.
Fairness ==
  /\ WF_vars(AddToList) /\ WF_vars(SyncLoop) /\ WF_vars(EventThread)
  /\ WF_vars(PostEvent) /\ \A who \in Signalers : WF_vars(SignalSync(who))

FairSpec == Spec /\ Fairness

-----------------------------------------------------------------------------
(* Properties.                                                             *)

\* The render's work is over.
Finished(f) ==
  \/ render[f] = "discarded"
  \/ render[f] = "sent" /\ returned_fence_id[EngineOf[f]] >= value[f]

\* A fence is only signaled when its render is over, although it is handed out
\* before the render has a fence id; a DMA sync object only when each of its
\* fences is, whichever thread counts the last one.
SignaledIsFinished ==
  /\ \A f \in signaled : Finished(f)
  /\ sync_signaled => fences \subseteq signaled

\* The fences on fence_list or in the event thread's hands.
Listed == Range(fence_list) \cup Range(process_list) \cup Range(kept) \cup ({cur} \ {NoFence})

\* One if it is so.
Count(b) == IF b THEN 1 ELSE 0

\* The references of a fence are those of its task, the reservation, the list
\* and the sync object; those of the sync object are its creator's and one per
\* callback that is added or being run.  fence_count is the number of fences on
\* the lists.  So what is on a list or in a callback is not freed.
RefsAccount ==
  /\ \A f \in Fences :
       refcount[f] = Count(render[f] = "emitted") + Count(f \in resv)
                       + Count(f \in Listed) + Count(f \in fences /\ sync_ref > 0)
  /\ sync_ref = Count(sync \in {"create", "live"}) + Cardinality(callbacks)
                  + Count(arming_by = "sync")
                  + Cardinality({who \in Signalers : signaling[who] # NoFence})
  /\ fence_count = Len(fence_list) + Len(process_list) + Len(kept)

\* The creation of a sync object returns: it takes the locks of the fences with
\* its own lock held, and a signaler takes that lock with a fence's lock held,
\* but only once the loop needs no more locks.
CreateReturns == (sync = "create") ~> (sync # "create")

\* A fence somebody waits for is signaled once its render is over, and so is the sync
\* object, which wakes the worker unless the wait was over before: unless a
\* notification came between the second look at the fence's id and the list.  The
\* event thread has no timeout; such a fence is left to an interrupt for other work.
SignalsFollow ==
  /\ \A f \in Fences : (f \in enabled /\ Finished(f)) ~> (f \in signaled \cup missed)
  /\ (sync = "live" /\ \A f \in fences : Finished(f))
       ~> ((sync_signaled /\ worker_woken) \/ fences \cap missed # {})

-----------------------------------------------------------------------------
(* The inductive invariant behind RefsAccount and SignaledIsFinished.      *)

TypeOK ==
  /\ render \in [Fences -> {"none", "emitted", "sent", "discarded"}]
  /\ value \in [Fences -> Nat] /\ refcount \in [Fences -> Int]
  /\ last_send_fence_id \in [Engines -> Nat] /\ returned_fence_id \in [Engines -> Nat]
  /\ resv \cup enabled \cup signaled \cup fences \subseteq Fences
  /\ fence_list \in Seq(Fences) /\ process_list \in Seq(Fences) /\ kept \in Seq(Fences)
  /\ cur \in Fences \cup {NoFence} /\ arming \in Fences \cup {NoFence}
  /\ thread \in {"wait", "scan", "signal"} /\ arming_by \in {"none", "other", "sync"}
  /\ signaling \in [Signalers -> Fences \cup {NoFence}]
  /\ sync \in {"none", "create", "live", "released"}

\* A fence is on one list, once, or with the event thread, and was enabled before.
ListsOK ==
  /\ IsInjective(fence_list) /\ IsInjective(process_list) /\ IsInjective(kept)
  /\ Range(fence_list) \cap Range(process_list) = {}
  /\ Range(fence_list) \cap Range(kept) = {} /\ Range(process_list) \cap Range(kept) = {}
  /\ cur \notin Range(fence_list) \cup Range(process_list) \cup Range(kept)
  /\ arming \notin Listed
  /\ thread = "wait" => process_list = <<>> /\ kept = <<>>
  /\ thread = "signal" <=> cur # NoFence
  /\ signaling["event"] \in {NoFence, cur}

\* What is attached, listed, waited for or signaled was emitted.
EmittedOK ==
  /\ Listed \cup ({arming} \ {NoFence}) \subseteq enabled
  /\ \A f \in resv \cup enabled \cup fences : render[f] # "none"

\* Each fence of the sync object is still to be looked at, has its callback or is
\* signaled; the callback that counts the last one finds none of the former.
SyncOK ==
  /\ todo \cap callbacks = {} /\ todo \cup callbacks \subseteq fences
  /\ fences \subseteq todo \cup callbacks \cup signaled
  /\ num_pending = Cardinality(todo) + Cardinality(callbacks)
  /\ sync = "none" => fences = {} /\ ~sync_signaled
  /\ sync # "create" => todo = {}
  /\ arming_by = "none" <=> arming = NoFence
  /\ arming_by = "sync" => sync = "create" /\ arming \in todo
  /\ \A who \in Signalers : signaling[who] # NoFence => num_pending = 0 /\ sync # "none"

\* The ids that were sent are those of the fences that were; an id that is not
\* given yet is larger.
SentSet(e) == {f \in Fences : EngineOf[f] = e /\ render[f] = "sent"}

SentOK ==
  /\ \A e \in Engines :
       /\ returned_fence_id[e] <= last_send_fence_id[e]
       /\ last_send_fence_id[e] = Cardinality(SentSet(e))
  /\ \A f \in Fences : render[f] = "emitted" => value[f] = InitialValue

IdsOK == SentOK /\ (cur # NoFence => Finished(cur))

FencesInv ==
  /\ TypeOK /\ ListsOK /\ EmittedOK /\ SyncOK /\ IdsOK
  /\ SignaledIsFinished /\ RefsAccount
=============================================================================
