--------------------------- MODULE DmaFenceProofs ---------------------------
(***************************************************************************)
(* Proofs about DmaFence: a fence is only signaled when its render is over *)
(* (SignaledFinished), and the reference counts of the fences, of the DMA  *)
(* sync object and fence_count are right at every step                     *)
(* (FenceRefsBalanced).  Both are parts of FencesInv, whose other parts    *)
(* say where a fence can be: on one list, once; emitted before; waited for *)
(* by the sync object in one way; with an id that was given in order.      *)
(***************************************************************************)
EXTENDS DmaFence, FiniteSetTheorems, TLAPS

-----------------------------------------------------------------------------
(* The lists of fences.                                                    *)

LEMMA AppendList ==
  ASSUME NEW s \in Seq(Fences), NEW x \in Fences
  PROVE  /\ Append(s, x) \in Seq(Fences) /\ Len(Append(s, x)) = Len(s) + 1
         /\ Range(Append(s, x)) = Range(s) \cup {x}
         /\ IsInjective(s) /\ x \notin Range(s) => IsInjective(Append(s, x))
<1>1. /\ Append(s, x) \in Seq(Fences) /\ Len(Append(s, x)) = Len(s) + 1 /\ Len(s) \in Nat
      /\ DOMAIN s = 1..Len(s) /\ DOMAIN Append(s, x) = 1..(Len(s) + 1)
      /\ \A i \in 1..Len(s) : Append(s, x)[i] = s[i]
      /\ Append(s, x)[Len(s) + 1] = x
  OBVIOUS
<1>2. \A i \in 1..(Len(s) + 1) : i \in 1..Len(s) \/ i = Len(s) + 1
  BY <1>1
<1>3. Range(Append(s, x)) = Range(s) \cup {x}
  <2>1. \A y \in Range(Append(s, x)) : y \in Range(s) \cup {x}
    BY <1>1, <1>2 DEF Range
  <2>2. \A y \in Range(s) : y \in Range(Append(s, x))
    BY <1>1 DEF Range
  <2>3. x \in Range(Append(s, x))
    <3>1. Len(s) + 1 \in DOMAIN Append(s, x)
      BY <1>1
    <3>2. QED BY <1>1, <3>1 DEF Range
  <2>4. QED BY <2>1, <2>2, <2>3
<1>4. ASSUME IsInjective(s), x \notin Range(s) PROVE IsInjective(Append(s, x))
  <2>1. \A i \in 1..Len(s) : s[i] # x
    BY <1>1, <1>4 DEF Range
  <2>2. QED BY <1>1, <1>2, <1>4, <2>1 DEF IsInjective
<1>5. QED BY <1>1, <1>3, <1>4

LEMMA TailList ==
  ASSUME NEW s \in Seq(Fences), s # <<>>
  PROVE  /\ Tail(s) \in Seq(Fences) /\ Len(Tail(s)) = Len(s) - 1 /\ Head(s) \in Fences
         /\ Range(s) = Range(Tail(s)) \cup {Head(s)}
         /\ IsInjective(s) => IsInjective(Tail(s)) /\ Head(s) \notin Range(Tail(s))
<1>1. /\ Tail(s) \in Seq(Fences) /\ Len(Tail(s)) = Len(s) - 1 /\ Head(s) \in Fences
      /\ Head(s) = s[1] /\ Len(s) \in Nat \ {0} /\ s \in [1..Len(s) -> Fences]
      /\ \A i \in 1..Len(Tail(s)) : Tail(s)[i] = s[i + 1]
  OBVIOUS
<1>2. Range(Tail(s)) = {s[i + 1] : i \in 1..(Len(s) - 1)}
  <2>1. DOMAIN Tail(s) = 1..(Len(s) - 1)
    BY <1>1
  <2>2. Range(Tail(s)) = {Tail(s)[i] : i \in 1..(Len(s) - 1)}
    BY <2>1 DEF Range
  <2>3. QED BY <1>1, <2>2
<1>3. \A i \in 1..Len(s) : i = 1 \/ \E j \in 1..(Len(s) - 1) : i = j + 1
  BY <1>1
<1>4. Range(s) = {s[i] : i \in 1..Len(s)}
  BY <1>1 DEF Range
<1>5. Range(s) = Range(Tail(s)) \cup {Head(s)}
  <2>1. \A x \in Range(s) : x \in Range(Tail(s)) \cup {Head(s)}
    BY <1>1, <1>2, <1>3, <1>4
  <2>2. \A x \in Range(Tail(s)) \cup {Head(s)} : x \in Range(s)
    BY <1>1, <1>2, <1>4
  <2>3. QED BY <2>1, <2>2
<1>6. ASSUME IsInjective(s) PROVE IsInjective(Tail(s)) /\ Head(s) \notin Range(Tail(s))
  BY <1>1, <1>2, <1>6 DEF IsInjective
<1>7. QED BY <1>1, <1>5, <1>6

LEMMA JoinList ==
  ASSUME NEW s \in Seq(Fences), NEW t \in Seq(Fences)
  PROVE  /\ s \o t \in Seq(Fences) /\ Len(s \o t) = Len(s) + Len(t)
         /\ Range(s \o t) = Range(s) \cup Range(t)
         /\ IsInjective(s) /\ IsInjective(t) /\ Range(s) \cap Range(t) = {}
              => IsInjective(s \o t)
<1>1. /\ s \o t \in Seq(Fences) /\ Len(s \o t) = Len(s) + Len(t)
      /\ Len(s) \in Nat /\ Len(t) \in Nat
      /\ \A i \in 1..Len(s) : (s \o t)[i] = s[i]
      /\ \A i \in 1..Len(t) : (s \o t)[Len(s) + i] = t[i]
      /\ DOMAIN s = 1..Len(s) /\ DOMAIN t = 1..Len(t) /\ DOMAIN (s \o t) = 1..(Len(s) + Len(t))
  OBVIOUS
<1>2. \A i \in 1..(Len(s) + Len(t)) :
        \/ i \in 1..Len(s) /\ (s \o t)[i] = s[i]
        \/ i - Len(s) \in 1..Len(t) /\ (s \o t)[i] = t[i - Len(s)]
  <2>1. \A i \in 1..(Len(s) + Len(t)) : 
          i \in 1..Len(s) \/ (i - Len(s) \in 1..Len(t) /\ i = Len(s) + (i - Len(s)))
    BY <1>1
  <2>2. QED BY <1>1, <2>1
<1>3. Range(s \o t) = Range(s) \cup Range(t)
  <2>1. \A x \in Range(s \o t) : x \in Range(s) \cup Range(t)
    BY <1>1, <1>2 DEF Range
  <2>2. \A x \in Range(s) : x \in Range(s \o t)
    BY <1>1 DEF Range
  <2>3. ASSUME NEW x \in Range(t) PROVE x \in Range(s \o t)
    <3>1. PICK i \in 1..Len(t) : t[i] = x
      BY <1>1 DEF Range
    <3>2. Len(s) + i \in DOMAIN (s \o t) /\ (s \o t)[Len(s) + i] = x
      BY <1>1, <3>1
    <3>3. QED BY <3>2 DEF Range
  <2>4. QED BY <2>1, <2>2, <2>3
<1>4. ASSUME IsInjective(s), IsInjective(t), Range(s) \cap Range(t) = {},
             NEW i \in 1..(Len(s) + Len(t)), NEW j \in 1..(Len(s) + Len(t)),
             (s \o t)[i] = (s \o t)[j]
      PROVE  i = j
  <2>1. \A k \in 1..Len(s), m \in 1..Len(t) : s[k] # t[m]
    BY <1>1, <1>4 DEF Range
  <2>2. CASE i \in 1..Len(s) /\ (s \o t)[i] = s[i]
    <3>1. j \in 1..Len(s) /\ (s \o t)[j] = s[j]
      BY <1>2, <1>4, <2>1, <2>2
    <3>2. QED BY <1>1, <1>4, <2>2, <3>1 DEF IsInjective
  <2>3. CASE i - Len(s) \in 1..Len(t) /\ (s \o t)[i] = t[i - Len(s)]
    <3>1. j - Len(s) \in 1..Len(t) /\ (s \o t)[j] = t[j - Len(s)]
      BY <1>2, <1>4, <2>1, <2>3
    <3>2. i - Len(s) = j - Len(s)
      BY <1>1, <1>4, <2>3, <3>1 DEF IsInjective
    <3>3. QED BY <1>1, <3>2
  <2>4. QED BY <1>2, <2>2, <2>3
<1>5. QED BY <1>1, <1>3, <1>4 DEF IsInjective

-----------------------------------------------------------------------------
(* References are taken and given back.                                    *)

LEMMA GetIs ==
  ASSUME refcount \in [Fences -> Int], NEW fs, Get(fs)
  PROVE  /\ refcount' \in [Fences -> Int]
         /\ \A f \in Fences : f \in fs => refcount'[f] = refcount[f] + 1
         /\ \A f \in Fences : f \notin fs => refcount'[f] = refcount[f]
<1>1. \A f \in fs : (IF f \in fs THEN 1 ELSE 0) = 1
  OBVIOUS
<1>2. \A f : f \notin fs => (IF f \in fs THEN 1 ELSE 0) = 0
  OBVIOUS
<1>3. QED BY <1>1, <1>2 DEF Get

LEMMA PutIs ==
  ASSUME refcount \in [Fences -> Int], NEW fs, Put(fs)
  PROVE  /\ refcount' \in [Fences -> Int]
         /\ \A f \in Fences : f \in fs => refcount'[f] = refcount[f] - 1
         /\ \A f \in Fences : f \notin fs => refcount'[f] = refcount[f]
<1>1. \A f \in fs : (IF f \in fs THEN 1 ELSE 0) = 1
  OBVIOUS
<1>2. \A f : f \notin fs => (IF f \in fs THEN 1 ELSE 0) = 0
  OBVIOUS
<1>3. QED BY <1>1, <1>2 DEF Put

\* The fences of the sync object that it gives up now.
Given == IF sync_ref = 1 THEN fences ELSE {}

LEMMA PutSyncIs ==
  ASSUME refcount \in [Fences -> Int], NEW fs, PutSync(fs)
  PROVE  /\ refcount' \in [Fences -> Int]
         /\ \A f \in Fences : f \in fs /\ f \in Given => refcount'[f] = refcount[f] - 2
         /\ \A f \in Fences : f \in fs /\ f \notin Given => refcount'[f] = refcount[f] - 1
         /\ \A f \in Fences : f \notin fs /\ f \in Given => refcount'[f] = refcount[f] - 1
         /\ \A f \in Fences : f \notin fs /\ f \notin Given => refcount'[f] = refcount[f]
<1> DEFINE A(f) == IF f \in fs THEN 1 ELSE 0
           B(f) == IF sync_ref = 1 /\ f \in fences THEN 1 ELSE 0
<1>1. \A f : (f \in fs => A(f) = 1) /\ (f \notin fs => A(f) = 0)
  OBVIOUS
<1>2. \A f : (f \in Given => B(f) = 1) /\ (f \notin Given => B(f) = 0)
  BY DEF Given
<1>3. refcount' = [f \in Fences |-> refcount[f] - A(f) - B(f)]
  BY DEF PutSync
<1> HIDE DEF A, B
<1>4. QED BY <1>1, <1>2, <1>3

\* What a signaled fence changes: its callback is gone, and the last one goes on
\* to the sync object.
LEMMA SignalFenceIs ==
  ASSUME refcount \in [Fences -> Int], NEW f, NEW who, NEW put, SignalFence(f, who, put)
  PROVE  /\ refcount' \in [Fences -> Int]
         /\ signaled' = signaled \cup {f} /\ callbacks' = callbacks \ {f}
         /\ \/ signaling' = [signaling EXCEPT ![who] = f]
            \/ UNCHANGED signaling
<1>1. CASE f \in callbacks /\ num_pending = 1
  BY <1>1 DEF SignalFence
<1>2. CASE ~(f \in callbacks /\ num_pending = 1)
  BY <1>2, PutIs, PutSyncIs DEF SignalFence
<1>3. QED BY <1>1, <1>2

-----------------------------------------------------------------------------
(* Types.                                                                  *)

LEMMA RenderTypes ==
  ASSUME TypeOK, NEW f \in Fences,
         Emit(f) \/ Submit(f) \/ Discard(f) \/ Replace(f)
  PROVE  TypeOK'
<1>1. EngineOf[f] \in Engines /\ InitialValue \in Nat
  BY FenceAssumption, FS_CardinalityType DEF InitialValue
<1>2. refcount' \in [Fences -> Int]
  BY PutIs DEF TypeOK, Emit, Submit, Discard, Replace
<1>3. /\ render' \in [Fences -> {"none", "emitted", "sent", "discarded"}]
      /\ value' \in [Fences -> Nat]
      /\ last_send_fence_id' \in [Engines -> Nat]
      /\ returned_fence_id' \in [Engines -> Nat]
  <2>1. CASE Emit(f) \/ Submit(f) \/ Discard(f)
    <3>1. last_send_fence_id[EngineOf[f]] + 1 \in Nat
      BY <1>1 DEF TypeOK
    <3>2. render' \in [Fences -> {"none", "emitted", "sent", "discarded"}]
      BY <2>1 DEF TypeOK, Emit, Submit, Discard
    <3>3. value' \in [Fences -> Nat]
      <4>1. \E v \in Nat : value' = [value EXCEPT ![f] = v]
        BY <1>1, <2>1, <3>1 DEF Emit, Submit, Discard
      <4>2. QED BY <4>1 DEF TypeOK
    <3>4. last_send_fence_id' \in [Engines -> Nat] /\ UNCHANGED returned_fence_id
      BY <1>1, <2>1, <3>1 DEF TypeOK, Emit, Submit, Discard
    <3>5. QED BY <3>2, <3>3, <3>4 DEF TypeOK
  <2>2. CASE Replace(f)
    BY <2>2 DEF TypeOK, Replace, renderVars
  <2>3. QED BY <2>1, <2>2
<1>4. resv' \subseteq Fences
  BY DEF TypeOK, Emit, Submit, Discard, Replace
<1>5. UNCHANGED <<signaled, listVars, threadVars, armVars, signaling, syncVars>>
  BY DEF Emit, Submit, Discard, Replace
<1>6. QED BY <1>2, <1>3, <1>4, <1>5 DEF TypeOK, listVars, threadVars, armVars, syncVars

LEMMA SignalTypes ==
  ASSUME TypeOK, ListsOK,
         \/ AddToList \/ EventWake \/ EventScan \/ EventSignal \/ EventEnd
         \/ \E f \in Fences : Poll(f) \/ OtherWaits(f)
         \/ \E who \in Signalers : SignalSync(who)
  PROVE  TypeOK'
<1>1. CASE AddToList
  <2>1. refcount' \in [Fences -> Int] /\ arming \in Fences
    BY <1>1, GetIs DEF AddToList, ListReference, TypeOK
  <2>2. QED BY <1>1, <2>1, AppendList DEF AddToList, TypeOK, renderVars, threadVars
<1>2. CASE EventWake
  BY <1>2 DEF EventWake, TypeOK, renderVars, armVars, syncVars
<1>3. CASE EventScan
  <2>1. process_list \in Seq(Fences) /\ process_list # <<>> /\ kept \in Seq(Fences)
    BY <1>3 DEF EventScan, TypeOK
  <2>2. Tail(process_list) \in Seq(Fences) /\ Head(process_list) \in Fences
    BY <2>1, TailList
  <2>3. Append(kept, Head(process_list)) \in Seq(Fences)
    BY <2>1, <2>2
  <2>4. /\ process_list' \in Seq(Fences) /\ kept' \in Seq(Fences)
        /\ cur' \in Fences \cup {NoFence} /\ thread' \in {"wait", "scan", "signal"}
    BY <1>3, <2>1, <2>2, <2>3 DEF EventScan, TypeOK
  <2>5. UNCHANGED <<renderVars, refcount, resv, signaled, fence_list, armVars, signaling,
                    syncVars>>
    BY <1>3 DEF EventScan
  <2>6. QED BY <2>4, <2>5 DEF TypeOK, renderVars, armVars, syncVars
<1>4. CASE EventSignal
  <2>1. cur \in Fences
    BY <1>4 DEF EventSignal, TypeOK, ListsOK
  <2>2. /\ refcount' \in [Fences -> Int] /\ signaled' = signaled \cup {cur}
        /\ callbacks' = callbacks \ {cur}
        /\ signaling' = [signaling EXCEPT !["event"] = cur] \/ UNCHANGED signaling
    BY <1>4, SignalFenceIs DEF EventSignal, TypeOK
  <2>3. QED BY <1>4, <2>1, <2>2 DEF EventSignal, TypeOK, renderVars, listVars, armVars
<1>5. CASE EventEnd
  BY <1>5, JoinList DEF EventEnd, TypeOK, renderVars, armVars, syncVars
<1>6. ASSUME NEW f \in Fences, Poll(f) PROVE TypeOK'
  <2>1. /\ refcount' \in [Fences -> Int] /\ signaled' = signaled \cup {f}
        /\ callbacks' = callbacks \ {f}
        /\ signaling' = [signaling EXCEPT !["poll"] = f] \/ UNCHANGED signaling
    BY <1>6, SignalFenceIs DEF Poll, TypeOK
  <2>2. QED BY <1>6, <2>1 DEF Poll, TypeOK, renderVars, listVars, threadVars, armVars
<1>7. ASSUME NEW f \in Fences, OtherWaits(f) PROVE TypeOK'
  BY <1>7
  DEF OtherWaits, EnableSignaling, TypeOK, renderVars, listVars, threadVars, syncVars
<1>8. ASSUME NEW who \in Signalers, SignalSync(who) PROVE TypeOK'
  <2>1. refcount' \in [Fences -> Int]
    BY <1>8, PutSyncIs DEF SignalSync, TypeOK
  <2>2. QED BY <1>8, <2>1 DEF SignalSync, TypeOK, renderVars, listVars, armVars
<1>9. QED BY <1>1, <1>2, <1>3, <1>4, <1>5, <1>6, <1>7, <1>8

LEMMA SyncTypes ==
  ASSUME TypeOK, SyncOK, CreateSync \/ SyncLoop \/ PollSync \/ ReleaseSync PROVE TypeOK'
<1>1. CASE CreateSync
  <2>1. refcount' \in [Fences -> Int]
    BY <1>1, GetIs DEF CreateSync, TypeOK
  <2>2. QED BY <1>1, <2>1 DEF CreateSync, TypeOK, renderVars, listVars, threadVars, armVars
<1>2. ASSUME NEW f \in Fences, SyncEnables(f) PROVE TypeOK'
  BY <1>2 DEF SyncEnables, EnableSignaling, TypeOK, renderVars, listVars, threadVars
<1>3. ASSUME NEW f \in Fences, SyncAdds(f) PROVE TypeOK'
  BY <1>3 DEF SyncAdds, TypeOK, renderVars, listVars, threadVars, armVars
<1>4. ASSUME NEW f \in Fences, SyncSkips(f) PROVE TypeOK'
  <2>1. refcount' \in [Fences -> Int]
    BY <1>4, PutSyncIs DEF SyncSkips, TypeOK
  <2>2. QED BY <1>4, <2>1 DEF SyncSkips, TypeOK, renderVars, listVars, threadVars
<1>5. CASE CreateEnd \/ PollSync
  BY <1>5 DEF CreateEnd, PollSync, TypeOK, renderVars, listVars, threadVars, armVars
<1>6. CASE ReleaseSync
  <2>1. refcount' \in [Fences -> Int]
    BY <1>6, PutSyncIs DEF ReleaseSync, TypeOK
  <2>2. QED BY <1>6, <2>1 DEF ReleaseSync, TypeOK, renderVars, listVars, threadVars, armVars
<1>7. QED BY <1>1, <1>2, <1>3, <1>4, <1>5, <1>6 DEF SyncLoop

LEMMA NextTypes == ASSUME TypeOK, ListsOK, SyncOK, [Next]_vars PROVE TypeOK'
<1>1. CASE UNCHANGED vars
  BY <1>1 DEF TypeOK, vars, renderVars, listVars, threadVars, armVars, syncVars
<1>2. CASE \E e \in Engines : \E n \in 1..last_send_fence_id[e] : FenceBack(e, n)
  BY <1>2 DEF FenceBack, TypeOK, listVars, threadVars, armVars, syncVars
<1>3. CASE PostEvent \/ OtherInterrupt
  BY <1>3 DEF PostEvent, OtherInterrupt, TypeOK, renderVars, listVars, threadVars, armVars,
              syncVars
<1>4. QED BY <1>1, <1>2, <1>3, RenderTypes, SignalTypes, SyncTypes DEF Next, EventThread

-----------------------------------------------------------------------------
(* The lists, and what was emitted.                                        *)

\* NoFence is on no list.
LEMMA ListedIs == ASSUME TypeOK PROVE Listed \subseteq Fences
<1>1. \A s \in Seq(Fences) : Range(s) \subseteq Fences
  BY DEF Range
<1>2. QED BY <1>1 DEF TypeOK, Listed

LEMMA ListsFrame ==
  ASSUME ListsOK, UNCHANGED <<listVars, threadVars, signaling, arming>> PROVE ListsOK'
  BY DEF ListsOK, Listed, listVars, threadVars

\* Signaling is only enabled for a fence that was not, so that is on no list.
LEMMA EnableLists ==
  ASSUME ListsOK, EmittedOK, NEW f \in Fences, NEW by, EnableSignaling(f, by),
         UNCHANGED <<listVars, threadVars, signaling>>
  PROVE  ListsOK'
<1>1. f \notin Listed /\ arming' = f
  BY DEF EnableSignaling, EmittedOK
<1>2. Listed' = Listed
  BY DEF Listed, listVars, threadVars
<1>3. QED BY <1>1, <1>2 DEF ListsOK, listVars, threadVars

LEMMA AddLists ==
  ASSUME TypeOK, ListsOK, AddToList
  PROVE  ListsOK' /\ Listed' = Listed \cup {arming} /\ arming \notin Listed
<1>1. /\ arming \in Fences /\ arming' = NoFence /\ fence_list' = Append(fence_list, arming)
      /\ UNCHANGED <<threadVars, signaling>> /\ fence_list \in Seq(Fences)
  BY DEF AddToList, TypeOK
<1>2. /\ arming \notin Range(fence_list) \cup Range(process_list) \cup Range(kept)
      /\ arming # cur
  BY <1>1, FenceAssumption DEF ListsOK, Listed
<1>3. Range(fence_list') = Range(fence_list) \cup {arming} /\ IsInjective(fence_list')
  BY <1>1, <1>2, AppendList DEF ListsOK
<1>4. Listed' = Listed \cup {arming} /\ arming \notin Listed
  BY <1>1, <1>3 DEF Listed, ListsOK, threadVars
<1>5. NoFence \notin Listed'
  BY <1>1, <1>4, ListedIs, FenceAssumption
<1>6. QED BY <1>1, <1>2, <1>3, <1>4, <1>5 DEF ListsOK, threadVars

\* The event thread takes over fence_list, gives the rest back, and has one fence at
\* a time in its hands.
LEMMA ThreadLists ==
  ASSUME TypeOK, ListsOK, EventWake \/ EventEnd
  PROVE  ListsOK' /\ Listed' = Listed
<1>1. UNCHANGED <<arming, signaling, cur>> /\ thread' # "signal" /\ thread # "signal"
  BY DEF EventWake, EventEnd, armVars
<1>2. CASE EventWake
  <2>1. /\ process_list' = fence_list /\ fence_list' = <<>> /\ kept' = kept
        /\ process_list = <<>> /\ kept = <<>>
    BY <1>2 DEF EventWake, ListsOK
  <2>2. Range(<<>>) = {} /\ IsInjective(<<>>)
    BY DEF Range, IsInjective
  <2>3. Listed' = Listed
    BY <1>1, <2>1, <2>2 DEF Listed
  <2>4. thread' = "scan"
    BY <1>2 DEF EventWake
  <2>5. QED BY <1>1, <2>1, <2>2, <2>3, <2>4 DEF ListsOK
<1>3. CASE EventEnd
  <2>1. /\ fence_list' = kept \o fence_list /\ kept' = <<>> /\ process_list' = process_list
        /\ process_list = <<>> /\ kept \in Seq(Fences) /\ fence_list \in Seq(Fences)
    BY <1>3 DEF EventEnd, TypeOK
  <2>2. Range(<<>>) = {} /\ IsInjective(<<>>)
    BY DEF Range, IsInjective
  <2>3. /\ Range(fence_list') = Range(kept) \cup Range(fence_list)
        /\ IsInjective(fence_list')
    BY <2>1, JoinList DEF ListsOK
  <2>4. Listed' = Listed
    BY <1>1, <2>1, <2>2, <2>3 DEF Listed
  <2>5. QED BY <1>1, <2>1, <2>2, <2>3, <2>4 DEF ListsOK
<1>4. QED BY <1>2, <1>3

LEMMA ScanLists ==
  ASSUME TypeOK, ListsOK, EventScan
  PROVE  ListsOK' /\ Listed' = Listed
<1> DEFINE h == Head(process_list)
<1>1. /\ process_list \in Seq(Fences) /\ process_list # <<>> /\ kept \in Seq(Fences)
      /\ process_list' = Tail(process_list) /\ thread = "scan" /\ cur = NoFence
      /\ UNCHANGED <<fence_list, arming, signaling>>
  BY DEF EventScan, TypeOK, ListsOK, armVars
<1>2. /\ h \in Fences /\ Range(process_list) = Range(process_list') \cup {h}
      /\ IsInjective(process_list') /\ h \notin Range(process_list')
  BY <1>1, TailList DEF ListsOK
<1>3. CASE cur' = h /\ thread' = "signal" /\ kept' = kept
  <2>1. h # NoFence
    BY <1>2, FenceAssumption
  <2>2. Listed' = Listed
    BY <1>1, <1>2, <1>3, <2>1 DEF Listed
  <2>3. signaling["event"] = NoFence
    BY <1>1 DEF ListsOK
  <2>4. h \notin Range(fence_list) \cup Range(kept)
    BY <1>2 DEF ListsOK
  <2>5. QED BY <1>1, <1>2, <1>3, <2>1, <2>2, <2>3, <2>4 DEF ListsOK
<1>4. CASE kept' = Append(kept, h) /\ UNCHANGED <<cur, thread>>
  <2>1. h \notin Range(fence_list) \cup Range(kept)
    BY <1>2 DEF ListsOK
  <2>2. Range(kept') = Range(kept) \cup {h} /\ IsInjective(kept')
    BY <1>1, <1>2, <1>4, <2>1, AppendList DEF ListsOK
  <2>3. Listed' = Listed
    BY <1>1, <1>2, <1>4, <2>2 DEF Listed
  <2>4. cur \notin Range(fence_list') \cup Range(process_list') \cup Range(kept')
    BY <1>1, <1>2, <2>1, <2>2, FenceAssumption DEF ListsOK
  <2>5. QED BY <1>1, <1>2, <1>4, <2>1, <2>2, <2>3, <2>4 DEF ListsOK
<1>5. QED BY <1>3, <1>4 DEF EventScan

LEMMA SignalLists ==
  ASSUME TypeOK, ListsOK,
         \/ EventSignal
         \/ \E who \in Signalers : SignalSync(who)
         \/ \E f \in Fences : Poll(f)
  PROVE  /\ ListsOK'
         /\ \/ Listed' = Listed /\ UNCHANGED cur
            \/ cur' = NoFence /\ Listed' = Listed \ {cur} /\ cur \in Listed
<1>1. UNCHANGED <<listVars, process_list, kept, arming>>
  BY DEF EventSignal, SignalSync, Poll, threadVars, armVars
<1>2. ASSUME cur # NoFence, cur' = NoFence, thread' = "scan", signaling'["event"] = NoFence
      PROVE  ListsOK' /\ Listed' = Listed \ {cur} /\ cur \in Listed
  <2>1. NoFence \notin Listed
    BY ListedIs, FenceAssumption
  <2>2. /\ NoFence \notin Range(fence_list) \cup Range(process_list) \cup Range(kept)
        /\ cur \in Listed /\ Listed' = Listed \ {cur}
    BY <1>1, <1>2, <2>1 DEF Listed, ListsOK, listVars
  <2>3. QED BY <1>1, <1>2, <2>2 DEF ListsOK, listVars
<1>3. ASSUME UNCHANGED <<cur, thread>>, signaling'["event"] \in {NoFence, cur}
      PROVE  ListsOK' /\ Listed' = Listed
  <2>1. Listed' = Listed
    BY <1>1, <1>3 DEF Listed, listVars
  <2>2. QED BY <1>1, <1>3, <2>1 DEF ListsOK, listVars
<1>4. CASE EventSignal
  <2>1. cur # NoFence /\ "event" \in Signalers
    BY <1>4 DEF EventSignal, ListsOK, Signalers
  <2>2. signaling' = [signaling EXCEPT !["event"] = cur] \/ UNCHANGED signaling
    BY <1>4, SignalFenceIs DEF EventSignal, TypeOK
  <2>3. \/ signaling'["event"] = NoFence /\ thread' = "scan" /\ cur' = NoFence
        \/ signaling'["event"] # NoFence /\ UNCHANGED <<thread, cur>>
    BY <1>4 DEF EventSignal
  <2>4. signaling'["event"] \in {NoFence, cur}
    BY <1>4, <2>1, <2>2 DEF EventSignal, TypeOK
  <2>5. QED BY <1>2, <1>3, <2>1, <2>3, <2>4
<1>5. ASSUME NEW who \in Signalers, SignalSync(who)
      PROVE  /\ ListsOK'
             /\ \/ Listed' = Listed /\ UNCHANGED cur
                \/ cur' = NoFence /\ Listed' = Listed \ {cur} /\ cur \in Listed
  <2>1. signaling' = [signaling EXCEPT ![who] = NoFence] /\ signaling[who] # NoFence
    BY <1>5 DEF SignalSync
  <2>2. CASE who = "event"
    <3>1. cur # NoFence /\ thread' = "scan" /\ cur' = NoFence /\ signaling'["event"] = NoFence
      BY <1>5, <2>1, <2>2 DEF SignalSync, ListsOK, TypeOK
    <3>2. QED BY <1>2, <3>1
  <2>3. CASE who # "event"
    <3>1. UNCHANGED <<thread, cur>> /\ signaling'["event"] = signaling["event"]
      BY <1>5, <2>1, <2>3 DEF SignalSync, TypeOK, Signalers
    <3>2. QED BY <1>3, <3>1 DEF ListsOK
  <2>4. QED BY <2>2, <2>3
<1>6. ASSUME NEW f \in Fences, Poll(f) PROVE ListsOK' /\ Listed' = Listed /\ UNCHANGED cur
  <2>1. signaling' = [signaling EXCEPT !["poll"] = f] \/ UNCHANGED signaling
    BY <1>6, SignalFenceIs DEF Poll, TypeOK
  <2>2. UNCHANGED <<cur, thread>> /\ signaling'["event"] = signaling["event"]
    BY <1>6, <2>1 DEF Poll, TypeOK, Signalers, threadVars
  <2>3. QED BY <1>3, <2>2 DEF ListsOK
<1>7. QED BY <1>4, <1>5, <1>6

\* Steps that leave the lists, the event thread and the signalers alone.
ListQuiet ==
  \/ \E f \in Fences : Emit(f) \/ Submit(f) \/ Discard(f) \/ Replace(f)
  \/ \E e \in Engines : \E n \in 1..last_send_fence_id[e] : FenceBack(e, n)
  \/ PostEvent \/ OtherInterrupt
  \/ CreateSync \/ CreateEnd \/ PollSync \/ ReleaseSync
  \/ \E f \in Fences : SyncAdds(f) \/ SyncSkips(f)
  \/ UNCHANGED vars

LEMMA QuietIs ==
  ASSUME ListQuiet PROVE UNCHANGED <<listVars, threadVars, signaling, arming, arming_by>>
  BY DEF ListQuiet, Emit, Submit, Discard, Replace, FenceBack, PostEvent, OtherInterrupt,
         CreateSync, CreateEnd, PollSync, ReleaseSync, SyncAdds, SyncSkips, armVars, vars

LEMMA NextCases ==
  ASSUME [Next]_vars
  PROVE  \/ ListQuiet \/ AddToList \/ EventWake \/ EventScan \/ EventEnd \/ EventSignal
         \/ \E f \in Fences : OtherWaits(f) \/ SyncEnables(f) \/ Poll(f)
         \/ \E who \in Signalers : SignalSync(who)
  BY DEF Next, ListQuiet, SyncLoop, EventThread

LEMMA NextLists == ASSUME TypeOK, ListsOK, EmittedOK, [Next]_vars PROVE ListsOK'
<1>1. CASE ListQuiet
  BY <1>1, QuietIs, ListsFrame
<1>2. ASSUME NEW f \in Fences, OtherWaits(f) \/ SyncEnables(f) PROVE ListsOK'
  BY <1>2, EnableLists DEF OtherWaits, SyncEnables
<1>3. QED BY <1>1, <1>2, NextCases, AddLists, ThreadLists, ScanLists, SignalLists

\* The fences on the lists change when one is added, or when it was signaled.
LEMMA ListedStep ==
  ASSUME TypeOK, ListsOK, [Next]_vars
  PROVE  \/ Listed' = Listed
         \/ AddToList
         \/ Listed' = Listed \ {cur} /\ cur \in Listed /\ cur' = NoFence
<1>1. CASE ListQuiet
  BY <1>1, QuietIs DEF Listed, listVars, threadVars
<1>2. ASSUME NEW f \in Fences, OtherWaits(f) \/ SyncEnables(f) PROVE Listed' = Listed
  BY <1>2 DEF OtherWaits, SyncEnables, Listed, listVars, threadVars
<1>3. QED BY <1>1, <1>2, NextCases, ThreadLists, ScanLists, SignalLists

LEMMA NextEmitted == ASSUME TypeOK, ListsOK, EmittedOK, SyncOK, [Next]_vars PROVE EmittedOK'
<1>1. enabled \subseteq enabled'
  <2>1. ASSUME NEW f \in Fences, EnableSignaling(f, "other") \/ EnableSignaling(f, "sync")
        PROVE  enabled \subseteq enabled'
    BY <2>1 DEF EnableSignaling
  <2>2. QED
    BY <2>1
    DEF Next, vars, Emit, Submit, Discard, Replace, OtherWaits, Poll, FenceBack, PostEvent,
        OtherInterrupt, AddToList, EventThread, EventWake, EventScan, EventSignal, EventEnd,
        CreateSync, SyncLoop, CreateEnd, SyncEnables, SyncAdds, SyncSkips, PollSync,
        ReleaseSync, SignalSync, armVars
<1>2. \A f \in Fences : render[f] # "none" => render'[f] # "none"
  <2>1. ASSUME NEW g \in Fences, Emit(g) \/ Submit(g) \/ Discard(g)
        PROVE  \A f \in Fences : render[f] # "none" => render'[f] # "none"
    BY <2>1 DEF Emit, Submit, Discard, TypeOK
  <2>2. CASE ~\E g \in Fences : Emit(g) \/ Submit(g) \/ Discard(g)
    <3>1. UNCHANGED render
      BY <2>2
      DEF Next, vars, Replace, OtherWaits, Poll, FenceBack, PostEvent, OtherInterrupt,
          AddToList, EventThread, EventWake, EventScan, EventSignal, EventEnd, CreateSync,
          SyncLoop, CreateEnd, SyncEnables, SyncAdds, SyncSkips, PollSync, ReleaseSync,
          SignalSync, renderVars
    <3>2. QED BY <3>1
  <2>3. QED BY <2>1, <2>2
<1>3. Listed' \subseteq enabled' /\ {arming'} \ {NoFence} \subseteq enabled'
  <2>1. Listed' \subseteq enabled'
    BY <1>1, ListedStep, AddLists, FenceAssumption DEF EmittedOK, AddToList
  <2>2. arming' \in {NoFence, arming} \cup enabled'
    <3>1. ASSUME NEW f \in Fences, OtherWaits(f) \/ SyncEnables(f)
          PROVE  arming' \in enabled'
      BY <3>1 DEF OtherWaits, SyncEnables, EnableSignaling
    <3>2. CASE ~\E f \in Fences : OtherWaits(f) \/ SyncEnables(f)
      BY <3>2, NextCases, QuietIs
      DEF AddToList, EventWake, EventScan, EventEnd, EventSignal, Poll, SignalSync, armVars
    <3>3. QED BY <3>1, <3>2
  <2>3. QED BY <1>1, <2>1, <2>2 DEF EmittedOK
<1>4. \A f \in resv' : render'[f] # "none"
  <2>1. ASSUME NEW g \in Fences, Emit(g) PROVE \A f \in resv' : render'[f] # "none"
    BY <1>2, <2>1 DEF Emit, EmittedOK, TypeOK
  <2>2. ASSUME ~\E g \in Fences : Emit(g) PROVE resv' \subseteq resv
    BY <2>2
    DEF Next, vars, Submit, Discard, Replace, OtherWaits, Poll, FenceBack, PostEvent,
        OtherInterrupt, AddToList, EventThread, EventWake, EventScan, EventSignal, EventEnd,
        CreateSync, SyncLoop, CreateEnd, SyncEnables, SyncAdds, SyncSkips, PollSync,
        ReleaseSync, SignalSync
  <2>3. QED BY <1>2, <2>1, <2>2 DEF EmittedOK, TypeOK
<1>5. fences' \subseteq fences \cup resv
  BY DEF Next, vars, Emit, Submit, Discard, Replace, OtherWaits, Poll, FenceBack, PostEvent,
        OtherInterrupt, AddToList, EventThread, EventWake, EventScan, EventSignal, EventEnd,
        CreateSync, SyncLoop, CreateEnd, SyncEnables, SyncAdds, SyncSkips, PollSync,
        ReleaseSync, SignalSync, syncVars
<1>6. enabled' \subseteq enabled \cup resv \cup fences
  <2>1. ASSUME NEW f \in Fences, OtherWaits(f) \/ SyncEnables(f) \/ SyncSkips(f)
        PROVE  enabled' \subseteq enabled \cup resv \cup fences
    BY <2>1 DEF OtherWaits, SyncEnables, SyncSkips, EnableSignaling, InLoop, SyncOK
  <2>2. CASE ~\E f \in Fences : OtherWaits(f) \/ SyncEnables(f) \/ SyncSkips(f)
    BY <2>2
    DEF Next, vars, Emit, Submit, Discard, Replace, Poll, FenceBack, PostEvent,
        OtherInterrupt, AddToList, EventThread, EventWake, EventScan, EventSignal, EventEnd,
        CreateSync, SyncLoop, CreateEnd, SyncAdds, PollSync, ReleaseSync, SignalSync, armVars
  <2>3. QED BY <2>1, <2>2
<1>7. QED BY <1>2, <1>3, <1>4, <1>5, <1>6 DEF EmittedOK, TypeOK

-----------------------------------------------------------------------------
(* The fences the sync object still waits for.                             *)

LEMMA FenceSets ==
  ASSUME NEW S \in SUBSET Fences
  PROVE  /\ Cardinality(S) \in Nat /\ (Cardinality(S) = 0 <=> S = {})
         /\ \A f \in S : Cardinality(S \ {f}) = Cardinality(S) - 1
         /\ \A f \in Fences : f \notin S => Cardinality(S \cup {f}) = Cardinality(S) + 1
<1>1. IsFiniteSet(S)
  BY FS_Subset, FenceAssumption
<1>2. QED BY <1>1, FS_CardinalityType, FS_EmptySet, FS_RemoveElement, FS_AddElement

LEMMA PendingTypes ==
  ASSUME TypeOK, SyncOK
  PROVE  /\ todo \in SUBSET Fences /\ callbacks \in SUBSET Fences /\ num_pending \in Nat
         /\ num_pending = 0 <=> todo = {} /\ callbacks = {}
         /\ \A f \in todo : num_pending = 1 <=> todo = {f} /\ callbacks = {}
<1>1. todo \in SUBSET Fences /\ callbacks \in SUBSET Fences
  BY DEF TypeOK, SyncOK
<1>2. /\ Cardinality(todo) \in Nat /\ Cardinality(callbacks) \in Nat
      /\ num_pending = Cardinality(todo) + Cardinality(callbacks)
      /\ Cardinality(todo) = 0 <=> todo = {}
      /\ Cardinality(callbacks) = 0 <=> callbacks = {}
  BY <1>1, FenceSets DEF SyncOK
<1>3. ASSUME NEW f \in todo PROVE num_pending = 1 <=> todo = {f} /\ callbacks = {}
  <2>1. /\ Cardinality(todo \ {f}) = Cardinality(todo) - 1
        /\ Cardinality(todo \ {f}) = 0 <=> todo \ {f} = {}
    BY <1>1, FenceSets
  <2>2. num_pending = 1 <=> Cardinality(todo \ {f}) = 0 /\ Cardinality(callbacks) = 0
    BY <1>2, <2>1
  <2>3. QED BY <1>2, <2>1, <2>2
<1>4. QED BY <1>1, <1>2, <1>3

LEMMA SyncFrame ==
  ASSUME SyncOK, UNCHANGED <<sync, fences, todo, callbacks, num_pending, arming, arming_by>>,
         signaled \subseteq signaled',
         sync = "none" => UNCHANGED sync_signaled,
         \A who \in Signalers : signaling'[who] \in {NoFence, signaling[who]}
  PROVE  SyncOK'
  BY DEF SyncOK

\* The signaler of a fence takes its callback.
LEMMA SignalSyncOK ==
  ASSUME TypeOK, SyncOK, NEW f \in Fences, NEW who \in Signalers, NEW put,
         SignalFence(f, who, put),
         UNCHANGED <<sync, fences, todo, arming, arming_by, sync_signaled>>
  PROVE  SyncOK'
<1>1. /\ signaled' = signaled \cup {f} /\ callbacks' = callbacks \ {f}
      /\ f \in callbacks => num_pending' = num_pending - 1
      /\ f \notin callbacks => num_pending' = num_pending
  <2> DEFINE n == IF f \in callbacks THEN 1 ELSE 0
  <2>1. /\ signaled' = signaled \cup {f} /\ callbacks' = callbacks \ {f}
        /\ num_pending' = num_pending - n
    BY DEF SignalFence
  <2>2. (f \in callbacks => n = 1) /\ (f \notin callbacks => n = 0)
    OBVIOUS
  <2>3. num_pending \in Nat
    BY PendingTypes
  <2> HIDE DEF n
  <2>4. QED BY <2>1, <2>2, <2>3
<1>2. todo \in SUBSET Fences /\ callbacks \in SUBSET Fences /\ num_pending \in Nat
  BY PendingTypes
<1>3. num_pending' = Cardinality(todo') + Cardinality(callbacks')
  <2>1. CASE f \in callbacks
    <3>1. Cardinality(callbacks') = Cardinality(callbacks) - 1
      BY <1>1, <1>2, <2>1, FenceSets
    <3>2. Cardinality(callbacks) \in Nat /\ Cardinality(todo) \in Nat
      BY <1>2, FenceSets
    <3>3. QED BY <1>1, <2>1, <3>1, <3>2 DEF SyncOK
  <2>2. CASE f \notin callbacks
    BY <1>1, <2>2 DEF SyncOK
  <2>3. QED BY <2>1, <2>2
<1>4. ASSUME NEW w \in Signalers, signaling'[w] # NoFence
      PROVE  num_pending' = 0 /\ sync' # "none"
  <2>1. CASE f \in callbacks /\ num_pending = 1
    BY <1>1, <2>1 DEF SyncOK
  <2>2. CASE ~(f \in callbacks /\ num_pending = 1)
    <3>1. UNCHANGED signaling
      BY <2>2 DEF SignalFence
    <3>2. num_pending = 0 /\ sync # "none"
      BY <1>4, <3>1 DEF SyncOK
    <3>3. f \notin callbacks
      BY <3>2, PendingTypes
    <3>4. QED BY <1>1, <3>2, <3>3
  <2>3. QED BY <2>1, <2>2
<1>5. QED BY <1>1, <1>3, <1>4 DEF SyncOK

\* A fence goes from the loop to the callbacks, or is done with.
LEMMA LoopSync ==
  ASSUME TypeOK, SyncOK, NEW f \in todo, todo' = todo \ {f},
         UNCHANGED <<fences, signaling>>, arming_by' # "sync",
         arming_by' = "none" <=> arming' = NoFence,
         sync' = "none" => sync = "none" /\ ~sync_signaled',
         sync' = "create" \/ todo' = {},
         \/ callbacks' = callbacks \cup {f} /\ UNCHANGED <<num_pending, signaled>>
         \/ /\ callbacks' = callbacks /\ num_pending' = num_pending - 1
            /\ signaled' = signaled \cup {f}
  PROVE  SyncOK'
<1>1. todo \in SUBSET Fences /\ callbacks \in SUBSET Fences /\ f \in Fences /\ f \notin callbacks
  BY PendingTypes DEF SyncOK
<1>2. /\ Cardinality(todo') = Cardinality(todo) - 1 /\ Cardinality(todo) \in Nat
      /\ Cardinality(callbacks \cup {f}) = Cardinality(callbacks) + 1
      /\ Cardinality(callbacks) \in Nat
  BY <1>1, FenceSets
<1>3. num_pending' = Cardinality(todo') + Cardinality(callbacks')
  <2>1. num_pending = Cardinality(todo) + Cardinality(callbacks)
    BY DEF SyncOK
  <2>2. CASE callbacks' = callbacks \cup {f} /\ UNCHANGED num_pending
    <3>1. Cardinality(callbacks') = Cardinality(callbacks) + 1
      BY <1>2, <2>2
    <3>2. QED BY <1>2, <2>1, <2>2, <3>1
  <2>3. CASE callbacks' = callbacks /\ num_pending' = num_pending - 1
    <3>1. Cardinality(callbacks') = Cardinality(callbacks)
      BY <2>3
    <3>2. QED BY <1>2, <2>1, <2>3, <3>1
  <2>4. QED BY <2>2, <2>3
<1>4. \A who \in Signalers : signaling[who] = NoFence
  BY PendingTypes DEF SyncOK
<1>5. QED BY <1>1, <1>3, <1>4 DEF SyncOK
LEMMA NextSync == ASSUME TypeOK, ListsOK, SyncOK, [Next]_vars PROVE SyncOK'
<1>1. CASE AddToList
  <2>1. /\ arming # NoFence /\ arming' = NoFence /\ arming_by' = "none"
        /\ UNCHANGED <<fences, signaling, num_pending, signaled, sync, sync_signaled>>
    BY <1>1 DEF AddToList
  <2>2. CASE arming_by = "sync"
    <3>1. /\ arming \in todo /\ sync = "create"
          /\ callbacks' = callbacks \cup {arming} /\ todo' = todo \ {arming}
      BY <1>1, <2>2 DEF AddToList, SyncOK
    <3>2. QED BY <2>1, <3>1, LoopSync
  <2>3. CASE arming_by # "sync"
    <3>1. UNCHANGED <<todo, callbacks>>
      BY <1>1, <2>3 DEF AddToList
    <3>2. QED BY <2>1, <3>1 DEF SyncOK
  <2>4. QED BY <2>2, <2>3
<1>2. ASSUME NEW f \in Fences, OtherWaits(f) PROVE SyncOK'
  BY <1>2, FenceAssumption DEF OtherWaits, EnableSignaling, syncVars, SyncOK
<1>3. ASSUME NEW f \in Fences, SyncEnables(f) PROVE SyncOK'
  BY <1>3, FenceAssumption DEF SyncEnables, InLoop, EnableSignaling, SyncOK
<1>4. ASSUME NEW f \in Fences, SyncAdds(f) PROVE SyncOK'
  <2>1. /\ f \in todo /\ todo' = todo \ {f} /\ callbacks' = callbacks \cup {f}
        /\ UNCHANGED <<fences, signaling, num_pending, signaled, sync, sync_signaled, arming,
                       arming_by>>
        /\ sync = "create" /\ arming_by # "sync"
    BY <1>4 DEF SyncAdds, InLoop, armVars
  <2>2. arming_by' = "none" <=> arming' = NoFence
    BY <2>1 DEF SyncOK
  <2>3. QED BY <2>1, <2>2, LoopSync
<1>5. ASSUME NEW f \in Fences, SyncSkips(f) PROVE SyncOK'
  <2>1. /\ f \in todo /\ todo' = todo \ {f} /\ callbacks' = callbacks
        /\ num_pending' = num_pending - 1 /\ signaled' = signaled \cup {f}
        /\ UNCHANGED <<fences, signaling, arming, arming_by>>
        /\ sync = "create" /\ sync' # "none" /\ arming_by # "sync"
        /\ sync' = "create" \/ num_pending = 1
    BY <1>5 DEF SyncSkips, InLoop
  <2>2. arming_by' = "none" <=> arming' = NoFence
    BY <2>1 DEF SyncOK
  <2>3. sync' = "create" \/ todo' = {}
    BY <2>1, PendingTypes
  <2>4. QED BY <2>1, <2>2, <2>3, LoopSync
<1>6. CASE EventSignal
  <2>1. /\ cur \in Fences /\ SignalFence(cur, "event", {cur})
        /\ UNCHANGED <<sync, fences, todo, arming, arming_by, sync_signaled>>
    BY <1>6 DEF EventSignal, TypeOK, ListsOK, armVars
  <2>2. QED BY <2>1, SignalSyncOK DEF Signalers
<1>7. ASSUME NEW f \in Fences, Poll(f) PROVE SyncOK'
  <2>1. /\ SignalFence(f, "poll", {})
        /\ UNCHANGED <<sync, fences, todo, arming, arming_by, sync_signaled>>
    BY <1>7 DEF Poll, armVars
  <2>2. QED BY <2>1, SignalSyncOK DEF Signalers
<1>8. ASSUME NEW who \in Signalers, SignalSync(who) PROVE SyncOK'
  <2>1. /\ signaling[who] # NoFence /\ signaling' = [signaling EXCEPT ![who] = NoFence]
        /\ UNCHANGED <<sync, fences, todo, callbacks, num_pending, arming, arming_by, signaled>>
    BY <1>8 DEF SignalSync, armVars
  <2>2. sync # "none"
    BY <2>1 DEF SyncOK
  <2>3. \A w \in Signalers : signaling'[w] \in {NoFence, signaling[w]}
    BY <2>1 DEF TypeOK
  <2>4. QED BY <2>1, <2>2, <2>3, SyncFrame
<1>9. CASE CreateSync
  <2>1. /\ sync = "none" /\ sync' = "create" /\ todo' = fences' /\ fences' \subseteq Fences
        /\ num_pending' = Cardinality(fences')
        /\ UNCHANGED <<callbacks, arming, arming_by, signaling, sync_signaled>>
    BY <1>9 DEF CreateSync, Pending, armVars, TypeOK
  <2>2. callbacks = {} /\ arming_by # "sync" /\ \A w \in Signalers : signaling[w] = NoFence
    BY <2>1 DEF SyncOK
  <2>3. Cardinality(callbacks') = 0 /\ Cardinality(fences') \in Nat
    BY <2>1, <2>2, FenceSets
  <2>4. QED BY <2>1, <2>2, <2>3 DEF SyncOK
<1>10. CASE CreateEnd \/ ReleaseSync \/ PollSync
  <2>1. /\ sync' # "none" /\ sync # "none" /\ todo = {}
        /\ sync' = "create" => sync = "create"
        /\ UNCHANGED <<fences, todo, callbacks, num_pending, arming, arming_by, signaled,
                       signaling>>
    BY <1>10 DEF CreateEnd, ReleaseSync, PollSync, armVars, SyncOK
  <2>2. QED BY <2>1 DEF SyncOK
<1>11. CASE \/ \E f \in Fences : Emit(f) \/ Submit(f) \/ Discard(f) \/ Replace(f)
            \/ \E e \in Engines : \E n \in 1..last_send_fence_id[e] : FenceBack(e, n)
            \/ PostEvent \/ OtherInterrupt \/ EventWake \/ EventScan \/ EventEnd
            \/ UNCHANGED vars
  <2>1. UNCHANGED <<sync, fences, todo, callbacks, num_pending, arming, arming_by, signaled,
                    sync_signaled, signaling>>
    BY <1>11
    DEF Emit, Submit, Discard, Replace, FenceBack, PostEvent, OtherInterrupt, EventWake,
        EventScan, EventEnd, vars, armVars, syncVars
  <2>2. QED BY <2>1, SyncFrame
<1>12. QED
  BY <1>1, <1>2, <1>3, <1>4, <1>5, <1>6, <1>7, <1>8, <1>9, <1>10, <1>11
  DEF Next, SyncLoop, EventThread

-----------------------------------------------------------------------------
(* What is signaled is finished.                                           *)

\* An id that was not given yet is not back.
LEMMA BackIsFinished ==
  ASSUME TypeOK, IdsOK, NEW f \in Fences, render[f] # "none", Back(f)
  PROVE  Finished(f)
<1> DEFINE e == EngineOf[f]
<1>1. e \in Engines /\ IsFiniteSet(Fences) /\ SentSet(e) \in SUBSET Fences
  BY FenceAssumption DEF SentSet
<1>2. Cardinality(SentSet(e)) <= Cardinality(Fences) /\ Cardinality(Fences) \in Nat
  BY <1>1, FS_Subset, FS_CardinalityType
<1>3. /\ returned_fence_id[e] <= Cardinality(SentSet(e)) /\ returned_fence_id[e] \in Nat
      /\ Cardinality(SentSet(e)) \in Nat
  BY <1>1, FenceSets DEF IdsOK, SentOK, TypeOK
<1>4. render[f] # "emitted"
  <2>1. SUFFICES ASSUME value[f] = Cardinality(Fences) + 1 PROVE FALSE
    BY DEF IdsOK, SentOK, InitialValue
  <2>2. returned_fence_id[e] >= value[f]
    BY DEF Back
  <2>3. QED BY <1>2, <1>3, <2>1, <2>2
<1>5. QED BY <1>4 DEF Finished, Back, TypeOK

LEMMA FinishedStays ==
  ASSUME TypeOK, [Next]_vars, NEW f \in Fences, Finished(f)
  PROVE  Finished(f)'
<1>1. render[f] \in {"sent", "discarded"}
  BY DEF Finished
<1>2. CASE UNCHANGED <<render, value, returned_fence_id>>
  BY <1>2 DEF Finished
<1>3. ASSUME NEW g \in Fences, Emit(g) \/ Submit(g) \/ Discard(g) PROVE Finished(f)'
  <2>1. /\ g # f /\ UNCHANGED returned_fence_id
        /\ \E s : render' = [render EXCEPT ![g] = s]
        /\ \E v : value' = [value EXCEPT ![g] = v]
    BY <1>1, <1>3 DEF Emit, Submit, Discard
  <2>2. render'[f] = render[f] /\ value'[f] = value[f]
    BY <2>1 DEF TypeOK
  <2>3. QED BY <2>1, <2>2 DEF Finished
<1>4. ASSUME NEW e \in Engines, NEW n \in 1..last_send_fence_id[e], FenceBack(e, n)
      PROVE  Finished(f)'
  <2>1. /\ UNCHANGED <<render, value>> /\ n > returned_fence_id[e] /\ n \in Nat
        /\ returned_fence_id' = [returned_fence_id EXCEPT ![e] = n]
    BY <1>4 DEF FenceBack, TypeOK
  <2>2. EngineOf[f] \in Engines /\ value[f] \in Nat
    BY FenceAssumption DEF TypeOK
  <2>3. returned_fence_id'[EngineOf[f]] >= returned_fence_id[EngineOf[f]]
    BY <2>1, <2>2 DEF TypeOK
  <2>4. QED BY <2>1, <2>2, <2>3 DEF Finished, TypeOK
<1>5. CASE \/ \E g \in Fences : Replace(g) \/ OtherWaits(g) \/ Poll(g)
           \/ PostEvent \/ OtherInterrupt \/ AddToList \/ EventThread
           \/ CreateSync \/ SyncLoop \/ PollSync \/ ReleaseSync
           \/ \E who \in Signalers : SignalSync(who)
           \/ UNCHANGED vars
  <2>1. UNCHANGED <<render, value, returned_fence_id>>
    BY <1>5
    DEF Replace, OtherWaits, Poll, PostEvent, OtherInterrupt, AddToList, EventThread, EventWake,
        EventScan, EventSignal, EventEnd, CreateSync, SyncLoop, CreateEnd, SyncEnables, SyncAdds,
        SyncSkips, PollSync, ReleaseSync, SignalSync, renderVars, vars
  <2>2. QED BY <1>2, <2>1
<1>6. QED BY <1>3, <1>4, <1>5 DEF Next

LEMMA NextIds ==
  ASSUME TypeOK, ListsOK, EmittedOK, IdsOK, [Next]_vars PROVE IdsOK'
<1>1. cur' # NoFence => Finished(cur)'
  <2>1. ASSUME cur' # NoFence PROVE Finished(cur)'
    <3>1. CASE cur' = cur
      <4>1. cur \in Fences /\ Finished(cur)
        BY <2>1, <3>1 DEF TypeOK, IdsOK
      <4>2. PICK c \in Fences : c = cur
        BY <4>1
      <4>3. Finished(c)'
        BY <4>1, <4>2, FinishedStays
      <4>4. QED BY <3>1, <4>2, <4>3 DEF Finished
    <3>2. CASE cur' # cur
      <4>1. EventScan
        BY <2>1, <3>2, NextCases, QuietIs
        DEF AddToList, EventWake, EventEnd, EventSignal, OtherWaits, SyncEnables, Poll,
            SignalSync, threadVars
      <4>2. /\ cur' = Head(process_list) /\ Back(Head(process_list))
            /\ process_list # <<>> /\ process_list \in Seq(Fences)
            /\ UNCHANGED renderVars
        BY <3>2, <4>1 DEF EventScan, TypeOK
      <4>3. PICK h \in Fences : h = Head(process_list) /\ h \in Range(process_list)
        BY <4>2, TailList
      <4>4. render[h] # "none"
        BY <4>3 DEF EmittedOK, Listed
      <4>5. Finished(h)
        BY <4>2, <4>3, <4>4, BackIsFinished
      <4>6. QED BY <4>2, <4>3, <4>5 DEF Finished, renderVars
    <3>3. QED BY <3>1, <3>2
  <2>2. QED BY <2>1
<1>2. SentOK'
  <2>0. SentOK
    BY DEF IdsOK
  <2>1. CASE UNCHANGED renderVars
    <3>1. \A e \in Engines : SentSet(e)' = SentSet(e)
      BY <2>1 DEF SentSet, renderVars
    <3>2. QED BY <2>0, <2>1, <3>1 DEF SentOK, renderVars
  <2>2. ASSUME NEW f \in Fences, Emit(f) \/ Discard(f) PROVE SentOK'
    <3>1. /\ UNCHANGED <<returned_fence_id, last_send_fence_id>>
          /\ render[f] # "sent" /\ \E s \in {"emitted", "discarded"} :
                                     /\ render' = [render EXCEPT ![f] = s]
                                     /\ s = "emitted" =>
                                          value' = [value EXCEPT ![f] = InitialValue]
          /\ \E v : value' = [value EXCEPT ![f] = v]
      BY <2>2 DEF Emit, Discard
    <3>2. \A e \in Engines : SentSet(e)' = SentSet(e)
      BY <3>1 DEF SentSet, TypeOK
    <3>3. \A g \in Fences : render'[g] = "emitted" => value'[g] = InitialValue
      BY <2>0, <3>1 DEF TypeOK, SentOK
    <3>4. QED BY <2>0, <3>1, <3>2, <3>3 DEF SentOK
  <2>3. ASSUME NEW f \in Fences, Submit(f) PROVE SentOK'
    <3> DEFINE e == EngineOf[f]
    <3>1. /\ render[f] = "emitted" /\ render' = [render EXCEPT ![f] = "sent"]
          /\ last_send_fence_id' = [last_send_fence_id EXCEPT ![e] = last_send_fence_id[e] + 1]
          /\ value' = [value EXCEPT ![f] = last_send_fence_id[e] + 1]
          /\ UNCHANGED returned_fence_id /\ e \in Engines
      BY <2>3, FenceAssumption DEF Submit
    <3>2. /\ SentSet(e)' = SentSet(e) \cup {f} /\ f \notin SentSet(e)
          /\ SentSet(e) \in SUBSET Fences
          /\ \A d \in Engines : d # e => SentSet(d)' = SentSet(d)
      BY <3>1 DEF SentSet, TypeOK
    <3>3. last_send_fence_id'[e] = Cardinality(SentSet(e)')
      <4>1. last_send_fence_id[e] = Cardinality(SentSet(e)) /\ last_send_fence_id[e] \in Nat
        BY <2>0, <3>1 DEF SentOK, TypeOK
      <4>2. Cardinality(SentSet(e)') = Cardinality(SentSet(e)) + 1
        BY <3>2, FenceSets
      <4>3. last_send_fence_id'[e] = last_send_fence_id[e] + 1
        BY <3>1 DEF TypeOK
      <4>4. QED BY <4>1, <4>2, <4>3
    <3>4. \A d \in Engines : d # e => last_send_fence_id'[d] = Cardinality(SentSet(d)')
      BY <2>0, <3>1, <3>2 DEF TypeOK, SentOK
    <3>5. \A d \in Engines : returned_fence_id'[d] <= last_send_fence_id'[d]
      BY <2>0, <3>1 DEF TypeOK, SentOK
    <3>6. \A g \in Fences : render'[g] = "emitted" => value'[g] = InitialValue
      BY <2>0, <3>1 DEF TypeOK, SentOK
    <3>7. QED BY <3>3, <3>4, <3>5, <3>6 DEF SentOK
  <2>4. ASSUME NEW e \in Engines, NEW n \in 1..last_send_fence_id[e], FenceBack(e, n)
        PROVE  SentOK'
    <3>1. /\ UNCHANGED <<render, value, last_send_fence_id>>
          /\ returned_fence_id' = [returned_fence_id EXCEPT ![e] = n]
          /\ n <= last_send_fence_id[e]
      BY <2>4 DEF FenceBack
    <3>2. \A d \in Engines : SentSet(d)' = SentSet(d)
      BY <3>1 DEF SentSet
    <3>3. QED BY <2>0, <3>1, <3>2 DEF TypeOK, SentOK
  <2>5. CASE \/ \E g \in Fences : Replace(g) \/ OtherWaits(g) \/ Poll(g)
             \/ PostEvent \/ OtherInterrupt \/ AddToList \/ EventThread
             \/ CreateSync \/ SyncLoop \/ PollSync \/ ReleaseSync
             \/ \E who \in Signalers : SignalSync(who)
             \/ UNCHANGED vars
    <3>1. UNCHANGED renderVars
      BY <2>5
      DEF Replace, OtherWaits, Poll, PostEvent, OtherInterrupt, AddToList, EventThread,
          EventWake, EventScan, EventSignal, EventEnd, CreateSync, SyncLoop, CreateEnd,
          SyncEnables, SyncAdds, SyncSkips, PollSync, ReleaseSync, SignalSync, vars
    <3>2. QED BY <2>1, <3>1
  <2>6. QED BY <2>2, <2>3, <2>4, <2>5 DEF Next
<1>3. QED BY <1>1, <1>2 DEF IdsOK

LEMMA NextSignaled ==
  ASSUME TypeOK, ListsOK, EmittedOK, SyncOK, IdsOK, SignaledIsFinished, [Next]_vars
  PROVE  SignaledIsFinished'
<1>1. ASSUME NEW f \in signaled' PROVE Finished(f)'
  <2>1. CASE f \in signaled
    BY <2>1, FinishedStays DEF SignaledIsFinished, TypeOK
  <2>2. CASE f \notin signaled
    <3>1. \/ EventSignal \/ (\E g \in Fences : Poll(g)) \/ \E g \in Fences : SyncSkips(g)
      BY <1>1, <2>2
      DEF Next, vars, Emit, Submit, Discard, Replace, OtherWaits, FenceBack, PostEvent,
          OtherInterrupt, AddToList, EventThread, EventWake, EventScan, EventEnd,
          CreateSync, SyncLoop, CreateEnd, SyncEnables, SyncAdds, PollSync,
          ReleaseSync, SignalSync
    <3>2. f \in Fences /\ Finished(f)
      <4>1. CASE EventSignal
        <5>1. cur # NoFence /\ cur \in Fences /\ signaled' = signaled \cup {cur}
          BY <4>1 DEF EventSignal, SignalFence, ListsOK, TypeOK
        <5>2. QED BY <1>1, <2>2, <5>1 DEF IdsOK
      <4>2. ASSUME NEW g \in Fences, Poll(g) PROVE f \in Fences /\ Finished(f)
        <5>1. f = g /\ Back(g) /\ render[g] # "none"
          BY <1>1, <2>2, <4>2 DEF Poll, SignalFence, EmittedOK
        <5>2. QED BY <5>1, BackIsFinished
      <4>3. ASSUME NEW g \in Fences, SyncSkips(g) PROVE f \in Fences /\ Finished(f)
        <5>1. f = g /\ Back(g) /\ render[g] # "none"
          BY <1>1, <2>2, <4>3 DEF SyncSkips, InLoop, EmittedOK, SyncOK
        <5>2. QED BY <5>1, BackIsFinished
      <4>4. QED BY <3>1, <4>1, <4>2, <4>3
    <3>3. QED BY <3>2, FinishedStays
  <2>3. QED BY <2>1, <2>2
<1>2. signaled \subseteq signaled'
  BY DEF Next, vars, Emit, Submit, Discard, Replace, OtherWaits, FenceBack, PostEvent, Poll,
         OtherInterrupt, AddToList, EventThread, EventWake, EventScan, EventSignal, EventEnd,
         CreateSync, SyncLoop, CreateEnd, SyncEnables, SyncAdds, SyncSkips, PollSync,
         ReleaseSync, SignalSync, SignalFence
<1>3. ASSUME sync_signaled' PROVE fences' \subseteq signaled'
  <2>1. CASE CreateSync
    BY <1>3, <2>1 DEF CreateSync, SyncOK
  <2>2. CASE ~CreateSync
    <3>1. UNCHANGED fences
      BY <2>2
      DEF Next, vars, Emit, Submit, Discard, Replace, OtherWaits, FenceBack, PostEvent, Poll,
          OtherInterrupt, AddToList, EventThread, EventWake, EventScan, EventSignal, EventEnd,
          SyncLoop, CreateEnd, SyncEnables, SyncAdds, SyncSkips, PollSync,
          ReleaseSync, SignalSync, syncVars
    <3>2. CASE sync_signaled
      BY <1>2, <3>1, <3>2 DEF SignaledIsFinished
    <3>3. CASE ~sync_signaled
      <4>1. \/ PollSync \/ (\E who \in Signalers : SignalSync(who))
            \/ \E f \in Fences : SyncSkips(f)
        BY <1>3, <3>3
        DEF Next, vars, Emit, Submit, Discard, Replace, OtherWaits, FenceBack, PostEvent, Poll,
            OtherInterrupt, AddToList, EventThread, EventWake, EventScan, EventSignal, EventEnd,
            CreateSync, SyncLoop, CreateEnd, SyncEnables, SyncAdds, ReleaseSync, syncVars
      <4>2. CASE PollSync \/ \E who \in Signalers : SignalSync(who)
        <5>1. num_pending = 0
          BY <4>2 DEF PollSync, SignalSync, SyncOK
        <5>2. fences \subseteq signaled
          BY <5>1, PendingTypes DEF SyncOK
        <5>3. QED BY <1>2, <3>1, <5>2
      <4>3. ASSUME NEW f \in Fences, SyncSkips(f) PROVE fences \subseteq signaled'
        <5>1. f \in todo /\ signaled' = signaled \cup {f} /\ num_pending = 1
          BY <1>3, <3>3, <4>3 DEF SyncSkips, InLoop
        <5>2. todo = {f} /\ callbacks = {}
          BY <5>1, PendingTypes
        <5>3. QED BY <5>1, <5>2 DEF SyncOK
      <4>4. QED BY <3>1, <4>1, <4>2, <4>3
    <3>4. QED BY <3>2, <3>3
  <2>3. QED BY <2>1, <2>2
<1>4. QED BY <1>1, <1>3 DEF SignaledIsFinished, Finished

-----------------------------------------------------------------------------
(* The references of the sync object.                                      *)

Open == Count(sync \in {"create", "live"})
Adding == Count(arming_by = "sync")
RunSet == {who \in Signalers : signaling[who] # NoFence}

SyncRefs == sync_ref = Open + Cardinality(callbacks) + Adding + Cardinality(RunSet)

LEMMA OpenIs ==
  /\ sync \in {"create", "live"} => Open = 1
  /\ sync \notin {"create", "live"} => Open = 0
  /\ sync' \in {"create", "live"} => Open' = 1
  /\ sync' \notin {"create", "live"} => Open' = 0
  BY DEF Open, Count

LEMMA AddingIs ==
  /\ arming_by = "sync" => Adding = 1
  /\ arming_by # "sync" => Adding = 0
  /\ arming_by' = "sync" => Adding' = 1
  /\ arming_by' # "sync" => Adding' = 0
  BY DEF Adding, Count

LEMMA RunSets ==
  ASSUME NEW S \in SUBSET Signalers
  PROVE  /\ Cardinality(S) \in Nat /\ (Cardinality(S) = 0 <=> S = {})
         /\ \A w \in S : Cardinality(S \ {w}) = Cardinality(S) - 1
         /\ \A w \in Signalers : w \notin S => Cardinality(S \cup {w}) = Cardinality(S) + 1
<1>1. IsFiniteSet(Signalers)
  <2>1. IsFiniteSet({"event"})
    BY FS_Singleton
  <2>2. IsFiniteSet({"event"} \cup {"poll"})
    BY <2>1, FS_AddElement
  <2>3. Signalers = {"event"} \cup {"poll"}
    BY DEF Signalers
  <2>4. QED BY <2>2, <2>3
<1>2. IsFiniteSet(S)
  BY <1>1, FS_Subset
<1>3. QED BY <1>2, FS_CardinalityType, FS_EmptySet, FS_RemoveElement, FS_AddElement

LEMMA SyncRefTypes ==
  ASSUME TypeOK, SyncOK, SyncRefs
  PROVE  /\ sync_ref \in Nat
         /\ Open \in {0, 1} /\ Adding \in {0, 1}
         /\ Cardinality(callbacks) \in Nat /\ Cardinality(RunSet) \in Nat
         /\ sync \in {"create", "live"} => sync_ref > 0
         /\ callbacks # {} => sync_ref > 0
         /\ RunSet # {} => sync_ref > 0
         /\ sync = "none" => sync_ref = 0
<1>1. callbacks \in SUBSET Fences /\ RunSet \in SUBSET Signalers
  BY PendingTypes DEF RunSet
<1>2. /\ Cardinality(callbacks) \in Nat /\ (Cardinality(callbacks) = 0 <=> callbacks = {})
      /\ Cardinality(RunSet) \in Nat /\ (Cardinality(RunSet) = 0 <=> RunSet = {})
  BY <1>1, FenceSets, RunSets
<1>3. Open \in {0, 1} /\ Adding \in {0, 1} /\ (sync \in {"create", "live"} => Open = 1)
  BY OpenIs, AddingIs
<1>4. sync = "none" => Open = 0 /\ callbacks = {} /\ Adding = 0 /\ RunSet = {}
  BY OpenIs, AddingIs DEF SyncOK, RunSet
<1>5. QED BY <1>2, <1>3, <1>4 DEF SyncRefs

LEMMA SyncRefsFrame ==
  ASSUME SyncRefs, UNCHANGED <<sync, callbacks, arming_by, signaling, sync_ref>>
  PROVE  SyncRefs'
  BY DEF SyncRefs, Open, Adding, RunSet

LEMMA SignalSyncRefs ==
  ASSUME TypeOK, SyncOK, SyncRefs, NEW f \in Fences, NEW who \in Signalers, NEW put,
         SignalFence(f, who, put), signaling[who] = NoFence, UNCHANGED <<sync, arming_by>>
  PROVE  SyncRefs'
<1>1. /\ callbacks \in SUBSET Fences /\ RunSet \in SUBSET Signalers /\ who \notin RunSet
      /\ callbacks' = callbacks \ {f} /\ Open' = Open /\ Adding' = Adding
  BY PendingTypes DEF RunSet, SignalFence, Open, Adding
<1>2. /\ sync_ref \in Nat /\ Open \in Int /\ Adding \in Int
      /\ Cardinality(callbacks) \in Nat /\ Cardinality(RunSet) \in Nat
  BY SyncRefTypes
<1>3. CASE f \in callbacks /\ num_pending = 1
  <2>1. UNCHANGED sync_ref /\ signaling' = [signaling EXCEPT ![who] = f]
    BY <1>3 DEF SignalFence
  <2>2. RunSet' = RunSet \cup {who}
    BY <2>1, FenceAssumption DEF RunSet, TypeOK
  <2>3. /\ Cardinality(RunSet') = Cardinality(RunSet) + 1
        /\ Cardinality(callbacks') = Cardinality(callbacks) - 1
    BY <1>1, <1>3, <2>2, RunSets, FenceSets
  <2>4. QED BY <1>1, <1>2, <2>1, <2>3 DEF SyncRefs
<1>4. CASE f \in callbacks /\ num_pending # 1
  <2>1. sync_ref' = sync_ref - 1 /\ UNCHANGED signaling
    BY <1>4 DEF SignalFence
  <2>2. Cardinality(callbacks') = Cardinality(callbacks) - 1 /\ RunSet' = RunSet
    BY <1>1, <1>4, <2>1, FenceSets DEF RunSet
  <2>3. QED BY <1>1, <1>2, <2>1, <2>2 DEF SyncRefs
<1>5. CASE f \notin callbacks
  <2>1. UNCHANGED <<sync_ref, signaling>> /\ callbacks' = callbacks
    BY <1>1, <1>5 DEF SignalFence
  <2>2. QED BY <1>1, <2>1 DEF SyncRefs, RunSet
<1>6. QED BY <1>3, <1>4, <1>5

LEMMA NextSyncRefs ==
  ASSUME TypeOK, ListsOK, SyncOK, SyncRefs, [Next]_vars PROVE SyncRefs'
<1>1. /\ sync_ref \in Nat /\ Open \in {0, 1} /\ Adding \in {0, 1}
      /\ Cardinality(callbacks) \in Nat /\ Cardinality(RunSet) \in Nat
      /\ callbacks \in SUBSET Fences /\ RunSet \in SUBSET Signalers
  BY SyncRefTypes, PendingTypes DEF RunSet
<1>2. CASE AddToList
  <2>1. UNCHANGED <<sync, sync_ref, signaling>> /\ arming_by' = "none" /\ arming \in Fences
    BY <1>2 DEF AddToList, TypeOK
  <2>2. CASE arming_by = "sync"
    <3>1. callbacks' = callbacks \cup {arming} /\ arming \notin callbacks
      BY <1>2, <2>2 DEF AddToList, SyncOK
    <3>2. Cardinality(callbacks') = Cardinality(callbacks) + 1
      BY <1>1, <2>1, <3>1, FenceSets
    <3>3. Adding = 1 /\ Adding' = 0
      BY <2>1, <2>2, AddingIs
    <3>4. Open' = Open /\ RunSet' = RunSet
      BY <2>1 DEF Open, RunSet
    <3>5. QED BY <1>1, <2>1, <3>2, <3>3, <3>4 DEF SyncRefs
  <2>3. CASE arming_by # "sync"
    <3>1. callbacks' = callbacks /\ Adding' = Adding
      BY <1>2, <2>1, <2>3, AddingIs DEF AddToList
    <3>2. QED BY <2>1, <3>1 DEF SyncRefs, Open, RunSet
  <2>4. QED BY <2>2, <2>3
<1>3. ASSUME NEW f \in Fences, OtherWaits(f) PROVE SyncRefs'
  <2>1. /\ UNCHANGED <<sync, sync_ref, signaling, callbacks>>
        /\ arming_by' = "other" /\ arming = NoFence
    BY <1>3 DEF OtherWaits, EnableSignaling, syncVars
  <2>2. Adding' = Adding
    BY <2>1, AddingIs DEF SyncOK
  <2>3. QED BY <2>1, <2>2 DEF SyncRefs, Open, RunSet
<1>4. ASSUME NEW f \in Fences, SyncEnables(f) PROVE SyncRefs'
  <2>1. /\ UNCHANGED <<sync, signaling, callbacks>> /\ arming_by' = "sync" /\ arming_by # "sync"
        /\ sync_ref' = sync_ref + 1
    BY <1>4 DEF SyncEnables, EnableSignaling, InLoop
  <2>2. Adding = 0 /\ Adding' = 1 /\ Open' = Open /\ RunSet' = RunSet
    BY <2>1, AddingIs DEF Open, RunSet
  <2>3. QED BY <1>1, <2>1, <2>2 DEF SyncRefs
<1>5. ASSUME NEW f \in Fences, SyncAdds(f) PROVE SyncRefs'
  <2>1. /\ UNCHANGED <<sync, signaling, arming_by>> /\ callbacks' = callbacks \cup {f}
        /\ f \notin callbacks /\ sync_ref' = sync_ref + 1
    BY <1>5 DEF SyncAdds, InLoop, SyncOK, armVars
  <2>2. Cardinality(callbacks') = Cardinality(callbacks) + 1
    BY <1>1, <2>1, FenceSets
  <2>3. Open' = Open /\ Adding' = Adding /\ RunSet' = RunSet
    BY <2>1 DEF Open, Adding, RunSet
  <2>4. QED BY <1>1, <2>1, <2>2, <2>3 DEF SyncRefs
<1>6. ASSUME NEW f \in Fences, SyncSkips(f) PROVE SyncRefs'
  <2>1. /\ UNCHANGED <<signaling, arming_by, callbacks>> /\ sync = "create"
        /\ \/ UNCHANGED <<sync, sync_ref>>
           \/ sync' = "released" /\ sync_ref' = sync_ref - 1
    BY <1>6 DEF SyncSkips, InLoop
  <2>2. /\ sync' = sync => Open' = Open
        /\ sync' = "released" => Open' = Open - 1
    BY <2>1, OpenIs
  <2>3. Adding' = Adding /\ RunSet' = RunSet
    BY <2>1 DEF Adding, RunSet
  <2>4. QED BY <1>1, <2>1, <2>2, <2>3 DEF SyncRefs
<1>7. CASE EventSignal
  <2>1. /\ cur \in Fences /\ SignalFence(cur, "event", {cur}) /\ signaling["event"] = NoFence
        /\ UNCHANGED <<sync, arming_by>>
    BY <1>7 DEF EventSignal, TypeOK, ListsOK, armVars
  <2>2. QED BY <2>1, SignalSyncRefs DEF Signalers
<1>8. ASSUME NEW f \in Fences, Poll(f) PROVE SyncRefs'
  <2>1. /\ SignalFence(f, "poll", {}) /\ UNCHANGED <<sync, arming_by>>
        /\ signaling["poll"] = NoFence
    BY <1>8 DEF Poll, armVars
  <2>2. QED BY <2>1, SignalSyncRefs DEF Signalers
<1>9. ASSUME NEW who \in Signalers, SignalSync(who) PROVE SyncRefs'
  <2>1. /\ signaling[who] # NoFence /\ signaling' = [signaling EXCEPT ![who] = NoFence]
        /\ UNCHANGED <<sync, callbacks, arming_by>> /\ sync_ref' = sync_ref - 1
    BY <1>9 DEF SignalSync, armVars
  <2>2. RunSet' = RunSet \ {who} /\ who \in RunSet
    BY <2>1 DEF RunSet, TypeOK
  <2>3. Cardinality(RunSet') = Cardinality(RunSet) - 1
    BY <1>1, <2>2, RunSets
  <2>4. Open' = Open /\ Adding' = Adding /\ Cardinality(callbacks') = Cardinality(callbacks)
    BY <2>1 DEF Open, Adding
  <2>5. QED BY <1>1, <2>1, <2>3, <2>4 DEF SyncRefs
<1>10. CASE CreateSync
  <2>1. /\ sync = "none" /\ sync' = "create" /\ sync_ref' = 1
        /\ UNCHANGED <<callbacks, arming_by, signaling>>
    BY <1>10 DEF CreateSync, armVars
  <2>2. sync_ref = 0 /\ Open = 0 /\ Open' = 1
    BY <2>1, SyncRefTypes, OpenIs
  <2>3. Adding' = Adding /\ RunSet' = RunSet /\ Cardinality(callbacks') = Cardinality(callbacks)
    BY <2>1 DEF Adding, RunSet
  <2>4. QED BY <1>1, <2>1, <2>2, <2>3 DEF SyncRefs
<1>11. CASE CreateEnd \/ PollSync
  <2>1. Open' = Open /\ UNCHANGED <<callbacks, arming_by, signaling, sync_ref>>
    BY <1>11, OpenIs DEF CreateEnd, PollSync, armVars
  <2>2. QED BY <2>1 DEF SyncRefs, Adding, RunSet
<1>12. CASE ReleaseSync
  <2>1. /\ Open' = Open - 1 /\ UNCHANGED <<callbacks, arming_by, signaling>>
        /\ sync_ref' = sync_ref - 1
    BY <1>12, OpenIs DEF ReleaseSync, armVars
  <2>2. Adding' = Adding /\ RunSet' = RunSet /\ Cardinality(callbacks') = Cardinality(callbacks)
    BY <2>1 DEF Adding, RunSet
  <2>3. QED BY <1>1, <2>1, <2>2 DEF SyncRefs
<1>13. CASE \/ \E f \in Fences : Emit(f) \/ Submit(f) \/ Discard(f) \/ Replace(f)
            \/ \E e \in Engines : \E n \in 1..last_send_fence_id[e] : FenceBack(e, n)
            \/ PostEvent \/ OtherInterrupt \/ EventWake \/ EventScan \/ EventEnd
            \/ UNCHANGED vars
  BY <1>13, SyncRefsFrame
  DEF Emit, Submit, Discard, Replace, FenceBack, PostEvent, OtherInterrupt, EventWake,
      EventScan, EventEnd, vars, armVars, syncVars
<1>14. QED
  BY <1>2, <1>3, <1>4, <1>5, <1>6, <1>7, <1>8, <1>9, <1>10, <1>11, <1>12, <1>13
  DEF Next, SyncLoop, EventThread

-----------------------------------------------------------------------------
(* The references of a fence.                                              *)

TaskRef(f) == Count(render[f] = "emitted")
ResvRef(f) == Count(f \in resv)
ListRef(f) == Count(f \in Listed)
SyncRef(f) == Count(f \in fences /\ sync_ref > 0)

RefOK(f) == refcount[f] = TaskRef(f) + ResvRef(f) + ListRef(f) + SyncRef(f)
RefsOK == \A f \in Fences : RefOK(f)

LEMMA TaskRefs ==
  ASSUME NEW f
  PROVE  /\ TaskRef(f) \in {0, 1} /\ TaskRef(f)' \in {0, 1}
         /\ TaskRef(f) = 1 <=> render[f] = "emitted"
         /\ TaskRef(f)' = 1 <=> render'[f] = "emitted"
  BY DEF TaskRef, Count

LEMMA ResvRefs ==
  ASSUME NEW f
  PROVE  /\ ResvRef(f) \in {0, 1} /\ ResvRef(f)' \in {0, 1}
         /\ ResvRef(f) = 1 <=> f \in resv
         /\ ResvRef(f)' = 1 <=> f \in resv'
  BY DEF ResvRef, Count

LEMMA ListRefs ==
  ASSUME NEW f
  PROVE  /\ ListRef(f) \in {0, 1} /\ ListRef(f)' \in {0, 1}
         /\ ListRef(f) = 1 <=> f \in Listed
         /\ ListRef(f)' = 1 <=> f \in Listed'
  BY DEF ListRef, Count

LEMMA SyncRefsOf ==
  ASSUME NEW f
  PROVE  /\ SyncRef(f) \in {0, 1} /\ SyncRef(f)' \in {0, 1}
         /\ SyncRef(f) = 1 <=> f \in fences /\ sync_ref > 0
         /\ SyncRef(f)' = 1 <=> f \in fences' /\ sync_ref' > 0
  BY DEF SyncRef, Count

\* A reference that nobody takes or gives back.
LEMMA RefStays ==
  ASSUME NEW f
  PROVE  /\ render'[f] = render[f] => TaskRef(f)' = TaskRef(f)
         /\ (f \in resv' <=> f \in resv) => ResvRef(f)' = ResvRef(f)
         /\ (f \in Listed' <=> f \in Listed) => ListRef(f)' = ListRef(f)
         /\ (f \in fences' /\ sync_ref' > 0 <=> f \in fences /\ sync_ref > 0)
              => SyncRef(f)' = SyncRef(f)
  BY TaskRefs, ResvRefs, ListRefs, SyncRefsOf

LEMMA RefsFrame ==
  ASSUME RefsOK, UNCHANGED <<refcount, render, resv, fences>>, Listed' = Listed,
         sync_ref' > 0 <=> sync_ref > 0
  PROVE  RefsOK'
<1> SUFFICES ASSUME NEW f \in Fences PROVE RefOK(f)'
  BY DEF RefsOK
<1>1. /\ TaskRef(f)' = TaskRef(f) /\ ResvRef(f)' = ResvRef(f)
      /\ ListRef(f)' = ListRef(f) /\ SyncRef(f)' = SyncRef(f)
  BY RefStays
<1>2. QED BY <1>1 DEF RefsOK, RefOK

\* One of the four changes, with the count.
RefTypes(f) ==
  /\ refcount[f] \in Int /\ TaskRef(f) \in {0, 1} /\ ResvRef(f) \in {0, 1}
  /\ ListRef(f) \in {0, 1} /\ SyncRef(f) \in {0, 1}

LEMMA RefTypesHold == ASSUME TypeOK, NEW f \in Fences PROVE RefTypes(f)
  BY TaskRefs, ResvRefs, ListRefs, SyncRefsOf DEF RefTypes, TypeOK

LEMMA RenderRefs ==
  ASSUME TypeOK, EmittedOK, RefsOK, NEW g \in Fences,
         Emit(g) \/ Submit(g) \/ Discard(g) \/ Replace(g)
  PROVE  RefsOK'
<1> SUFFICES ASSUME NEW f \in Fences PROVE RefOK(f)'
  BY DEF RefsOK
<1>1. UNCHANGED <<fences, sync_ref>> /\ Listed' = Listed
  BY DEF Emit, Submit, Discard, Replace, syncVars, Listed, listVars, threadVars
<1>2. ListRef(f)' = ListRef(f) /\ SyncRef(f)' = SyncRef(f)
  BY <1>1, RefStays
<1>3. RefTypes(f) /\ RefOK(f)
  BY RefTypesHold DEF RefsOK
<1>4. CASE f # g
  <2>1. render'[f] = render[f] /\ (f \in resv' <=> f \in resv) /\ refcount'[f] = refcount[f]
    BY <1>4, PutIs DEF Emit, Submit, Discard, Replace, renderVars, TypeOK
  <2>2. TaskRef(f)' = TaskRef(f) /\ ResvRef(f)' = ResvRef(f)
    BY <2>1, RefStays
  <2>3. QED BY <1>2, <1>3, <2>1, <2>2 DEF RefOK
<1>5. CASE f = g /\ Emit(g)
  <2>1. render[f] = "none" /\ render'[f] = "emitted" /\ f \in resv' /\ refcount'[f] = 2
    BY <1>5 DEF Emit, TypeOK
  <2>2. f \notin resv \cup Listed \cup fences
    BY <2>1 DEF EmittedOK
  <2>3. ListRef(f) = 0 /\ SyncRef(f) = 0
    BY <2>2, ListRefs, SyncRefsOf
  <2>4. TaskRef(f)' = 1 /\ ResvRef(f)' = 1
    BY <2>1, TaskRefs, ResvRefs
  <2>5. QED BY <1>2, <2>1, <2>3, <2>4 DEF RefOK
<1>6. CASE f = g /\ (Submit(g) \/ Discard(g))
  <2>1. /\ render[f] = "emitted" /\ render'[f] # "emitted" /\ resv' = resv
        /\ refcount'[f] = refcount[f] - 1
    BY <1>6, PutIs DEF Submit, Discard, TypeOK
  <2>2. TaskRef(f) = 1 /\ TaskRef(f)' = 0 /\ ResvRef(f)' = ResvRef(f)
    BY <2>1, TaskRefs, RefStays
  <2>3. QED BY <1>2, <1>3, <2>1, <2>2 DEF RefOK, RefTypes
<1>7. CASE f = g /\ Replace(g)
  <2>1. /\ render'[f] = render[f] /\ f \in resv /\ f \notin resv'
        /\ refcount'[f] = refcount[f] - 1
    BY <1>7, PutIs DEF Replace, TypeOK, renderVars
  <2>2. ResvRef(f) = 1 /\ ResvRef(f)' = 0 /\ TaskRef(f)' = TaskRef(f)
    BY <2>1, ResvRefs, RefStays
  <2>3. QED BY <1>2, <1>3, <2>1, <2>2 DEF RefOK, RefTypes
<1>8. QED BY <1>4, <1>5, <1>6, <1>7

\* The list's reference, given back by the event thread.
LEMMA ListPut ==
  ASSUME TypeOK, RefsOK, NEW fs, fs \subseteq Listed, Put(fs), Listed' = Listed \ fs,
         UNCHANGED <<render, resv, fences, sync_ref>>
  PROVE  RefsOK'
<1> SUFFICES ASSUME NEW f \in Fences PROVE RefOK(f)'
  BY DEF RefsOK
<1>1. /\ TaskRef(f)' = TaskRef(f) /\ ResvRef(f)' = ResvRef(f) /\ SyncRef(f)' = SyncRef(f)
  BY RefStays
<1>2. RefTypes(f) /\ RefOK(f)
  BY RefTypesHold DEF RefsOK
<1>3. CASE f \in fs
  <2>1. refcount'[f] = refcount[f] - 1 /\ ListRef(f) = 1 /\ ListRef(f)' = 0
    BY <1>3, PutIs, ListRefs DEF TypeOK
  <2>2. QED BY <1>1, <1>2, <2>1 DEF RefOK, RefTypes
<1>4. CASE f \notin fs
  <2>1. refcount'[f] = refcount[f] /\ ListRef(f)' = ListRef(f)
    BY <1>4, PutIs, RefStays DEF TypeOK
  <2>2. QED BY <1>1, <1>2, <2>1 DEF RefOK, RefTypes
<1>5. QED BY <1>3, <1>4

\* A reference of the sync object, the last of which gives back those of its fences.
LEMMA SyncPut ==
  ASSUME TypeOK, RefsOK, sync_ref \in Nat \ {0}, NEW fs, fs \subseteq Listed, PutSync(fs),
         sync_ref' = sync_ref - 1, Listed' = Listed \ fs, UNCHANGED <<render, resv, fences>>
  PROVE  RefsOK'
<1> SUFFICES ASSUME NEW f \in Fences PROVE RefOK(f)'
  BY DEF RefsOK
<1>1. TaskRef(f)' = TaskRef(f) /\ ResvRef(f)' = ResvRef(f)
  BY RefStays
<1>2. RefTypes(f) /\ RefOK(f)
  BY RefTypesHold DEF RefsOK
<1>3. /\ f \in Given => SyncRef(f) = 1 /\ SyncRef(f)' = 0
      /\ f \notin Given => SyncRef(f)' = SyncRef(f)
  <2>1. CASE f \in Given
    <3>1. f \in fences /\ sync_ref = 1 /\ sync_ref' = 0
      BY <2>1 DEF Given
    <3>2. QED BY <2>1, <3>1, SyncRefsOf
  <2>2. CASE f \notin Given
    <3>1. f \notin fences \/ sync_ref # 1
      BY <2>2 DEF Given
    <3>2. (f \in fences' /\ sync_ref' > 0) <=> (f \in fences /\ sync_ref > 0)
      BY <3>1
    <3>3. QED BY <2>2, <3>2, RefStays
  <2>3. QED BY <2>1, <2>2
<1>4. /\ f \in fs => ListRef(f) = 1 /\ ListRef(f)' = 0
      /\ f \notin fs => ListRef(f)' = ListRef(f)
  BY ListRefs, RefStays
<1>5. refcount \in [Fences -> Int]
  BY DEF TypeOK
<1>6. CASE f \in fs /\ f \in Given
  <2>1. refcount'[f] = refcount[f] - 2
    BY <1>5, <1>6, PutSyncIs
  <2>2. QED BY <1>1, <1>2, <1>3, <1>4, <1>6, <2>1 DEF RefOK, RefTypes
<1>7. CASE f \in fs /\ f \notin Given
  <2>1. refcount'[f] = refcount[f] - 1
    BY <1>5, <1>7, PutSyncIs
  <2>2. QED BY <1>1, <1>2, <1>3, <1>4, <1>7, <2>1 DEF RefOK, RefTypes
<1>8. CASE f \notin fs /\ f \in Given
  <2>1. refcount'[f] = refcount[f] - 1
    BY <1>5, <1>8, PutSyncIs
  <2>2. QED BY <1>1, <1>2, <1>3, <1>4, <1>8, <2>1 DEF RefOK, RefTypes
<1>9. CASE f \notin fs /\ f \notin Given
  <2>1. refcount'[f] = refcount[f]
    BY <1>5, <1>9, PutSyncIs
  <2>2. QED BY <1>1, <1>2, <1>3, <1>4, <1>9, <2>1 DEF RefOK, RefTypes
<1>10. QED BY <1>6, <1>7, <1>8, <1>9

LEMMA AddRefs ==
  ASSUME TypeOK, ListsOK, RefsOK, AddToList PROVE RefsOK'
<1> SUFFICES ASSUME NEW f \in Fences PROVE RefOK(f)'
  BY DEF RefsOK
<1>1. /\ Get({arming}) /\ Listed' = Listed \cup {arming} /\ arming \notin Listed
      /\ UNCHANGED <<render, resv, fences, sync_ref>> /\ refcount \in [Fences -> Int]
  BY AddLists DEF AddToList, ListReference, renderVars, TypeOK
<1>2. TaskRef(f)' = TaskRef(f) /\ ResvRef(f)' = ResvRef(f) /\ SyncRef(f)' = SyncRef(f)
  BY <1>1, RefStays
<1>3. RefTypes(f) /\ RefOK(f)
  BY RefTypesHold DEF RefsOK
<1>4. CASE f = arming
  <2>1. refcount'[f] = refcount[f] + 1 /\ ListRef(f) = 0 /\ ListRef(f)' = 1
    BY <1>1, <1>4, GetIs, ListRefs
  <2>2. QED BY <1>2, <1>3, <2>1 DEF RefOK, RefTypes
<1>5. CASE f # arming
  <2>1. refcount'[f] = refcount[f] /\ ListRef(f)' = ListRef(f)
    BY <1>1, <1>5, GetIs, RefStays
  <2>2. QED BY <1>2, <1>3, <2>1 DEF RefOK, RefTypes
<1>6. QED BY <1>4, <1>5

LEMMA CreateRefs ==
  ASSUME TypeOK, SyncOK, RefsOK, CreateSync PROVE RefsOK'
<1> SUFFICES ASSUME NEW f \in Fences PROVE RefOK(f)'
  BY DEF RefsOK
<1>1. /\ Get(fences') /\ fences = {} /\ sync_ref' = 1
      /\ UNCHANGED <<render, resv>> /\ Listed' = Listed /\ refcount \in [Fences -> Int]
  BY DEF CreateSync, SyncOK, renderVars, listVars, threadVars, Listed, TypeOK
<1>2. TaskRef(f)' = TaskRef(f) /\ ResvRef(f)' = ResvRef(f) /\ ListRef(f)' = ListRef(f)
  BY <1>1, RefStays
<1>3. RefTypes(f) /\ RefOK(f) /\ SyncRef(f) = 0
  BY <1>1, RefTypesHold, SyncRefsOf DEF RefsOK
<1>4. CASE f \in fences'
  <2>1. refcount'[f] = refcount[f] + 1 /\ SyncRef(f)' = 1
    BY <1>1, <1>4, GetIs, SyncRefsOf
  <2>2. QED BY <1>2, <1>3, <2>1 DEF RefOK, RefTypes
<1>5. CASE f \notin fences'
  <2>1. refcount'[f] = refcount[f] /\ SyncRef(f)' = 0
    BY <1>1, <1>5, GetIs, SyncRefsOf
  <2>2. QED BY <1>2, <1>3, <2>1 DEF RefOK, RefTypes
<1>6. QED BY <1>4, <1>5

\* A signaler counts a fence of the sync object: it holds one of its references.
LEMMA SignalRefs ==
  ASSUME TypeOK, SyncOK, SyncRefs, RefsOK, NEW f, NEW who \in Signalers,
         NEW put, put \subseteq Listed,
         SignalFence(f, who, put), UNCHANGED <<render, resv, fences>>,
         signaling' = signaling => Listed' = Listed \ put,
         signaling' # signaling => Listed' = Listed,
         signaling[who] # f
  PROVE  RefsOK'
<1>1. CASE f \in callbacks /\ num_pending = 1
  <2>1. UNCHANGED <<refcount, sync_ref>> /\ signaling' = [signaling EXCEPT ![who] = f]
    BY <1>1 DEF SignalFence
  <2>2. signaling'[who] = f
    BY <2>1 DEF TypeOK
  <2>3. Listed' = Listed
    BY <2>2
  <2>4. QED BY <2>1, <2>3, RefsFrame
<1>2. CASE f \in callbacks /\ num_pending # 1
  <2>1. PutSync(put) /\ sync_ref' = sync_ref - 1 /\ UNCHANGED signaling
    BY <1>2 DEF SignalFence
  <2>2. sync_ref \in Nat \ {0}
    BY <1>2, SyncRefTypes
  <2>3. QED BY <2>1, <2>2, SyncPut
<1>3. CASE f \notin callbacks
  <2>1. Put(put) /\ UNCHANGED <<sync_ref, signaling>>
    BY <1>3 DEF SignalFence
  <2>2. QED BY <2>1, ListPut
<1>4. QED BY <1>1, <1>2, <1>3

LEMMA NextRefs ==
  ASSUME TypeOK, ListsOK, EmittedOK, SyncOK, SyncRefs, RefsOK, [Next]_vars PROVE RefsOK'
<1>1. ASSUME NEW g \in Fences, Emit(g) \/ Submit(g) \/ Discard(g) \/ Replace(g)
      PROVE  RefsOK'
  BY <1>1, RenderRefs
<1>2. ASSUME NEW f \in Fences, OtherWaits(f) PROVE RefsOK'
  <2>1. UNCHANGED <<refcount, render, resv, fences, sync_ref>> /\ Listed' = Listed
    BY <1>2 DEF OtherWaits, renderVars, syncVars, Listed, listVars, threadVars
  <2>2. QED BY <2>1, RefsFrame
<1>3. ASSUME NEW f \in Fences, SyncEnables(f) \/ SyncAdds(f) PROVE RefsOK'
  <2>1. /\ UNCHANGED <<refcount, render, resv, fences>> /\ Listed' = Listed
        /\ sync_ref' = sync_ref + 1 /\ sync = "create"
    BY <1>3 DEF SyncEnables, SyncAdds, InLoop, renderVars, Listed, listVars, threadVars
  <2>2. sync_ref' > 0 /\ sync_ref > 0
    BY <2>1, SyncRefTypes
  <2>3. QED BY <2>1, <2>2, RefsFrame
<1>4. ASSUME NEW f \in Fences, SyncSkips(f) PROVE RefsOK'
  <2>1. UNCHANGED <<render, resv, fences>> /\ Listed' = Listed /\ sync = "create"
    BY <1>4 DEF SyncSkips, InLoop, renderVars, Listed, listVars, threadVars
  <2>2. sync_ref \in Nat \ {0}
    BY <2>1, SyncRefTypes
  <2>3. CASE PutSync({}) /\ sync_ref' = sync_ref - 1
    BY <2>1, <2>2, <2>3, SyncPut
  <2>4. CASE UNCHANGED <<refcount, sync_ref>>
    BY <2>1, <2>4, RefsFrame
  <2>5. QED BY <1>4, <2>3, <2>4 DEF SyncSkips
<1>5. CASE ReleaseSync
  <2>1. /\ UNCHANGED <<render, resv, fences>> /\ Listed' = Listed /\ sync = "live"
        /\ PutSync({}) /\ sync_ref' = sync_ref - 1
    BY <1>5 DEF ReleaseSync, renderVars, Listed, listVars, threadVars
  <2>2. sync_ref \in Nat \ {0}
    BY <2>1, SyncRefTypes
  <2>3. QED BY <2>1, <2>2, SyncPut
<1>6. CASE EventSignal
  <2>1. /\ cur \in Fences /\ cur # NoFence /\ SignalFence(cur, "event", {cur})
        /\ UNCHANGED <<render, resv, fences, listVars, process_list, kept>>
        /\ signaling["event"] = NoFence /\ "event" \in Signalers
    BY <1>6 DEF EventSignal, TypeOK, ListsOK, renderVars, Signalers
  <2>2. /\ {cur} \subseteq Listed
        /\ cur' = cur => Listed' = Listed
        /\ cur' = NoFence => Listed' = Listed \ {cur}
    <3>1. {cur} \subseteq Listed /\ (cur' = cur => Listed' = Listed)
      BY <2>1 DEF Listed, listVars
    <3>2. cur' = NoFence => Listed' = Listed \ {cur}
      BY <1>6, <2>1, <3>1, SignalLists
    <3>3. QED BY <3>1, <3>2
  <2>3. \/ signaling'["event"] = NoFence /\ cur' = NoFence
        \/ signaling'["event"] # NoFence /\ cur' = cur
    BY <1>6 DEF EventSignal
  <2>4. signaling' = [signaling EXCEPT !["event"] = cur] \/ UNCHANGED signaling
    BY <1>6, <2>1, SignalFenceIs DEF TypeOK
  <2>5. /\ signaling' = signaling => Listed' = Listed \ {cur}
        /\ signaling' # signaling => Listed' = Listed
    <3>1. signaling' = signaling => cur' = NoFence
      BY <2>1, <2>3
    <3>2. signaling' # signaling => cur' = cur
      BY <2>1, <2>3, <2>4 DEF TypeOK
    <3>3. QED BY <2>2, <3>1, <3>2
  <2>6. signaling["event"] # cur
    BY <2>1
  <2>7. QED BY <2>1, <2>2, <2>5, <2>6, SignalRefs
<1>7. ASSUME NEW f \in Fences, Poll(f) PROVE RefsOK'
  <2>1. /\ SignalFence(f, "poll", {}) /\ UNCHANGED <<render, resv, fences>>
        /\ signaling["poll"] = NoFence /\ Listed' = Listed /\ "poll" \in Signalers
    BY <1>7 DEF Poll, renderVars, Listed, listVars, threadVars, Signalers
  <2>2. signaling["poll"] # f /\ {} \subseteq Listed /\ Listed = Listed \ {}
    BY <2>1, FenceAssumption
  <2>3. /\ signaling' = signaling => Listed' = Listed \ {}
        /\ signaling' # signaling => Listed' = Listed
    BY <2>1, <2>2
  <2>4. QED BY <2>1, <2>2, <2>3, SignalRefs
<1>8. ASSUME NEW who \in Signalers, SignalSync(who) PROVE RefsOK'
  <2>1. /\ UNCHANGED <<render, resv, fences, listVars, process_list, kept>>
        /\ signaling[who] # NoFence /\ sync_ref' = sync_ref - 1
    BY <1>8 DEF SignalSync, renderVars
  <2>2. sync_ref \in Nat \ {0}
    <3>1. RunSet # {}
      BY <2>1 DEF RunSet
    <3>2. QED BY <3>1, SyncRefTypes
  <2>3. CASE who = "event"
    <3>1. /\ PutSync({cur}) /\ cur' = NoFence /\ cur # NoFence
      BY <1>8, <2>1, <2>3 DEF SignalSync, ListsOK
    <3>2. {cur} \subseteq Listed /\ Listed' = Listed \ {cur}
      BY <1>8, <3>1, SignalLists
    <3>3. QED BY <2>1, <2>2, <3>1, <3>2, SyncPut
  <2>4. CASE who # "event"
    <3>1. PutSync({}) /\ UNCHANGED cur
      BY <1>8, <2>4 DEF SignalSync
    <3>2. {} \subseteq Listed /\ Listed' = Listed \ {}
      BY <2>1, <3>1 DEF Listed, listVars
    <3>3. QED BY <2>1, <2>2, <3>1, <3>2, SyncPut
  <2>5. QED BY <2>3, <2>4
<1>9. CASE EventWake \/ EventScan \/ EventEnd
  <2>1. /\ UNCHANGED <<refcount, render, resv, fences, sync_ref>>
        /\ Listed' = Listed
    BY <1>9, ThreadLists, ScanLists
    DEF EventWake, EventScan, EventEnd, renderVars, syncVars
  <2>2. QED BY <2>1, RefsFrame
<1>10. CASE \/ \E e \in Engines : \E n \in 1..last_send_fence_id[e] : FenceBack(e, n)
            \/ PostEvent \/ OtherInterrupt \/ CreateEnd \/ PollSync \/ UNCHANGED vars
  <2>1. UNCHANGED <<refcount, render, resv, fences, sync_ref>> /\ Listed' = Listed
    BY <1>10
    DEF FenceBack, PostEvent, OtherInterrupt, CreateEnd, PollSync, vars, renderVars, syncVars,
        Listed, listVars, threadVars
  <2>2. QED BY <2>1, RefsFrame
<1>11. QED
  BY <1>1, <1>2, <1>3, <1>4, <1>5, <1>6, <1>7, <1>8, <1>9, <1>10, AddRefs, CreateRefs
  DEF Next, SyncLoop, EventThread

-----------------------------------------------------------------------------
(* fence_count.                                                            *)

ListLengths == fence_count = Len(fence_list) + Len(process_list) + Len(kept)

LEMMA NextCount == ASSUME TypeOK, ListsOK, ListLengths, [Next]_vars PROVE ListLengths'
<1>1. /\ fence_list \in Seq(Fences) /\ process_list \in Seq(Fences) /\ kept \in Seq(Fences)
      /\ Len(fence_list) \in Nat /\ Len(process_list) \in Nat /\ Len(kept) \in Nat
      /\ Len(<<>>) = 0
  BY DEF TypeOK
<1>2. CASE AddToList
  <2>1. /\ arming \in Fences /\ fence_list' = Append(fence_list, arming)
        /\ fence_count' = fence_count + 1 /\ UNCHANGED threadVars
    BY <1>2 DEF AddToList, TypeOK
  <2>2. Len(fence_list') = Len(fence_list) + 1
    BY <1>1, <2>1, AppendList
  <2>3. QED BY <1>1, <2>1, <2>2 DEF ListLengths, threadVars
<1>3. CASE EventWake
  <2>1. /\ process_list = <<>> /\ process_list' = fence_list /\ fence_list' = <<>>
        /\ UNCHANGED <<fence_count, kept>>
    BY <1>3 DEF EventWake, ListsOK
  <2>2. QED BY <1>1, <2>1 DEF ListLengths
<1>4. CASE EventScan
  <2>1. /\ process_list # <<>> /\ process_list' = Tail(process_list) /\ UNCHANGED fence_list
        /\ \/ fence_count' = fence_count - 1 /\ UNCHANGED kept
           \/ UNCHANGED fence_count /\ kept' = Append(kept, Head(process_list))
    BY <1>4 DEF EventScan
  <2>2. Len(process_list') = Len(process_list) - 1 /\ Head(process_list) \in Fences
    BY <1>1, <2>1, TailList
  <2>3. Len(Append(kept, Head(process_list))) = Len(kept) + 1
    BY <1>1, <2>2, AppendList
  <2>4. CASE fence_count' = fence_count - 1 /\ UNCHANGED kept
    BY <1>1, <2>1, <2>2, <2>4 DEF ListLengths
  <2>5. CASE UNCHANGED fence_count /\ kept' = Append(kept, Head(process_list))
    BY <1>1, <2>1, <2>2, <2>3, <2>5 DEF ListLengths
  <2>6. QED BY <2>1, <2>4, <2>5
<1>5. CASE EventEnd
  <2>1. /\ fence_list' = kept \o fence_list /\ kept' = <<>>
        /\ UNCHANGED <<fence_count, process_list>>
    BY <1>5 DEF EventEnd
  <2>2. Len(fence_list') = Len(kept) + Len(fence_list)
    BY <1>1, <2>1, JoinList
  <2>3. QED BY <1>1, <2>1, <2>2 DEF ListLengths
<1>6. CASE \/ ListQuiet \/ EventSignal
           \/ \E f \in Fences : OtherWaits(f) \/ SyncEnables(f) \/ Poll(f)
           \/ \E who \in Signalers : SignalSync(who)
  <2>1. UNCHANGED <<listVars, process_list, kept>>
    BY <1>6, QuietIs
    DEF EventSignal, OtherWaits, SyncEnables, Poll, SignalSync, threadVars
  <2>2. QED BY <2>1 DEF ListLengths, listVars
<1>7. QED BY <1>2, <1>3, <1>4, <1>5, <1>6, NextCases

LEMMA RefsAccountIs == RefsAccount <=> RefsOK /\ SyncRefs /\ ListLengths
  BY DEF RefsAccount, RefsOK, RefOK, TaskRef, ResvRef, ListRef, SyncRef, SyncRefs, Open, Adding,
         RunSet, ListLengths

-----------------------------------------------------------------------------
(* The invariant.                                                          *)

LEMMA InitFences == Init => FencesInv
<1> SUFFICES ASSUME Init PROVE FencesInv
  OBVIOUS
<1>1. TypeOK
  BY DEF Init, TypeOK
<1>2. Range(<<>>) = {} /\ IsInjective(<<>>)
  BY DEF Range, IsInjective
<1>3. Listed = {}
  BY <1>2 DEF Init, Listed
<1>4. ListsOK
  BY <1>2, <1>3, FenceAssumption DEF Init, ListsOK, Signalers
<1>5. EmittedOK
  BY <1>3 DEF Init, EmittedOK
<1>6. Cardinality({}) = 0
  BY FS_EmptySet
<1>7. SyncOK
  BY <1>6 DEF Init, SyncOK
<1>8. IdsOK
  <2>1. \A e \in Engines : SentSet(e) = {}
    BY DEF Init, SentSet
  <2>2. SentOK
    <3>1. \A e \in Engines : returned_fence_id[e] = 0 /\ last_send_fence_id[e] = 0
      BY DEF Init
    <3>2. \A f \in Fences : render[f] # "emitted"
      BY DEF Init
    <3>3. QED BY <1>6, <2>1, <3>1, <3>2 DEF SentOK
  <2>3. QED BY <2>2 DEF Init, IdsOK
<1>9. SignaledIsFinished
  BY DEF Init, SignaledIsFinished
<1>10. RefsOK
  <2> SUFFICES ASSUME NEW f \in Fences PROVE RefOK(f)
    BY DEF RefsOK
  <2>1. TaskRef(f) = 0 /\ ResvRef(f) = 0 /\ ListRef(f) = 0 /\ SyncRef(f) = 0
    BY <1>3, TaskRefs, ResvRefs, ListRefs, SyncRefsOf DEF Init
  <2>2. QED BY <2>1 DEF Init, RefOK
<1>11. SyncRefs
  <2>1. Open = 0 /\ Adding = 0 /\ RunSet = {} /\ callbacks = {} /\ sync_ref = 0
    BY OpenIs, AddingIs DEF Init, RunSet
  <2>2. QED BY <1>6, <2>1 DEF SyncRefs
<1>12. ListLengths
  BY DEF Init, ListLengths
<1>13. QED
  BY <1>1, <1>4, <1>5, <1>7, <1>8, <1>9, <1>10, <1>11, <1>12, RefsAccountIs DEF FencesInv

LEMMA NextFences == FencesInv /\ [Next]_vars => FencesInv'
<1> SUFFICES ASSUME TypeOK, ListsOK, EmittedOK, SyncOK, IdsOK, SignaledIsFinished,
                    RefsOK, SyncRefs, ListLengths, [Next]_vars
             PROVE  FencesInv'
  BY RefsAccountIs DEF FencesInv
<1>1. TypeOK' /\ ListsOK' /\ EmittedOK' /\ SyncOK' /\ IdsOK' /\ SignaledIsFinished'
  BY NextTypes, NextLists, NextEmitted, NextSync, NextIds, NextSignaled
<1>2. RefsOK' /\ SyncRefs' /\ ListLengths'
  BY NextRefs, NextSyncRefs, NextCount
<1>3. RefsAccount'
  BY <1>2, RefsAccountIs, PTL
<1>4. QED BY <1>1, <1>3 DEF FencesInv

LEMMA FencesInvariant == Spec => []FencesInv
  BY InitFences, NextFences, PTL DEF Spec

\* A fence, and a DMA sync object, is only signaled when the renders behind it are over.
THEOREM SignaledFinished == Spec => []SignaledIsFinished
<1>1. FencesInv => SignaledIsFinished
  BY DEF FencesInv
<1>2. QED BY <1>1, FencesInvariant, PTL

\* The reference counts of the fences and of the DMA sync object, and fence_count, are
\* what is on the lists, attached and armed: nothing that is in use is freed.
THEOREM FenceRefsBalanced == Spec => []RefsAccount
<1>1. FencesInv => RefsAccount
  BY DEF FencesInv
<1>2. QED BY <1>1, FencesInvariant, PTL
=============================================================================
