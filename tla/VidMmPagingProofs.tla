------------------------- MODULE VidMmPagingProofs -------------------------
(***************************************************************************)
(* For any allocations, places, tasks, clients and engines, on every path  *)
(* of paging, of its failures and of destruction:                          *)
(*   1. a place of video memory is free or belongs to one allocation;      *)
(*   2. render_count and submit_ref_cnt are the numbers of their users;    *)
(*   3. what is needed is not destroyed, from 2;                           *)
(*   4. what the GPU was given stays at its place, from 1, 2 and 3;        *)
(*   5. what is pinned stays in video memory, from 3 and FewPins;          *)
(*   6. what one engine uses alone is paged in before use, from 1 to 4.    *)
(***************************************************************************)
EXTENDS VidMmPaging, FiniteSetTheorems, WellFoundedInduction, TLAPS

-----------------------------------------------------------------------------
(* Places.                                                                 *)

placeVars == <<life, seg, free, coming, leaving, todo, pager, pg, allocs, client>>

\* Nothing has a place yet.
LEMMA InitPlaces == Init => PlacesInv
<1> SUFFICES ASSUME Init PROVE PlacesInv
  OBVIOUS
<1> USE PagingAssumption DEF Init, Nowhere
<1>1. PlacesTypeOK
  BY DEF PlacesTypeOK
<1>2. OneOwner
  BY DEF OneOwner, At
<1>3. OnlyPaged
  BY DEF OnlyPaged
<1>4. Created
  BY DEF Created
<1>5. QED BY <1>1, <1>2, <1>3, <1>4 DEF PlacesInv

\* A step that leaves all of this alone.
LEMMA FramePlaces == ASSUME PlacesInv, UNCHANGED placeVars PROVE PlacesInv'
<1> USE DEF PlacesInv, placeVars
<1>1. PlacesTypeOK'
  BY DEF PlacesTypeOK
<1>2. OneOwner'
  BY DEF OneOwner, At
<1>3. OnlyPaged'
  BY DEF OnlyPaged, Nowhere
<1>4. Created'
  BY DEF Created
<1>5. QED BY <1>1, <1>2, <1>3, <1>4

\* An allocation is created: it takes a free place, or none.
LEMMA CreatePlaces ==
  ASSUME PlacesInv, NEW a \in Allocs, CreateAllocation(a) PROVE PlacesInv'
<1> USE DEF PlacesInv
<1>1. /\ life[a] = "none" /\ life' = [life EXCEPT ![a] = "live"]
      /\ UNCHANGED <<coming, leaving, todo, pager, pg, allocs, client>>
      /\ seg[a] = NoPlace /\ coming[a] = NoPlace /\ leaving[a] = NoPlace
  BY DEF CreateAllocation, taskVars, pagerVars, clientVars, Created
<1>2. a \notin todo
  BY <1>1 DEF Created
<1>3. Created'
  <2>1. /\ \A b \in Allocs : life'[b] # "none" <=> (life[b] # "none" \/ b = a)
        /\ \A b \in Allocs : life'[b] = "none" => seg'[b] = seg[b]
    BY <1>1 DEF CreateAllocation, PlacesTypeOK
  <2>2. QED BY <1>1, <2>1, PagingAssumption DEF Created, PlacesTypeOK
<1>4. CASE UNCHANGED <<seg, free>>
  <2>1. PlacesTypeOK'
    BY <1>1, <1>4 DEF PlacesTypeOK
  <2>2. OneOwner' /\ OnlyPaged'
    BY <1>1, <1>4 DEF OneOwner, OnlyPaged, At, Nowhere
  <2>3. QED BY <1>3, <2>1, <2>2
<1>5. ASSUME NEW p \in free, seg' = [seg EXCEPT ![a] = p], free' = free \ {p}
      PROVE  PlacesInv'
  <2>1. PlacesTypeOK'
    BY <1>1, <1>5 DEF PlacesTypeOK
  <2>2. p \in Places /\ p # NoPlace /\ \A b \in Allocs : ~At(b, p)
    BY PagingAssumption DEF PlacesTypeOK, OneOwner
  <2>3. /\ seg'[a] = p /\ \A b \in Allocs : b # a => seg'[b] = seg[b]
    BY <1>5 DEF PlacesTypeOK
  <2>4. OneOwner'
    BY <1>1, <1>5, <2>2, <2>3, PagingAssumption DEF OneOwner, At
  <2>5. OnlyPaged'
    BY <1>1, <1>2, <2>3 DEF OnlyPaged, Nowhere, PlacesTypeOK
  <2>6. QED BY <1>3, <2>1, <2>4, <2>5
<1>6. QED BY <1>4, <1>5 DEF CreateAllocation

\* An allocation is destroyed and its place becomes free.
LEMMA DestroyPlaces ==
  ASSUME PlacesInv, NEW a \in Allocs, DestroyAllocation(a) PROVE PlacesInv'
<1> USE DEF PlacesInv
<1>1. /\ life' = [life EXCEPT ![a] = "gone"] /\ seg' = [seg EXCEPT ![a] = NoPlace]
      /\ free' = free \cup ({seg[a]} \ {NoPlace})
      /\ UNCHANGED <<coming, leaving, todo, pager, pg, allocs, client>>
  BY DEF DestroyAllocation, ReleasedPlace, taskVars, pagerVars, clientVars
<1>2. /\ seg'[a] = NoPlace /\ \A b \in Allocs : b # a => seg'[b] = seg[b]
      /\ life'[a] = "gone" /\ \A b \in Allocs : b # a => life'[b] = life[b]
  BY <1>1 DEF PlacesTypeOK
<1>3. PlacesTypeOK'
  BY <1>1, <1>2 DEF PlacesTypeOK
<1>4. OneOwner'
  <2>1. ASSUME NEW p \in Places, NEW b \in Allocs, NEW c \in Allocs, At(b, p)', At(c, p)'
        PROVE  b = c
    BY <1>1, <1>2, <2>1, PagingAssumption DEF OneOwner, At
  <2>2. ASSUME NEW p \in Places
        PROVE  p \in free' <=> \A b \in Allocs : ~At(b, p)'
    <3>1. CASE p = seg[a]
      BY <1>1, <1>2, <2>2, <3>1, PagingAssumption DEF OneOwner, At
    <3>2. CASE p # seg[a]
      BY <1>1, <1>2, <2>2, <3>2, PagingAssumption DEF OneOwner, At
    <3>3. QED BY <3>1, <3>2
  <2>3. \A b \in Allocs :
          /\ seg'[b] # NoPlace => coming'[b] = NoPlace /\ leaving'[b] = NoPlace
          /\ coming'[b] # NoPlace => leaving'[b] = NoPlace
    BY <1>1, <1>2 DEF OneOwner
  <2>4. QED BY <2>1, <2>2, <2>3 DEF OneOwner
<1>5. OnlyPaged'
  BY <1>1, <1>2 DEF OnlyPaged, Nowhere, PlacesTypeOK
<1>6. Created'
  BY <1>1, <1>2, PagingAssumption DEF Created, PlacesTypeOK
<1>7. QED BY <1>3, <1>4, <1>5, <1>6

\* Steps that only change who uses the allocations, or the state of the holder
\* of paging_lock between two moves.
LEMMA UsePlaces ==
  ASSUME PlacesInv, UNCHANGED <<seg, free, coming, leaving>>,
         PlacesTypeOK', OnlyPaged',
         \A a \in Allocs : life'[a] = "none" <=> life[a] = "none",
         \A t \in Tasks : \A a \in allocs'[t] : life[a] # "none",
         \A c \in Clients : client'[c] # "idle" => life[PinOf[c]] # "none",
         pager' \in Clients => client'[pager'] # "idle",
         \A a \in todo' : life[a] # "none"
  PROVE  PlacesInv'
<1> USE DEF PlacesInv
<1>1. OneOwner'
  BY DEF OneOwner, At
<1>2. Created'
  BY PagingAssumption DEF Created, PlacesTypeOK
<1>3. QED BY <1>1, <1>2

LEMMA LifePlaces ==
  ASSUME PlacesInv, NEW a \in Allocs, Unreference(a) \/ DestroyDefer(a)
  PROVE  PlacesInv'
<1> USE DEF PlacesInv
<1>1. /\ life[a] # "none"
      /\ \E s \in {"freeing", "deferred"} : life' = [life EXCEPT ![a] = s]
      /\ UNCHANGED <<seg, free, coming, leaving, todo, pager, pg, allocs, client>>
  BY DEF Unreference, DestroyDefer, taskVars, pagerVars, clientVars
<1>2. PlacesTypeOK' /\ OnlyPaged'
  BY <1>1 DEF PlacesTypeOK, OnlyPaged, Nowhere
<1>3. \A b \in Allocs : life'[b] = "none" <=> life[b] = "none"
  BY <1>1 DEF PlacesTypeOK
<1>4. QED BY <1>1, <1>2, <1>3, UsePlaces DEF Created

LEMMA TaskPlaces ==
  ASSUME PlacesInv, NEW t \in Tasks,
         WorkerStep(t) \/ \E S \in SUBSET Allocs : Render(t, S)
  PROVE  PlacesInv'
<1> USE DEF PlacesInv
<1>1. CASE Mark(t) \/ SubmitDma(t) \/ KickOff(t) \/ FakeSubmit(t)
  BY <1>1, FramePlaces
  DEF Mark, SubmitDma, KickOff, FakeSubmit, placeVars, allocVars, pagerVars, clientVars
<1>2. CASE LockPaging(t)
  <2>1. /\ pager = Nobody /\ pager' = t /\ pg' = "in"
        /\ todo' = {a \in allocs[t] : seg[a] = NoPlace}
        /\ UNCHANGED <<life, seg, free, coming, leaving, allocs, client>>
    BY <1>2 DEF LockPaging, allocVars, clientVars
  <2>2. PlacesTypeOK'
    BY <2>1 DEF PlacesTypeOK
  <2>3. coming = Nowhere /\ leaving = Nowhere
    BY <2>1 DEF OnlyPaged
  <2>4. OnlyPaged'
    BY <2>1, <2>3, PagingAssumption DEF OnlyPaged, Nowhere, PlacesTypeOK
  <2>5. QED BY <2>1, <2>2, <2>4, UsePlaces, PagingAssumption DEF Created
<1>3. ASSUME NEW S \in SUBSET Allocs, Render(t, S) PROVE PlacesInv'
  <2>1. /\ \A a \in S : life[a] = "live" /\ allocs' = [allocs EXCEPT ![t] = S]
        /\ UNCHANGED <<life, seg, free, coming, leaving, todo, pager, pg, client>>
    BY <1>3 DEF Render, allocVars, pagerVars, clientVars
  <2>2. PlacesTypeOK' /\ OnlyPaged'
    BY <1>3, <2>1 DEF Render, PlacesTypeOK, OnlyPaged, Nowhere, allocVars, pagerVars,
                      clientVars
  <2>3. \A u \in Tasks : \A a \in allocs'[u] : life[a] # "none"
    BY <1>3 DEF Render, PlacesTypeOK, Created
  <2>4. QED
    BY <1>3, <2>2, <2>3, UsePlaces
    DEF Render, Created, allocVars, pagerVars, clientVars
<1>4. QED BY <1>1, <1>2, <1>3 DEF WorkerStep

LEMMA ClientPlaces ==
  ASSUME PlacesInv, NEW c \in Clients, MarkUnpagable(c) \/ PrepareOne(c) \/ MarkPagable(c)
  PROVE  PlacesInv'
<1> USE DEF PlacesInv
<1>1. /\ UNCHANGED <<life, seg, free, coming, leaving, allocs>>
      /\ \E s \in {"lock", "pinned", "prepare", "done"} : client' = [client EXCEPT ![c] = s]
      /\ life[PinOf[c]] # "none" /\ PinOf[c] \in Allocs
  BY PagingAssumption
  DEF MarkUnpagable, PrepareOne, MarkPagable, allocVars, taskVars, pagerVars, Created
<1>2. \/ UNCHANGED <<todo, pager, pg>>
      \/ /\ pager = Nobody /\ pager' = c /\ pg' = "in" /\ todo' = {PinOf[c]}
         /\ seg[PinOf[c]] = NoPlace
  BY DEF MarkUnpagable, PrepareOne, MarkPagable, pagerVars
<1>3. PlacesTypeOK'
  BY <1>1, <1>2 DEF PlacesTypeOK
<1>4. OnlyPaged'
  <2>1. CASE UNCHANGED <<todo, pager, pg>>
    BY <1>1, <2>1 DEF OnlyPaged, Nowhere
  <2>2. CASE /\ pager = Nobody /\ pager' = c /\ pg' = "in" /\ todo' = {PinOf[c]}
             /\ seg[PinOf[c]] = NoPlace
    BY <1>1, <2>2, PagingAssumption DEF OnlyPaged, Nowhere
  <2>3. QED BY <1>2, <2>1, <2>2
<1>5. \A d \in Clients : client'[d] # "idle" => life[PinOf[d]] # "none"
  BY <1>1 DEF Created, PlacesTypeOK
<1>6. \A a \in todo' : life[a] # "none"
  BY <1>1, <1>2 DEF Created
<1>7. pager' \in Clients => client'[pager'] # "idle"
  BY <1>1, <1>2 DEF Created, PlacesTypeOK
<1>8. QED BY <1>1, <1>3, <1>4, <1>5, <1>6, <1>7, UsePlaces DEF Created

\* A free place is taken for an allocation that is to come.
LEMMA ResidentOnePlaces ==
  ASSUME PlacesInv, NEW a \in Allocs, NEW p \in Places, ResidentOne(a, p)
  PROVE  PlacesInv'
<1> USE DEF PlacesInv
<1>1. /\ pg = "in" /\ a \in todo /\ p \in free /\ free' = free \ {p}
      /\ coming' = [coming EXCEPT ![a] = p] /\ todo' = todo \ {a}
      /\ UNCHANGED <<life, seg, leaving, pager, pg, allocs, client>>
  BY DEF ResidentOne, taskVars, clientVars
<1>2. /\ coming'[a] = p /\ \A b \in Allocs : b # a => coming'[b] = coming[b]
      /\ seg[a] = NoPlace /\ coming[a] = NoPlace /\ leaving[a] = NoPlace
      /\ p # NoPlace /\ \A b \in Allocs : ~At(b, p)
  BY <1>1, PagingAssumption DEF PlacesTypeOK, OnlyPaged, OneOwner
<1>3. PlacesTypeOK'
  BY <1>1 DEF PlacesTypeOK
<1>4. OneOwner'
  BY <1>1, <1>2 DEF OneOwner, At
<1>5. OnlyPaged'
  BY <1>1, <1>2 DEF OnlyPaged, Nowhere, PlacesTypeOK
<1>6. Created'
  BY <1>1, <1>2 DEF Created, PlacesTypeOK
<1>7. QED BY <1>3, <1>4, <1>5, <1>6

\* Allocations start to leave: their places change their role.
LEMMA UnresidentPlaces ==
  ASSUME PlacesInv, NEW S \in SUBSET Allocs, Unresident(S) PROVE PlacesInv'
<1> USE DEF PlacesInv
<1>1. /\ pg = "in" /\ pg' = "build" /\ \A a \in S : seg[a] # NoPlace
      /\ leaving' = [a \in Allocs |-> IF a \in S THEN seg[a] ELSE NoPlace]
      /\ seg' = [a \in Allocs |-> IF a \in S THEN NoPlace ELSE seg[a]]
      /\ UNCHANGED <<life, free, coming, todo, pager, allocs, client>>
  BY DEF Unresident, taskVars, clientVars
<1>2. leaving = Nowhere /\ \A a \in Allocs : leaving[a] = NoPlace
  BY <1>1 DEF OnlyPaged, Nowhere
<1>3. \A a \in Allocs : \A p \in Places : At(a, p)' <=> At(a, p)
  BY <1>1, <1>2, PagingAssumption DEF At
<1>4. PlacesTypeOK'
  BY <1>1 DEF PlacesTypeOK
<1>5. OneOwner'
  <2>1. \A a \in Allocs :
          /\ seg'[a] # NoPlace => coming'[a] = NoPlace /\ leaving'[a] = NoPlace
          /\ coming'[a] # NoPlace => leaving'[a] = NoPlace
    BY <1>1 DEF OneOwner
  <2>2. QED BY <1>1, <1>3, <2>1 DEF OneOwner
<1>6. OnlyPaged'
  BY <1>1 DEF OnlyPaged, Nowhere, PlacesTypeOK
<1>7. Created'
  BY <1>1 DEF Created, PlacesTypeOK
<1>8. QED BY <1>4, <1>5, <1>6, <1>7

\* Those that cannot be copied out get their places back.
LEMMA PagingOutPlaces ==
  ASSUME PlacesInv, NEW F \in SUBSET Allocs, PagingOut(F) PROVE PlacesInv'
<1> USE DEF PlacesInv
<1>1. /\ pg = "build" /\ pg' \in {"outsub", "submit"} /\ F \subseteq In(leaving)
      /\ pg' = "submit" => F = In(leaving)
      /\ seg' = [a \in Allocs |-> IF a \in F THEN leaving[a] ELSE seg[a]]
      /\ leaving' = [a \in Allocs |-> IF a \in F THEN NoPlace ELSE leaving[a]]
      /\ UNCHANGED <<life, free, coming, todo, pager, allocs, client>>
  BY DEF PagingOut, taskVars, clientVars
<1>2. \A a \in F : leaving[a] # NoPlace /\ seg[a] = NoPlace /\ coming[a] = NoPlace
  BY <1>1 DEF In, OneOwner
<1>3. \A a \in Allocs : \A p \in Places : At(a, p)' <=> At(a, p)
  BY <1>1, <1>2, PagingAssumption DEF At
<1>4. PlacesTypeOK'
  BY <1>1 DEF PlacesTypeOK
<1>5. OneOwner'
  <2>1. \A a \in Allocs :
          /\ seg'[a] # NoPlace => coming'[a] = NoPlace /\ leaving'[a] = NoPlace
          /\ coming'[a] # NoPlace => leaving'[a] = NoPlace
    BY <1>1, <1>2 DEF OneOwner
  <2>2. QED BY <1>1, <1>3, <2>1 DEF OneOwner
<1>6. OnlyPaged'
  <2>1. pg' = "submit" => leaving' = Nowhere
    BY <1>1 DEF In, Nowhere
  <2>2. \A a \in todo' : seg'[a] = NoPlace /\ coming'[a] = NoPlace /\ leaving'[a] = NoPlace
    BY <1>1, <1>2 DEF OnlyPaged, PlacesTypeOK
  <2>3. QED BY <1>1, <2>1, <2>2 DEF OnlyPaged, Nowhere
<1>7. Created'
  BY <1>1, <1>2 DEF Created, PlacesTypeOK
<1>8. QED BY <1>4, <1>5, <1>6, <1>7

\* The copies are done and the places free.
LEMMA ReleasePlaces == ASSUME PlacesInv, ReleaseVideoMemory PROVE PlacesInv'
<1> USE DEF PlacesInv
<1>1. /\ pg = "outwait" /\ pg' = "in" /\ leaving' = Nowhere
      /\ free' = free \cup {leaving[a] : a \in In(leaving)}
      /\ UNCHANGED <<life, seg, coming, todo, pager, allocs, client>>
  BY DEF ReleaseVideoMemory, taskVars, clientVars
<1>2. \A a \in Allocs : leaving'[a] = NoPlace
  BY <1>1 DEF Nowhere
<1>3. \A p \in Places : p \in free' <=> p \in free \/ \E a \in Allocs : leaving[a] = p
  BY <1>1, PagingAssumption DEF In
<1>4. PlacesTypeOK'
  <2>1. free' \subseteq Places
    BY <1>1 DEF In, PlacesTypeOK
  <2>2. QED BY <1>1, <2>1 DEF PlacesTypeOK, Nowhere
<1>5. OneOwner'
  <2>1. \A a \in Allocs : \A p \in Places : At(a, p)' <=> (seg[a] = p \/ coming[a] = p)
    BY <1>1, <1>2, PagingAssumption DEF At
  <2>2. \A p \in Places : p \in free' <=> \A a \in Allocs : ~At(a, p)'
    <3> SUFFICES ASSUME NEW p \in Places
                 PROVE  p \in free' <=> \A a \in Allocs : ~At(a, p)'
      OBVIOUS
    <3>1. CASE \E a \in Allocs : leaving[a] = p
      <4>1. PICK a \in Allocs : leaving[a] = p
        BY <3>1
      <4>2. seg[a] # p /\ coming[a] # p
        BY <4>1, PagingAssumption DEF OneOwner
      <4>3. \A b \in Allocs : ~(seg[b] = p \/ coming[b] = p)
        BY <4>1, <4>2 DEF OneOwner, At
      <4>4. QED BY <1>3, <2>1, <3>1, <4>3
    <3>2. CASE ~\E a \in Allocs : leaving[a] = p
      BY <1>3, <2>1, <3>2 DEF OneOwner, At
    <3>3. QED BY <3>1, <3>2
  <2>3. \A p \in Places, a, b \in Allocs : At(a, p)' /\ At(b, p)' => a = b
    BY <2>1 DEF OneOwner, At
  <2>4. QED BY <1>1, <1>2, <2>2, <2>3 DEF OneOwner
<1>6. OnlyPaged'
  BY <1>1, <1>2 DEF OnlyPaged, Nowhere, PlacesTypeOK
<1>7. Created'
  BY <1>1, <1>2 DEF Created, PlacesTypeOK
<1>8. QED BY <1>4, <1>5, <1>6, <1>7

\* What has come gets its place.
LEMMA ResidentPlaces ==
  ASSUME PlacesInv,
         \/ \E t \in Tasks : TaskResident(t)
         \/ \E c \in Clients : ClientResident(c)
  PROVE  PlacesInv'
<1> USE DEF PlacesInv
<1>1. /\ pg = "set" /\ pg' = "none" /\ pager' = Nobody /\ todo' = {}
      /\ seg' = [a \in Allocs |-> IF coming[a] # NoPlace THEN coming[a] ELSE seg[a]]
      /\ coming' = Nowhere
      /\ UNCHANGED <<life, free, leaving, allocs>>
  BY DEF TaskResident, ClientResident, Resident
<1>2. \/ UNCHANGED client
      \/ \E c \in Clients : /\ client' = [client EXCEPT ![c] = "pinned"]
                            /\ pager = c
  BY DEF TaskResident, ClientResident
<1>3. leaving = Nowhere /\ \A a \in Allocs : coming'[a] = NoPlace
  BY <1>1 DEF OnlyPaged, Nowhere
<1>4. \A a \in Allocs : \A p \in Places : At(a, p)' <=> At(a, p)
  BY <1>1, <1>3, PagingAssumption DEF At, OneOwner
<1>5. OneOwner'
  BY <1>1, <1>3, <1>4 DEF OneOwner, Nowhere
<1>6. OnlyPaged'
  BY <1>1, <1>3 DEF OnlyPaged, Nowhere
<1>7. PlacesTypeOK'
  BY <1>1, <1>2 DEF PlacesTypeOK, Nowhere
<1>8. Created'
  <2>1. \A d \in Clients : client'[d] # "idle" => life[PinOf[d]] # "none"
    BY <1>2 DEF Created, PlacesTypeOK
  <2>2. QED BY <1>1, <1>3, <2>1, PagingAssumption DEF Created, PlacesTypeOK, Nowhere
<1>9. QED BY <1>5, <1>6, <1>7, <1>8

\* The holder of paging_lock goes on to another phase.
LEMMA PhasePlaces ==
  ASSUME PlacesInv,
         \/ \E r \in {"again", "nomem"} : PagingInFails(r)
         \/ NoCandidate \/ SubmitOut \/ SubmitIn
  PROVE  PlacesInv'
<1> USE DEF PlacesInv
<1>1. /\ UNCHANGED <<life, seg, free, coming, leaving, todo, pager, allocs, client>>
      /\ \/ pg \in {"in", "submit"} /\ pg' \in {"submit", "set"}
         \/ pg = "outsub" /\ pg' = "outwait"
  BY DEF PagingInFails, NoCandidate, SubmitOut, SubmitIn, allocVars, taskVars, clientVars
<1>2. PlacesTypeOK' /\ OnlyPaged'
  BY <1>1 DEF PlacesTypeOK, OnlyPaged, Nowhere
<1>3. QED BY <1>1, <1>2, UsePlaces DEF Created

LEMMA NextPlaces == PlacesInv /\ [Next]_vars => PlacesInv'
<1> SUFFICES ASSUME PlacesInv, [Next]_vars PROVE PlacesInv'
  OBVIOUS
<1>1. ASSUME NEW a \in Allocs,
             \/ CreateAllocation(a) \/ Unreference(a) \/ DestroyDefer(a)
             \/ DestroyAllocation(a)
      PROVE  PlacesInv'
  BY <1>1, CreatePlaces, LifePlaces, DestroyPlaces
<1>2. ASSUME PagerStep PROVE PlacesInv'
  BY <1>2, ResidentOnePlaces, UnresidentPlaces, PagingOutPlaces, ReleasePlaces,
     ResidentPlaces, PhasePlaces
  DEF PagerStep
<1>3. ASSUME NEW e \in Engines, GpuFinish(e) PROVE PlacesInv'
  BY <1>3, FramePlaces
  DEF GpuFinish, placeVars, allocVars, taskVars, pagerVars, clientVars
<1>4. CASE UNCHANGED vars
  BY <1>4, FramePlaces DEF vars, placeVars, allocVars, taskVars, pagerVars, clientVars
<1>5. QED BY <1>1, <1>2, <1>3, <1>4, TaskPlaces, ClientPlaces DEF Next

\* Video memory is neither given to two allocations nor lost, whatever paging
\* step fails and whenever an allocation is destroyed.
THEOREM PlacesCorrect == Spec => []PlacesAccount
<1>1. PlacesInv => PlacesAccount
  <2> SUFFICES ASSUME PlacesInv, NEW p \in Places
               PROVE  Cardinality({a \in Allocs : At(a, p)}) = IF p \in free THEN 0 ELSE 1
    BY DEF PlacesAccount
  <2>1. CASE p \in free
    <3>1. {a \in Allocs : At(a, p)} = {}
      BY <2>1 DEF PlacesInv, OneOwner
    <3>2. QED BY <2>1, <3>1, FS_EmptySet
  <2>2. CASE p \notin free
    <3>1. PICK a \in Allocs : At(a, p)
      BY <2>2 DEF PlacesInv, OneOwner
    <3>2. {b \in Allocs : At(b, p)} = {a}
      BY <3>1 DEF PlacesInv, OneOwner
    <3>3. QED BY <2>2, <3>2, FS_Singleton
  <2>3. QED BY <2>1, <2>2
<1>2. QED BY <1>1, InitPlaces, NextPlaces, PTL DEF Spec

-----------------------------------------------------------------------------
(* Finite sets: the counts are cardinalities of sets of tasks.             *)

\* A set of tasks grows and shrinks by one.
LEMMA CardAdd ==
  ASSUME NEW A \in SUBSET Tasks, NEW x \in Tasks, x \notin A
  PROVE  Cardinality(A \cup {x}) = Cardinality(A) + 1
  BY FS_Subset, FS_AddElement, PagingAssumption

LEMMA CardDel ==
  ASSUME NEW A \in SUBSET Tasks, NEW x \in A
  PROVE  Cardinality(A \ {x}) = Cardinality(A) - 1
  BY FS_Subset, FS_RemoveElement, PagingAssumption

LEMMA CardType ==
  \A A \in SUBSET Tasks : Cardinality(A) \in Nat /\ (Cardinality(A) = 0 <=> A = {})
  BY FS_Subset, FS_CardinalityType, FS_EmptySet, PagingAssumption

\* A finite set of numbers has a largest one: a smallest set without one has an
\* element to take away.
LEMMA MaxIsNat ==
  ASSUME NEW S \in SUBSET Nat, IsFiniteSet(S), S # {}
  PROVE  Max(S) \in Nat /\ \A x \in S : x <= Max(S)
<1> DEFINE NoMax == {A \in FiniteSubsetsOf(Nat) :
                       A # {} /\ ~\E x \in A : \A y \in A : x >= y}
<1>1. NoMax = {}
  <2> SUFFICES ASSUME NoMax # {} PROVE FALSE
    OBVIOUS
  <2>1. PICK A \in NoMax : \A B \in NoMax : <<B, A>> \notin StrictSubsetOrdering(Nat)
    <3>1. NoMax \subseteq FiniteSubsetsOf(Nat)
      OBVIOUS
    <3>2. QED BY <3>1, FS_StrictSubsetOrderingWellFounded, WFMin
  <2>2. A \in SUBSET Nat /\ IsFiniteSet(A) /\ A # {}
    BY DEF FiniteSubsetsOf
  <2>3. PICK x \in A : TRUE
    BY <2>2
  <2>4. A \ {x} # {}
    BY <2>2, <2>3
  <2>5. <<A \ {x}, A>> \in StrictSubsetOrdering(Nat)
    BY <2>2, <2>3 DEF StrictSubsetOrdering
  <2>6. A \ {x} \in FiniteSubsetsOf(Nat)
    BY <2>2, FS_Subset DEF FiniteSubsetsOf
  <2>7. PICK m \in A \ {x} : \A y \in A \ {x} : m >= y
    BY <2>1, <2>4, <2>5, <2>6
  <2>8. CASE m >= x
    BY <2>1, <2>7, <2>8
  <2>9. CASE x > m
    <3>1. \A y \in A : x >= y
      BY <2>2, <2>3, <2>7, <2>9
    <3>2. QED BY <2>1, <2>3, <3>1
  <2>10. QED BY <2>2, <2>3, <2>7, <2>8, <2>9
<1>2. S \in FiniteSubsetsOf(Nat)
  BY DEF FiniteSubsetsOf
<1>3. \E x \in S : \A y \in S : x >= y
  BY <1>1, <1>2
<1>4. Max(S) \in S /\ \A y \in S : Max(S) >= y
  BY <1>3 DEF Max
<1>5. QED BY <1>4

\* The newest paging fence of a task's allocations is a fence id, and none is newer.
LEMMA SeenIsNat ==
  ASSUME NEW f \in [Allocs -> Nat], NEW S \in SUBSET Allocs, S # {}
  PROVE  Max({f[a] : a \in S}) \in Nat /\ \A a \in S : f[a] <= Max({f[b] : b \in S})
<1> DEFINE g == [a \in S |-> f[a]]
           T == {f[a] : a \in S}
<1>1. IsFiniteSet(S)
  BY FS_Subset, PagingAssumption
<1>2. g \in Surjection(S, T)
  BY DEF Surjection
<1>3. IsFiniteSet(T)
  BY <1>1, <1>2, FS_Surjection
<1>4. T \in SUBSET Nat /\ T # {}
  OBVIOUS
<1>5. Max(T) \in Nat /\ \A x \in T : x <= Max(T)
  BY <1>3, <1>4, MaxIsNat
<1>6. QED BY <1>5

-----------------------------------------------------------------------------
(* The counts of tasks and of the render counts.                           *)

HoldSet(e, a) == {t \in Tasks : EngineOf[t] = e /\ InQueue(t) /\ a \in allocs[t]}
Claiming(t) == st[t] \in {"lock", "paging", "ready"}
ClaimSet(a) == {t \in Tasks : st[t] \in {"lock", "paging", "ready"} /\ a \in allocs[t]}

\* Nobody joins or leaves the queue.
LEMMA HoldersSame ==
  ASSUME UNCHANGED allocs, \A t \in Tasks : InQueue(t)' <=> InQueue(t)
  PROVE  \A e \in Engines, a \in Allocs : Holders(e, a)' = Holders(e, a)
<1> TAKE e \in Engines, a \in Allocs
<1>1. HoldSet(e, a)' = HoldSet(e, a)
  BY DEF HoldSet
<1>2. QED BY <1>1 DEF Holders, HoldSet

\* A task joins the queue with its allocations.
LEMMA HoldersMore ==
  ASSUME NEW t \in Tasks, ~InQueue(t), InQueue(t)',
         \A u \in Tasks : u # t => (InQueue(u)' <=> InQueue(u)) /\ allocs'[u] = allocs[u]
  PROVE  \A e \in Engines, a \in Allocs :
           Holders(e, a)' = IF e = EngineOf[t] /\ a \in allocs'[t]
                            THEN Holders(e, a) + 1 ELSE Holders(e, a)
<1> TAKE e \in Engines, a \in Allocs
<1>1. HoldSet(e, a) \in SUBSET Tasks /\ t \notin HoldSet(e, a)
  BY DEF HoldSet
<1>2. HoldSet(e, a)' = IF e = EngineOf[t] /\ a \in allocs'[t]
                       THEN HoldSet(e, a) \cup {t} ELSE HoldSet(e, a)
  BY DEF HoldSet
<1>3. /\ Holders(e, a) = Cardinality(HoldSet(e, a))
      /\ Holders(e, a)' = Cardinality(HoldSet(e, a)')
  BY DEF Holders, HoldSet
<1>4. QED BY <1>1, <1>2, <1>3, CardAdd

\* A task leaves the queue.
LEMMA HoldersLess ==
  ASSUME NEW t \in Tasks, InQueue(t), ~InQueue(t)', UNCHANGED allocs,
         \A u \in Tasks : u # t => (InQueue(u)' <=> InQueue(u))
  PROVE  \A e \in Engines, a \in Allocs :
           Holders(e, a)' = IF e = EngineOf[t] /\ a \in allocs[t]
                            THEN Holders(e, a) - 1 ELSE Holders(e, a)
<1> TAKE e \in Engines, a \in Allocs
<1>1. HoldSet(e, a) \in SUBSET Tasks
  BY DEF HoldSet
<1>2. HoldSet(e, a)' = HoldSet(e, a) \ {t}
  BY DEF HoldSet
<1>3. t \in HoldSet(e, a) <=> e = EngineOf[t] /\ a \in allocs[t]
  BY DEF HoldSet
<1>4. /\ Holders(e, a) = Cardinality(HoldSet(e, a))
      /\ Holders(e, a)' = Cardinality(HoldSet(e, a)')
  BY DEF Holders, HoldSet
<1>5. t \notin HoldSet(e, a) => HoldSet(e, a) \ {t} = HoldSet(e, a)
  OBVIOUS
<1>6. QED BY <1>1, <1>2, <1>3, <1>4, <1>5, CardDel

\* The same for the tasks that are being submitted.
LEMMA ClaimsSame ==
  ASSUME \A t \in Tasks : Claiming(t)' <=> Claiming(t),
         \A t \in Tasks : Claiming(t) => allocs'[t] = allocs[t]
  PROVE  \A a \in Allocs : Cardinality(ClaimSet(a))' = Cardinality(ClaimSet(a))
<1> TAKE a \in Allocs
<1>1. ClaimSet(a)' = ClaimSet(a)
  BY DEF ClaimSet, Claiming
<1>2. QED BY <1>1

LEMMA ClaimsMore ==
  ASSUME NEW t \in Tasks, ~Claiming(t), Claiming(t)', UNCHANGED allocs,
         \A u \in Tasks : u # t => (Claiming(u)' <=> Claiming(u))
  PROVE  \A a \in Allocs :
           Cardinality(ClaimSet(a))' =
             IF a \in allocs[t] THEN Cardinality(ClaimSet(a)) + 1 ELSE Cardinality(ClaimSet(a))
<1> TAKE a \in Allocs
<1>1. ClaimSet(a) \in SUBSET Tasks /\ t \notin ClaimSet(a)
  BY DEF ClaimSet, Claiming
<1>2. ClaimSet(a)' = IF a \in allocs[t] THEN ClaimSet(a) \cup {t} ELSE ClaimSet(a)
  BY DEF ClaimSet, Claiming
<1>3. QED BY <1>1, <1>2, CardAdd

LEMMA ClaimsLess ==
  ASSUME NEW t \in Tasks, Claiming(t), ~Claiming(t)', UNCHANGED allocs,
         \A u \in Tasks : u # t => (Claiming(u)' <=> Claiming(u))
  PROVE  \A a \in Allocs :
           Cardinality(ClaimSet(a))' =
             IF a \in allocs[t] THEN Cardinality(ClaimSet(a)) - 1 ELSE Cardinality(ClaimSet(a))
<1> TAKE a \in Allocs
<1>1. ClaimSet(a) \in SUBSET Tasks
  BY DEF ClaimSet
<1>2. ClaimSet(a)' = ClaimSet(a) \ {t} /\ (t \in ClaimSet(a) <=> a \in allocs[t])
  BY DEF ClaimSet, Claiming
<1>3. a \notin allocs[t] => ClaimSet(a) \ {t} = ClaimSet(a)
  BY <1>2
<1>4. QED BY <1>1, <1>2, <1>3, CardDel

LEMMA CountTypes ==
  /\ \A e \in Engines, a \in Allocs : Holders(e, a) \in Nat
  /\ \A a \in Allocs : Cardinality(ClaimSet(a)) \in Nat
  /\ \A a \in Allocs : PagingHolds(a) \in Nat
<1>1. ASSUME NEW e \in Engines, NEW a \in Allocs PROVE Holders(e, a) \in Nat
  <2>1. HoldSet(e, a) \in SUBSET Tasks
    BY DEF HoldSet
  <2>2. QED BY <2>1, CardType DEF Holders, HoldSet
<1>2. ASSUME NEW a \in Allocs PROVE Cardinality(ClaimSet(a)) \in Nat
  <2>1. ClaimSet(a) \in SUBSET Tasks
    BY DEF ClaimSet
  <2>2. QED BY <2>1, CardType
<1>3. ASSUME NEW a \in Allocs PROVE PagingHolds(a) \in Nat
  <2>1. CASE leaving[a] = NoPlace
    BY <2>1 DEF PagingHolds
  <2>2. CASE leaving[a] # NoPlace
    BY <2>2 DEF PagingHolds
  <2>3. QED BY <2>1, <2>2
<1>4. QED BY <1>1, <1>2, <1>3

\* What CountRender and Plus do at one place.
LEMMA CountRenderIs ==
  ASSUME TypeOK, NEW e \in Engines, NEW S, NEW n \in Int
  PROVE  /\ CountRender(e, S, n) \in [Engines -> [Allocs -> Int]]
         /\ \A f \in Engines, a \in Allocs :
              CountRender(e, S, n)[f][a] =
                IF f = e /\ a \in S THEN render_count[f][a] + n ELSE render_count[f][a]
  BY DEF CountRender, Plus, TypeOK

LEMMA PlusIs ==
  ASSUME NEW f \in [Allocs -> Int], NEW S, NEW n \in Int
  PROVE  /\ Plus(f, S, n) \in [Allocs -> Int]
         /\ \A a \in Allocs : Plus(f, S, n)[a] = IF a \in S THEN f[a] + n ELSE f[a]
  BY DEF Plus

\* Steps that touch no count and nothing that is counted.
LEMMA CountsFrame ==
  ASSUME CountsAccount, UNCHANGED <<render_count, submit_ref_cnt, allocs, failed>>,
         \A t \in Tasks : InQueue(t)' <=> InQueue(t),
         \A t \in Tasks : Claiming(t)' <=> Claiming(t),
         \A a \in Allocs : PagingHolds(a)' = PagingHolds(a)
  PROVE  CountsAccount'
<1>1. \A e \in Engines, a \in Allocs : Holders(e, a)' = Holders(e, a)
  BY HoldersSame
<1>2. \A a \in Allocs : Cardinality(ClaimSet(a))' = Cardinality(ClaimSet(a))
  BY ClaimsSame
<1>3. QED BY <1>1, <1>2 DEF CountsAccount, ClaimSet

\* The references of the paging steps on the allocations of S change by n.
PagingBy(S, n) ==
  \A a \in Allocs :
    IF a \in S
    THEN PagingHolds(a)' - failed'[a] = PagingHolds(a) - failed[a] + n
    ELSE PagingHolds(a)' - failed'[a] = PagingHolds(a) - failed[a]

LEMMA PagingByHolds ==
  ASSUME TypeOK, UNCHANGED failed, NEW S \in SUBSET Allocs, NEW n \in Int,
         \A a \in Allocs :
           PagingHolds(a)' = IF a \in S THEN PagingHolds(a) + n ELSE PagingHolds(a)
  PROVE  PagingBy(S, n) /\ failed' \in [Allocs -> Nat]
<1>1. ASSUME NEW a \in Allocs, a \in S
      PROVE  PagingHolds(a)' - failed'[a] = PagingHolds(a) - failed[a] + n
  <2>1. PagingHolds(a)' = PagingHolds(a) + n /\ failed'[a] = failed[a]
    BY <1>1
  <2>2. PagingHolds(a) \in Int /\ failed[a] \in Int
    BY CountTypes DEF TypeOK
  <2>3. QED BY <2>1, <2>2
<1>2. ASSUME NEW a \in Allocs, a \notin S
      PROVE  PagingHolds(a)' - failed'[a] = PagingHolds(a) - failed[a]
  BY <1>2
<1>3. QED BY <1>1, <1>2 DEF PagingBy, TypeOK

\* Steps of the holder of paging_lock: the tasks stay where they are.
LEMMA CountsPager ==
  ASSUME TypeOK, CountsAccount, UNCHANGED <<st, allocs, submit_ref_cnt>>,
         NEW S \in SUBSET Allocs, NEW n \in Int, render_count' = CountRender(PagingEngine, S, n),
         failed' \in [Allocs -> Nat], PagingBy(S, n)
  PROVE  CountsAccount'
<1>1. \A e \in Engines, a \in Allocs : Holders(e, a)' = Holders(e, a)
  BY HoldersSame DEF InQueue, InWorker
<1>2. \A a \in Allocs : Cardinality(ClaimSet(a))' = Cardinality(ClaimSet(a))
  BY ClaimsSame DEF Claiming
<1>3. ASSUME NEW e \in Engines, NEW a \in Allocs
      PROVE  render_count'[e][a] =
               Holders(e, a)' + IF e = PagingEngine THEN PagingHolds(a)' - failed'[a] ELSE 0
  <2>1. /\ render_count[e][a] =
             Holders(e, a) + IF e = PagingEngine THEN PagingHolds(a) - failed[a] ELSE 0
        /\ render_count'[e][a] = IF e = PagingEngine /\ a \in S
                                 THEN render_count[e][a] + n ELSE render_count[e][a]
    BY CountRenderIs, PagingAssumption DEF CountsAccount
  <2>2. /\ Holders(e, a) \in Nat /\ PagingHolds(a) \in Int /\ failed[a] \in Int
        /\ render_count[e][a] \in Int
    BY CountTypes DEF TypeOK
  <2>3. /\ PagingHolds(a)' \in Int /\ failed'[a] \in Int
    BY DEF PagingHolds
  <2>4. IF a \in S
        THEN PagingHolds(a)' - failed'[a] = PagingHolds(a) - failed[a] + n
        ELSE PagingHolds(a)' - failed'[a] = PagingHolds(a) - failed[a]
    BY DEF PagingBy
  <2>5. CASE e = PagingEngine
    BY <1>1, <2>1, <2>2, <2>3, <2>4, <2>5
  <2>6. CASE e # PagingEngine
    BY <1>1, <2>1, <2>2, <2>6
  <2>7. QED BY <2>5, <2>6
<1>4. QED BY <1>2, <1>3 DEF CountsAccount, ClaimSet

\* Counts and what they count change alike.
RenderBy(e, S, n) ==
  \A f \in Engines, a \in Allocs :
    IF f = e /\ a \in S
    THEN /\ render_count'[f][a] = render_count[f][a] + n
         /\ Holders(f, a)' = Holders(f, a) + n
    ELSE /\ render_count'[f][a] = render_count[f][a]
         /\ Holders(f, a)' = Holders(f, a)

ClaimBy(S, n) ==
  \A a \in Allocs :
    IF a \in S
    THEN /\ submit_ref_cnt'[a] = submit_ref_cnt[a] + n
         /\ Cardinality(ClaimSet(a))' = Cardinality(ClaimSet(a)) + n
    ELSE /\ submit_ref_cnt'[a] = submit_ref_cnt[a]
         /\ Cardinality(ClaimSet(a))' = Cardinality(ClaimSet(a))

\* Steps of a task: nothing is paged in or out.
LEMMA CountsTask ==
  ASSUME TypeOK, CountsAccount, UNCHANGED <<coming, leaving, pg, failed>>,
         NEW f \in Engines, NEW S \in SUBSET Allocs, NEW n \in Int, NEW m \in Int,
         RenderBy(f, S, n), ClaimBy(S, m)
  PROVE  CountsAccount'
<1>1. ASSUME NEW e \in Engines, NEW a \in Allocs
      PROVE  render_count'[e][a] =
               Holders(e, a)' + IF e = PagingEngine THEN PagingHolds(a)' - failed'[a] ELSE 0
  <2> DEFINE d == IF e = f /\ a \in S THEN n ELSE 0
  <2>1. render_count[e][a] =
             Holders(e, a) + IF e = PagingEngine THEN PagingHolds(a) - failed[a] ELSE 0
    BY DEF CountsAccount
  <2>2. /\ Holders(e, a) \in Int /\ PagingHolds(a) \in Int /\ failed[a] \in Int
        /\ render_count[e][a] \in Int /\ d \in Int
    BY CountTypes DEF TypeOK
  <2>3. /\ render_count'[e][a] = render_count[e][a] + d
        /\ Holders(e, a)' = Holders(e, a) + d
    BY <2>2 DEF RenderBy
  <2>4. PagingHolds(a)' = PagingHolds(a) /\ failed'[a] = failed[a]
    BY DEF PagingHolds
  <2> HIDE DEF d
  <2>5. CASE e = PagingEngine
    BY <2>1, <2>2, <2>3, <2>4, <2>5
  <2>6. CASE e # PagingEngine
    BY <2>1, <2>2, <2>3, <2>6
  <2>7. QED BY <2>5, <2>6
<1>2. ASSUME NEW a \in Allocs PROVE submit_ref_cnt'[a] = Cardinality(ClaimSet(a))'
  <2>1. submit_ref_cnt[a] = Cardinality(ClaimSet(a))
    BY DEF CountsAccount, ClaimSet
  <2>2. QED BY <2>1 DEF ClaimBy
<1>3. QED BY <1>1, <1>2 DEF CountsAccount, ClaimSet

\* A task is rendered and joins the queue.
LEMMA RenderCounts ==
  ASSUME CountsInv, NEW t \in Tasks, NEW S \in SUBSET Allocs, Render(t, S)
  PROVE  CountsAccount'
<1>1. TypeOK /\ CountsAccount /\ EngineOf[t] \in Engines
  BY PagingAssumption DEF CountsInv
<1>2. /\ st[t] = "new" /\ st' = [st EXCEPT ![t] = "pending"]
      /\ allocs' = [allocs EXCEPT ![t] = S]
      /\ render_count' = CountRender(EngineOf[t], S, 1)
      /\ UNCHANGED <<submit_ref_cnt, coming, leaving, pg, failed>>
  BY DEF Render, pagerVars
<1>3. /\ allocs'[t] = S /\ ~InQueue(t) /\ InQueue(t)'
      /\ \A u \in Tasks : u # t => (InQueue(u)' <=> InQueue(u)) /\ allocs'[u] = allocs[u]
  BY <1>1, <1>2 DEF TypeOK, InQueue, InWorker
<1>4. \A a \in Allocs : Cardinality(ClaimSet(a))' = Cardinality(ClaimSet(a))
  BY <1>1, <1>2, ClaimsSame DEF TypeOK, Claiming
<1>5. RenderBy(EngineOf[t], S, 1)
  BY <1>1, <1>2, <1>3, HoldersMore, CountRenderIs DEF RenderBy
<1>6. ClaimBy(S, 0)
  BY <1>1, <1>2, <1>4, CountTypes DEF ClaimBy, TypeOK
<1>7. QED BY <1>1, <1>2, <1>5, <1>6, CountsTask

\* A task claims its allocations for its submission.
LEMMA MarkCounts ==
  ASSUME CountsInv, NEW t \in Tasks, Mark(t) PROVE CountsAccount'
<1>1. /\ TypeOK /\ CountsAccount /\ EngineOf[t] \in Engines
      /\ submit_ref_cnt \in [Allocs -> Int] /\ allocs[t] \in SUBSET Allocs
  BY PagingAssumption DEF CountsInv, TypeOK
<1>2. /\ st[t] \in {"retry", "pending"}
      /\ \E s \in {"lock", "ready"} : st' = [st EXCEPT ![t] = s]
      /\ submit_ref_cnt' = Plus(submit_ref_cnt, allocs[t], 1)
      /\ UNCHANGED <<render_count, allocs, coming, leaving, pg, failed>>
  BY DEF Mark, pagerVars
<1>3. /\ ~Claiming(t) /\ Claiming(t)'
      /\ \A u \in Tasks : u # t => (Claiming(u)' <=> Claiming(u))
      /\ \A u \in Tasks : InQueue(u)' <=> InQueue(u)
  BY <1>1, <1>2 DEF TypeOK, InQueue, InWorker, Claiming
<1>4. RenderBy(EngineOf[t], allocs[t], 0)
  BY <1>1, <1>2, <1>3, HoldersSame, CountTypes DEF RenderBy, TypeOK
<1>5. ClaimBy(allocs[t], 1)
  BY <1>1, <1>2, <1>3, ClaimsMore, PlusIs DEF ClaimBy
<1>6. QED BY <1>1, <1>2, <1>4, <1>5, CountsTask

\* A task gets its fence id and gives everything back.
LEMMA SubmitCounts ==
  ASSUME CountsInv, NEW t \in Tasks, SubmitDma(t) PROVE CountsAccount'
<1>1. /\ TypeOK /\ CountsAccount /\ EngineOf[t] \in Engines
      /\ submit_ref_cnt \in [Allocs -> Int] /\ allocs[t] \in SUBSET Allocs
  BY PagingAssumption DEF CountsInv, TypeOK
<1>2. /\ st[t] = "ready" /\ st' = [st EXCEPT ![t] = "patch"]
      /\ submit_ref_cnt' = Plus(submit_ref_cnt, allocs[t], -1)
      /\ render_count' = CountRender(EngineOf[t], allocs[t], -1)
      /\ UNCHANGED <<allocs, coming, leaving, pg, failed>>
  BY DEF SubmitDma, DropClaim, pagerVars
<1>3. /\ Claiming(t) /\ ~Claiming(t)' /\ InQueue(t) /\ ~InQueue(t)'
      /\ \A u \in Tasks : u # t => (Claiming(u)' <=> Claiming(u))
      /\ \A u \in Tasks : u # t => (InQueue(u)' <=> InQueue(u))
  BY <1>1, <1>2 DEF TypeOK, InQueue, InWorker, Claiming
<1>4. RenderBy(EngineOf[t], allocs[t], (-1))
  BY <1>1, <1>2, <1>3, HoldersLess, CountRenderIs, CountTypes DEF RenderBy
<1>5. ClaimBy(allocs[t], (-1))
  BY <1>1, <1>2, <1>3, ClaimsLess, PlusIs, CountTypes DEF ClaimBy
<1>6. QED BY <1>1, <1>2, <1>4, <1>5, CountsTask

\* A task is given up and leaves the queue; its claims are gone already.
LEMMA FakeSubmitCounts ==
  ASSUME CountsInv, NEW t \in Tasks, FakeSubmit(t) PROVE CountsAccount'
<1>1. /\ TypeOK /\ CountsAccount /\ EngineOf[t] \in Engines
      /\ submit_ref_cnt \in [Allocs -> Int] /\ allocs[t] \in SUBSET Allocs
  BY PagingAssumption DEF CountsInv, TypeOK
<1>2. /\ st[t] \in {"drop", "pending"} /\ st' = [st EXCEPT ![t] = "dropped"]
      /\ render_count' = CountRender(EngineOf[t], allocs[t], -1)
      /\ UNCHANGED <<submit_ref_cnt, allocs, coming, leaving, pg, failed>>
  BY DEF FakeSubmit, pagerVars
<1>3. /\ InQueue(t) /\ ~InQueue(t)'
      /\ \A u \in Tasks : Claiming(u)' <=> Claiming(u)
      /\ \A u \in Tasks : u # t => (InQueue(u)' <=> InQueue(u))
  BY <1>1, <1>2 DEF TypeOK, InQueue, InWorker, Claiming
<1>4. RenderBy(EngineOf[t], allocs[t], (-1))
  BY <1>1, <1>2, <1>3, HoldersLess, CountRenderIs, CountTypes DEF RenderBy
<1>5. ClaimBy(allocs[t], 0)
  BY <1>1, <1>2, <1>3, ClaimsSame, CountTypes DEF ClaimBy, TypeOK
<1>6. QED BY <1>1, <1>2, <1>4, <1>5, CountsTask

\* Memory is found for an allocation.
LEMMA ResidentOneCounts ==
  ASSUME CountsInv, NEW a \in Allocs, NEW p \in Places, ResidentOne(a, p)
  PROVE  CountsAccount'
<1>1. TypeOK /\ CountsAccount /\ PlacesInv
  BY DEF CountsInv
<1>2. /\ pg = "in" /\ a \in todo /\ coming' = [coming EXCEPT ![a] = p]
      /\ render_count' = CountRender(PagingEngine, {a}, 1)
      /\ UNCHANGED <<submit_ref_cnt, st, allocs, pg, leaving, failed>>
  BY DEF ResidentOne, taskVars
<1>3. /\ coming'[a] = p /\ coming[a] = NoPlace /\ p # NoPlace
      /\ \A b \in Allocs : b # a => coming'[b] = coming[b]
  BY <1>1, <1>2, PagingAssumption DEF TypeOK, PlacesInv, OnlyPaged
<1>4. ASSUME NEW b \in Allocs
      PROVE  PagingHolds(b)' = IF b \in {a} THEN PagingHolds(b) + 1 ELSE PagingHolds(b)
  BY <1>2, <1>3 DEF PagingHolds
<1>5. PagingBy({a}, 1) /\ failed' \in [Allocs -> Nat]
  BY <1>1, <1>2, <1>4, PagingByHolds
<1>6. QED BY <1>1, <1>2, <1>5, CountsPager

\* Allocations start to leave, with two references each.
LEMMA UnresidentCounts ==
  ASSUME CountsInv, NEW S \in SUBSET Allocs, Unresident(S) PROVE CountsAccount'
<1>1. TypeOK /\ CountsAccount /\ PlacesInv
  BY DEF CountsInv
<1>2. /\ pg = "in" /\ pg' = "build" /\ \A a \in S : seg[a] # NoPlace
      /\ leaving' = [a \in Allocs |-> IF a \in S THEN seg[a] ELSE NoPlace]
      /\ render_count' = CountRender(PagingEngine, S, 2)
      /\ UNCHANGED <<submit_ref_cnt, st, allocs, coming, failed>>
  BY DEF Unresident, taskVars
<1>3. \A a \in Allocs : leaving[a] = NoPlace
  BY <1>1, <1>2 DEF PlacesInv, OnlyPaged, Nowhere
<1>4. ASSUME NEW a \in Allocs
      PROVE  PagingHolds(a)' = IF a \in S THEN PagingHolds(a) + 2 ELSE PagingHolds(a)
  BY <1>2, <1>3 DEF PagingHolds
<1>5. PagingBy(S, 2) /\ failed' \in [Allocs -> Nat]
  BY <1>1, <1>2, <1>4, PagingByHolds
<1>6. QED BY <1>1, <1>2, <1>5, CountsPager

\* Those that cannot be copied out lose both again.
LEMMA PagingOutCounts ==
  ASSUME CountsInv, NEW F \in SUBSET Allocs, PagingOut(F) PROVE CountsAccount'
<1>1. TypeOK /\ CountsAccount
  BY DEF CountsInv
<1>2. /\ pg = "build" /\ pg' \in {"outsub", "submit"} /\ F \subseteq In(leaving)
      /\ leaving' = [a \in Allocs |-> IF a \in F THEN NoPlace ELSE leaving[a]]
      /\ render_count' = CountRender(PagingEngine, F, -2)
      /\ UNCHANGED <<submit_ref_cnt, st, allocs, coming, failed>>
  BY DEF PagingOut, RestoreCount, taskVars
<1>3. ASSUME NEW a \in Allocs
      PROVE  PagingHolds(a)' = IF a \in F THEN PagingHolds(a) + (-2) ELSE PagingHolds(a)
  <2>1. CASE a \in F
    <3>1. leaving[a] # NoPlace /\ leaving'[a] = NoPlace
      BY <1>2, <2>1 DEF In
    <3>2. QED BY <1>2, <2>1, <3>1 DEF PagingHolds
  <2>2. CASE a \notin F
    BY <1>2, <2>2 DEF PagingHolds
  <2>3. QED BY <2>1, <2>2
<1>4. PagingBy(F, -2) /\ failed' \in [Allocs -> Nat]
  BY <1>1, <1>2, <1>3, PagingByHolds
<1>5. QED BY <1>1, <1>2, <1>4, CountsPager

\* The copies out are submitted and give one reference back, their end the other.
LEMMA LeaveCounts ==
  ASSUME CountsInv, SubmitOut \/ ReleaseVideoMemory PROVE CountsAccount'
<1>1. TypeOK /\ CountsAccount
  BY DEF CountsInv
<1>2. /\ \/ pg = "outsub" /\ pg' = "outwait" /\ UNCHANGED leaving
         \/ pg = "outwait" /\ pg' = "in" /\ leaving' = Nowhere
      /\ render_count' = CountRender(PagingEngine, In(leaving), -1)
      /\ UNCHANGED <<submit_ref_cnt, st, allocs, coming, failed>>
  BY DEF SubmitOut, ReleaseVideoMemory, taskVars
<1>3. ASSUME NEW a \in Allocs
      PROVE  PagingHolds(a)' =
               IF a \in In(leaving) THEN PagingHolds(a) + (-1) ELSE PagingHolds(a)
  <2>1. CASE leaving[a] = NoPlace
    <3>1. leaving'[a] = NoPlace /\ a \notin In(leaving)
      BY <1>2, <2>1 DEF In, Nowhere
    <3>2. QED BY <1>2, <2>1, <3>1 DEF PagingHolds
  <2>2. CASE leaving[a] # NoPlace
    <3>1. a \in In(leaving)
      BY <2>2 DEF In
    <3>2. CASE pg = "outsub"
      BY <1>2, <2>2, <3>1, <3>2 DEF PagingHolds
    <3>3. CASE pg = "outwait"
      BY <1>2, <2>2, <3>1, <3>3 DEF PagingHolds, Nowhere
    <3>4. QED BY <1>2, <3>2, <3>3
  <2>3. QED BY <2>1, <2>2
<1>4. In(leaving) \in SUBSET Allocs
  BY DEF In
<1>5. PagingBy(In(leaving), -1) /\ failed' \in [Allocs -> Nat]
  BY <1>1, <1>2, <1>3, <1>4, PagingByHolds
<1>6. QED BY <1>1, <1>2, <1>4, <1>5, CountsPager

\* The copies in are submitted; a client's pin gives back one reference whether it
\* has one or not.
LEMMA SubmitInCounts ==
  ASSUME CountsInv, SubmitIn PROVE CountsAccount'
<1> DEFINE S == IF pager \in Clients THEN {PinOf[pager]} ELSE In(coming)
<1>1. TypeOK /\ CountsAccount /\ PlacesInv /\ PagerOK
  BY DEF CountsInv
<1>2. /\ pg \in {"in", "submit"} /\ pg' = "set"
      /\ render_count' = CountRender(PagingEngine, S, -1)
      /\ failed' = IF pager \in Clients /\ In(coming) = {}
                   THEN [failed EXCEPT ![PinOf[pager]] = @ + 1] ELSE failed
      /\ UNCHANGED <<submit_ref_cnt, st, allocs, coming, leaving>>
  BY DEF SubmitIn, taskVars
<1>3. \A a \in Allocs : leaving[a] = NoPlace
  BY <1>1, <1>2 DEF PlacesInv, OnlyPaged, Nowhere
<1>4. S \in SUBSET Allocs /\ failed' \in [Allocs -> Nat]
  BY <1>1, <1>2, PagingAssumption DEF In, TypeOK
<1>5. ASSUME NEW a \in Allocs
      PROVE  PagingHolds(a)' = 0 /\ PagingHolds(a) = IF coming[a] # NoPlace THEN 1 ELSE 0
  BY <1>2, <1>3 DEF PagingHolds
<1>6. PagingBy(S, -1)
  <2>1. CASE pager \in Clients /\ In(coming) = {}
    <3>1. S = {PinOf[pager]} /\ PinOf[pager] \in Allocs
      BY <2>1, PagingAssumption
    <3>2. ASSUME NEW a \in Allocs
          PROVE  /\ PagingHolds(a)' = 0 /\ PagingHolds(a) = 0 /\ failed[a] \in Nat
                 /\ failed'[a] = IF a \in S THEN failed[a] + 1 ELSE failed[a]
      BY <1>1, <1>2, <1>5, <2>1, <3>1 DEF In, TypeOK
    <3> HIDE DEF S
    <3>3. QED BY <3>2 DEF PagingBy
  <2>2. CASE ~(pager \in Clients /\ In(coming) = {})
    <3>1. UNCHANGED failed
      BY <1>2, <2>2
    <3>2. S = In(coming)
      BY <1>1, <2>2 DEF PagerOK
    <3>3. ASSUME NEW a \in Allocs
          PROVE  PagingHolds(a)' =
                   IF a \in S THEN PagingHolds(a) + (-1) ELSE PagingHolds(a)
      BY <1>5, <3>2 DEF In
    <3> HIDE DEF S
    <3>4. QED BY <1>1, <1>4, <3>1, <3>3, PagingByHolds
  <2>3. QED BY <2>1, <2>2
<1>7. render_count' = CountRender(PagingEngine, S, -1) /\ UNCHANGED <<st, allocs, submit_ref_cnt>>
  BY <1>2
<1>8. QED
  <2> HIDE DEF S
  <2>1. QED BY <1>1, <1>4, <1>6, <1>7, CountsPager

\* A task or a client leaves the paging; a task that failed drops its claims.
LEMMA ResidentCounts ==
  ASSUME CountsInv,
         \/ \E t \in Tasks : TaskResident(t)
         \/ \E c \in Clients : ClientResident(c)
  PROVE  CountsAccount'
<1>1. TypeOK /\ CountsAccount /\ PlacesInv /\ PagerOK
  BY DEF CountsInv
<1>2. /\ pg = "set" /\ pg' = "none" /\ coming' = Nowhere
      /\ UNCHANGED <<render_count, allocs, leaving, failed>>
  BY DEF TaskResident, ClientResident, Resident
<1>3. \A a \in Allocs : leaving[a] = NoPlace
  BY <1>1, <1>2 DEF PlacesInv, OnlyPaged, Nowhere
<1>4. \A a \in Allocs : PagingHolds(a)' = PagingHolds(a)
  BY <1>2, <1>3 DEF PagingHolds, Nowhere
<1>5. ASSUME NEW t \in Tasks, TaskResident(t), result # "ok" PROVE CountsAccount'
  <2>1. /\ st[t] = "paging" /\ \E s \in {"retry", "drop"} : st' = [st EXCEPT ![t] = s]
        /\ submit_ref_cnt' = Plus(submit_ref_cnt, allocs[t], -1)
    BY <1>1, <1>5 DEF TaskResident, PagerOK
  <2>2. /\ Claiming(t) /\ ~Claiming(t)'
        /\ \A u \in Tasks : u # t => (Claiming(u)' <=> Claiming(u))
        /\ \A u \in Tasks : InQueue(u)' <=> InQueue(u)
    BY <1>1, <2>1 DEF TypeOK, InQueue, InWorker, Claiming
  <2>3. /\ \A e \in Engines, a \in Allocs : Holders(e, a)' = Holders(e, a)
        /\ \A a \in Allocs :
             Cardinality(ClaimSet(a))' =
               IF a \in allocs[t] THEN Cardinality(ClaimSet(a)) - 1
               ELSE Cardinality(ClaimSet(a))
    BY <1>2, <2>2, HoldersSame, ClaimsLess
  <2>4. submit_ref_cnt \in [Allocs -> Int]
    BY <1>1 DEF TypeOK
  <2>5. \A a \in Allocs :
          submit_ref_cnt'[a] = IF a \in allocs[t] THEN submit_ref_cnt[a] + (-1)
                               ELSE submit_ref_cnt[a]
    BY <2>1, <2>4, PlusIs
  <2>6. \A e \in Engines, a \in Allocs :
          render_count'[e][a] =
            Holders(e, a)' + IF e = PagingEngine THEN PagingHolds(a)' - failed'[a] ELSE 0
    BY <1>1, <1>2, <1>4, <2>3 DEF CountsAccount
  <2>7. ASSUME NEW a \in Allocs PROVE submit_ref_cnt'[a] = Cardinality(ClaimSet(a))'
    BY <1>1, <2>3, <2>5, CountTypes DEF CountsAccount, ClaimSet
  <2>8. QED BY <2>6, <2>7 DEF CountsAccount, ClaimSet
<1>6. CASE UNCHANGED submit_ref_cnt /\ (UNCHANGED st \/ \E t \in Tasks :
             st[t] = "paging" /\ st' = [st EXCEPT ![t] = "ready"])
  <2>1. \A u \in Tasks : (InQueue(u)' <=> InQueue(u)) /\ (Claiming(u)' <=> Claiming(u))
    BY <1>1, <1>6 DEF TypeOK, InQueue, InWorker, Claiming
  <2>2. QED BY <1>1, <1>2, <1>4, <1>6, <2>1, CountsFrame
<1>7. ASSUME NEW t \in Tasks, TaskResident(t), result = "ok" PROVE CountsAccount'
  <2>1. st[t] = "paging" /\ st' = [st EXCEPT ![t] = "ready"] /\ UNCHANGED submit_ref_cnt
    BY <1>1, <1>7 DEF TaskResident, PagerOK
  <2>2. QED BY <1>6, <2>1
<1>8. ASSUME NEW c \in Clients, ClientResident(c) PROVE CountsAccount'
  BY <1>6, <1>8 DEF ClientResident
<1>9. QED BY <1>5, <1>7, <1>8

\* The other steps leave all counts alone.
LEMMA OtherCounts ==
  ASSUME CountsInv,
         \/ \E a \in Allocs : \/ CreateAllocation(a) \/ Unreference(a)
                              \/ DestroyDefer(a) \/ DestroyAllocation(a)
         \/ \E t \in Tasks : LockPaging(t) \/ KickOff(t)
         \/ \E c \in Clients : MarkUnpagable(c) \/ PrepareOne(c) \/ MarkPagable(c)
         \/ \E r \in {"again", "nomem"} : PagingInFails(r)
         \/ NoCandidate
         \/ \E e \in Engines : GpuFinish(e)
         \/ UNCHANGED vars
  PROVE  CountsAccount'
<1>1. TypeOK /\ CountsAccount /\ PlacesInv
  BY DEF CountsInv
<1>2. /\ UNCHANGED <<render_count, submit_ref_cnt, allocs, coming, leaving, failed>>
      /\ UNCHANGED pg \/ (pg \in {"none", "in"} /\ pg' \in {"in", "submit"})
      /\ \/ UNCHANGED st
         \/ \E t \in Tasks : \E s \in {"paging", "hw"} :
              /\ st[t] = (IF s = "paging" THEN "lock" ELSE "patch")
              /\ st' = [st EXCEPT ![t] = s]
  BY <1>1
  DEF CreateAllocation, Unreference, DestroyDefer, DestroyAllocation, LockPaging, KickOff,
      MarkUnpagable, PrepareOne, MarkPagable, PagingInFails, NoCandidate, GpuFinish, vars,
      allocVars, countVars, fenceVars, taskVars, pagerVars, clientVars, PlacesInv, OnlyPaged
<1>3. \A u \in Tasks : (InQueue(u)' <=> InQueue(u)) /\ (Claiming(u)' <=> Claiming(u))
  <2>1. CASE UNCHANGED st
    BY <2>1 DEF InQueue, InWorker, Claiming
  <2>2. ASSUME NEW t \in Tasks, NEW s \in {"paging", "hw"},
               st[t] = (IF s = "paging" THEN "lock" ELSE "patch"),
               st' = [st EXCEPT ![t] = s]
        PROVE  \A u \in Tasks : (InQueue(u)' <=> InQueue(u)) /\ (Claiming(u)' <=> Claiming(u))
    BY <1>1, <2>2 DEF TypeOK, InQueue, InWorker, Claiming
  <2>3. QED BY <1>2, <2>1, <2>2
<1>4. \A a \in Allocs : PagingHolds(a)' = PagingHolds(a)
  <2> TAKE a \in Allocs
  <2>1. (pg' = "set" <=> pg = "set") /\ (pg' = "outwait" <=> pg = "outwait")
    BY <1>2
  <2>2. QED BY <1>2, <2>1 DEF PagingHolds
<1>5. QED BY <1>1, <1>2, <1>3, <1>4, CountsFrame

LEMMA NextCounts == ASSUME CountsInv, [Next]_vars PROVE CountsAccount'
<1>1. ASSUME NEW t \in Tasks, WorkerStep(t) \/ \E S \in SUBSET Allocs : Render(t, S)
      PROVE  CountsAccount'
  BY <1>1, RenderCounts, MarkCounts, SubmitCounts, FakeSubmitCounts, OtherCounts DEF WorkerStep
<1>2. ASSUME PagerStep PROVE CountsAccount'
  <2>1. CASE \E r \in {"again", "nomem"} : PagingInFails(r)
    BY <2>1, OtherCounts
  <2>2. CASE NoCandidate
    BY <2>2, OtherCounts
  <2>3. QED
    BY <1>2, <2>1, <2>2, ResidentOneCounts, UnresidentCounts, PagingOutCounts, LeaveCounts,
       SubmitInCounts, ResidentCounts
    DEF PagerStep
<1>3. ASSUME NEW a \in Allocs,
             \/ CreateAllocation(a) \/ Unreference(a) \/ DestroyDefer(a)
             \/ DestroyAllocation(a)
      PROVE  CountsAccount'
  BY <1>3, OtherCounts
<1>4. ASSUME NEW c \in Clients, MarkUnpagable(c) \/ PrepareOne(c) \/ MarkPagable(c)
      PROVE  CountsAccount'
  BY <1>4, OtherCounts
<1>5. CASE (\E e \in Engines : GpuFinish(e)) \/ UNCHANGED vars
  BY <1>5, OtherCounts
<1>6. QED BY <1>1, <1>2, <1>3, <1>4, <1>5 DEF Next

\* No claim is given back twice: the claims are the number of some tasks.
LEMMA NextClaims ==
  ASSUME CountsInv, [Next]_vars PROVE submit_ref_cnt' \in [Allocs -> Nat]
<1>1. submit_ref_cnt \in [Allocs -> Int]
  BY DEF CountsInv, TypeOK
<1>2. \/ UNCHANGED submit_ref_cnt
      \/ \E t \in Tasks, n \in {1, -1} : submit_ref_cnt' = Plus(submit_ref_cnt, allocs[t], n)
  <2>1. ASSUME PagerStep PROVE <1>2
    BY <2>1 DEF PagerStep, ResidentOne, PagingInFails, Unresident, NoCandidate, PagingOut,
                SubmitOut, ReleaseVideoMemory, SubmitIn, TaskResident, ClientResident, countVars
  <2>2. ASSUME NEW t \in Tasks, WorkerStep(t) \/ \E S \in SUBSET Allocs : Render(t, S)
        PROVE  <1>2
    BY <2>2 DEF WorkerStep, Mark, LockPaging, SubmitDma, DropClaim, KickOff, FakeSubmit,
                Render, countVars
  <2>3. QED
    BY <2>1, <2>2
    DEF Next, CreateAllocation, Unreference, DestroyDefer, DestroyAllocation, MarkUnpagable,
        PrepareOne, MarkPagable, GpuFinish, vars, countVars
<1>3. submit_ref_cnt' \in [Allocs -> Int]
  BY <1>1, <1>2, PlusIs
<1>4. ASSUME NEW a \in Allocs PROVE submit_ref_cnt'[a] \in Nat
  <2>1. ClaimSet(a)' \in SUBSET Tasks
    BY DEF ClaimSet
  <2>2. submit_ref_cnt'[a] = Cardinality(ClaimSet(a)')
    BY NextCounts DEF CountsAccount, ClaimSet
  <2>3. QED BY <2>1, <2>2, CardType
<1>5. QED BY <1>3, <1>4

LEMMA SentType ==
  ASSUME TypeOK, NEW e \in Engines, NEW S, Sent(e, S)
  PROVE  send' \in [Engines -> Nat] /\ fence_id' \in [Engines -> [Allocs -> Nat]]
<1>1. send[e] + 1 \in Nat /\ \A a \in Allocs : fence_id[e][a] \in Nat
  BY DEF TypeOK
<1>2. send' \in [Engines -> Nat]
  BY <1>1 DEF TypeOK, Sent
<1>3. [a \in Allocs |-> IF a \in S THEN send[e] + 1 ELSE fence_id[e][a]] \in [Allocs -> Nat]
  BY <1>1
<1>4. QED BY <1>2, <1>3 DEF TypeOK, Sent

LEMMA SubmitPagingType ==
  ASSUME TypeOK, NEW where, SubmitPaging(where)
  PROVE  /\ send' \in [Engines -> Nat] /\ fence_id' \in [Engines -> [Allocs -> Nat]]
         /\ last_paging' \in [Allocs -> Nat] /\ pgfence' \in Nat
<1>1. Sent(PagingEngine, In(where)) /\ send[PagingEngine] + 1 \in Nat
  BY PagingAssumption DEF SubmitPaging, TypeOK
<1>2. last_paging' \in [Allocs -> Nat] /\ pgfence' \in Nat
  BY <1>1 DEF SubmitPaging, TypeOK
<1>3. QED BY <1>1, <1>2, SentType, PagingAssumption

\* Creation and destruction.
LEMMA AllocTypes ==
  ASSUME TypeOK, NEW a \in Allocs,
         \/ CreateAllocation(a) \/ Unreference(a) \/ DestroyDefer(a) \/ DestroyAllocation(a)
  PROVE  TypeOK'
<1>1. UNCHANGED <<countVars, fenceVars, back, taskVars, pagerVars, clientVars, failed>>
  BY DEF CreateAllocation, Unreference, DestroyDefer, DestroyAllocation
<1>2. life' \in [Allocs -> {"none", "live", "deferred", "freeing", "gone"}]
  BY DEF CreateAllocation, Unreference, DestroyDefer, DestroyAllocation, TypeOK
<1>3. /\ seg' \in [Allocs -> Places \cup {NoPlace}]
      /\ cached' \subseteq Allocs /\ free' \subseteq Places
  BY DEF CreateAllocation, Unreference, DestroyDefer, DestroyAllocation, ReleasedPlace, TypeOK
<1>4. QED
  BY <1>1, <1>2, <1>3
  DEF TypeOK, countVars, fenceVars, taskVars, pagerVars, clientVars

\* A task, from its rendering to its submission.
LEMMA TaskTypes ==
  ASSUME CountsInv, submit_ref_cnt' \in [Allocs -> Nat], NEW t \in Tasks,
         WorkerStep(t) \/ \E S \in SUBSET Allocs : Render(t, S)
  PROVE  TypeOK'
<1>1. TypeOK /\ PagerOK /\ EngineOf[t] \in Engines
  BY PagingAssumption DEF CountsInv
<1>2. ASSUME NEW S \in SUBSET Allocs, Render(t, S) PROVE TypeOK'
  BY <1>1, <1>2, CountRenderIs
  DEF Render, TypeOK, allocVars, fenceVars, pagerVars, clientVars
<1>3. CASE Mark(t)
  <2>1. allocs[t] # {} /\ allocs[t] \in SUBSET Allocs
    BY <1>1, <1>3 DEF Mark, PagerOK, TypeOK
  <2>2. Max({last_paging[a] : a \in allocs[t]}) \in Nat
    BY <1>1, <2>1, SeenIsNat DEF TypeOK
  <2>3. seen' \in [Tasks -> Nat]
    BY <1>1, <1>3, <2>2 DEF Mark, TypeOK
  <2>4. QED
    BY <1>1, <1>3, <2>3 DEF Mark, TypeOK, allocVars, fenceVars, pagerVars, clientVars
<1>4. CASE LockPaging(t)
  BY <1>1, <1>4 DEF LockPaging, TypeOK, allocVars, countVars, fenceVars, clientVars
<1>5. CASE SubmitDma(t)
  <2>1. /\ send' \in [Engines -> Nat] /\ fence_id' \in [Engines -> [Allocs -> Nat]]
        /\ render_count' \in [Engines -> [Allocs -> Int]]
    BY <1>1, <1>5, SentType, CountRenderIs DEF SubmitDma
  <2>2. QED
    BY <1>1, <1>5, <2>1 DEF SubmitDma, TypeOK, allocVars, pagerVars, clientVars
<1>6. CASE KickOff(t)
  BY <1>1, <1>6 DEF KickOff, TypeOK, allocVars, countVars, pagerVars, clientVars
<1>7. CASE FakeSubmit(t)
  <2>1. render_count' \in [Engines -> [Allocs -> Int]]
    BY <1>1, <1>7, CountRenderIs DEF FakeSubmit
  <2>2. QED
    BY <1>1, <1>7, <2>1 DEF FakeSubmit, TypeOK, allocVars, fenceVars, pagerVars, clientVars
<1>8. QED BY <1>2, <1>3, <1>4, <1>5, <1>6, <1>7 DEF WorkerStep

\* A client's pin.
LEMMA ClientTypes ==
  ASSUME TypeOK, NEW c \in Clients, MarkUnpagable(c) \/ PrepareOne(c) \/ MarkPagable(c)
  PROVE  TypeOK'
<1>1. PinOf[c] \in Allocs /\ \A n \in Nat : n % PinModulus \in Nat
  BY PagingAssumption
<1>2. force_unpagable[PinOf[c]] + 1 \in Nat /\ force_unpagable[PinOf[c]] + PinModulus - 1 \in Nat
  BY <1>1, PagingAssumption DEF TypeOK
<1>3. force_unpagable' \in [Allocs -> Nat]
  BY <1>1, <1>2 DEF MarkUnpagable, PrepareOne, MarkPagable, TypeOK
<1>4. client' \in [Clients -> {"idle", "lock", "prepare", "pinned", "done"}]
  BY DEF MarkUnpagable, PrepareOne, MarkPagable, TypeOK
<1>5. /\ UNCHANGED <<allocVars, countVars, fenceVars, back, taskVars, coming, leaving, failed>>
      /\ \/ UNCHANGED <<pager, pg, todo, result, pgfence>>
         \/ pager' = c /\ pg' = "in" /\ todo' = {PinOf[c]} /\ result' = "ok" /\ pgfence' = 0
  BY DEF MarkUnpagable, PrepareOne, MarkPagable, pagerVars
<1>6. QED
  BY <1>1, <1>3, <1>4, <1>5 DEF TypeOK, allocVars, countVars, fenceVars, taskVars

\* The holder of paging_lock, and the GPU.
LEMMA PagerTypes ==
  ASSUME CountsInv, submit_ref_cnt' \in [Allocs -> Nat], PagerStep
  PROVE  TypeOK'
<1>1. TypeOK /\ PagingEngine \in Engines
  BY PagingAssumption DEF CountsInv
<1>2. ASSUME NEW a \in Allocs, NEW p \in Places, ResidentOne(a, p) PROVE TypeOK'
  <2>1. render_count' \in [Engines -> [Allocs -> Int]]
    BY <1>1, <1>2, CountRenderIs DEF ResidentOne
  <2>2. QED BY <1>1, <1>2, <2>1 DEF ResidentOne, TypeOK, fenceVars, taskVars, clientVars
<1>3. ASSUME NEW r \in {"again", "nomem"}, PagingInFails(r) \/ NoCandidate PROVE TypeOK'
  BY <1>1, <1>3
  DEF PagingInFails, NoCandidate, TypeOK, allocVars, countVars, fenceVars, taskVars, clientVars
<1>4. ASSUME NEW S \in SUBSET Allocs, Unresident(S) PROVE TypeOK'
  <2>1. render_count' \in [Engines -> [Allocs -> Int]]
    BY <1>1, <1>4, CountRenderIs DEF Unresident
  <2>2. QED BY <1>1, <1>4, <2>1 DEF Unresident, TypeOK, fenceVars, taskVars, clientVars
<1>5. ASSUME NEW F \in SUBSET Allocs, PagingOut(F) PROVE TypeOK'
  <2>1. render_count' \in [Engines -> [Allocs -> Int]]
    BY <1>1, <1>5, CountRenderIs DEF PagingOut, RestoreCount
  <2>2. result' \in {"ok", "again", "nomem"} /\ pg' \in {"outsub", "submit"}
    BY <1>1, <1>5 DEF PagingOut, TypeOK
  <2>3. QED BY <1>1, <1>5, <2>1, <2>2 DEF PagingOut, TypeOK, fenceVars, taskVars, clientVars
<1>6. CASE SubmitOut
  <2>1. render_count' \in [Engines -> [Allocs -> Int]]
    BY <1>1, <1>6, CountRenderIs DEF SubmitOut
  <2>2. QED
    BY <1>1, <1>6, <2>1, SubmitPagingType
    DEF SubmitOut, TypeOK, allocVars, taskVars, clientVars
<1>7. CASE ReleaseVideoMemory
  <2>1. render_count' \in [Engines -> [Allocs -> Int]]
    BY <1>1, <1>7, CountRenderIs DEF ReleaseVideoMemory
  <2>2. free' \subseteq Places /\ cached' \subseteq Allocs
    BY <1>1, <1>7 DEF ReleaseVideoMemory, In, TypeOK
  <2>3. QED
    BY <1>1, <1>7, <2>1, <2>2
    DEF ReleaseVideoMemory, Nowhere, TypeOK, fenceVars, taskVars, clientVars
<1>8. CASE SubmitIn
  <2>1. render_count' \in [Engines -> [Allocs -> Int]]
    BY <1>1, <1>8, CountRenderIs DEF SubmitIn
  <2>2. /\ send' \in [Engines -> Nat] /\ fence_id' \in [Engines -> [Allocs -> Nat]]
        /\ last_paging' \in [Allocs -> Nat] /\ pgfence' \in Nat
    BY <1>1, <1>8, SubmitPagingType DEF SubmitIn, TypeOK, fenceVars
  <2>3. failed' \in [Allocs -> Nat]
    <3>1. CASE pager \in Clients /\ In(coming) = {}
      <4>1. PinOf[pager] \in Allocs /\ failed' = [failed EXCEPT ![PinOf[pager]] = @ + 1]
        BY <1>8, <3>1, PagingAssumption DEF SubmitIn
      <4>2. QED BY <1>1, <4>1 DEF TypeOK
    <3>2. CASE ~(pager \in Clients /\ In(coming) = {})
      BY <1>1, <1>8, <3>2 DEF SubmitIn, TypeOK
    <3>3. QED BY <3>1, <3>2
  <2>4. QED
    BY <1>1, <1>8, <2>1, <2>2, <2>3 DEF SubmitIn, TypeOK, allocVars, taskVars, clientVars
<1>9. ASSUME Resident,
             UNCHANGED client \/ \E c \in Clients : client' = [client EXCEPT ![c] = "pinned"],
             UNCHANGED st \/ \E t \in Tasks, s \in {"ready", "retry", "drop"} :
                                 st' = [st EXCEPT ![t] = s],
             tries' \in [Tasks -> 0..MaxTries], seen' \in [Tasks -> Nat]
      PROVE  TypeOK'
  <2>1. /\ seg' \in [Allocs -> Places \cup {NoPlace}]
        /\ coming' \in [Allocs -> Places \cup {NoPlace}]
    BY <1>1, <1>9 DEF Resident, Nowhere, TypeOK
  <2>2. client' \in [Clients -> {"idle", "lock", "prepare", "pinned", "done"}]
    BY <1>1, <1>9 DEF TypeOK
  <2>3. st' \in [Tasks -> {"new", "pending", "retry", "lock", "paging", "ready", "patch",
                           "hw", "drop", "dropped"}]
    BY <1>1, <1>9 DEF TypeOK
  <2>4. QED BY <1>1, <1>9, <2>1, <2>2, <2>3 DEF Resident, TypeOK, fenceVars
<1>10. ASSUME NEW t \in Tasks, TaskResident(t) PROVE TypeOK'
  <2>1. tries' \in [Tasks -> 0..MaxTries] /\ seen' \in [Tasks -> Nat]
    <3>1. seen' \in [Tasks -> Nat]
      BY <1>1, <1>10 DEF TaskResident, TypeOK
    <3>2. CASE UNCHANGED tries
      BY <1>1, <3>1, <3>2 DEF TypeOK
    <3>3. CASE tries[t] < MaxTries /\ tries' = [tries EXCEPT ![t] = @ + 1]
      <4>1. tries[t] + 1 \in 0..MaxTries
        BY <1>1, <3>3, PagingAssumption DEF TypeOK
      <4>2. QED BY <1>1, <3>1, <3>3, <4>1 DEF TypeOK
    <3>4. QED BY <1>10, <3>2, <3>3 DEF TaskResident
  <2>2. \E s \in {"ready", "retry", "drop"} : st' = [st EXCEPT ![t] = s]
    BY <1>10 DEF TaskResident
  <2>3. QED BY <1>9, <1>10, <2>1, <2>2 DEF TaskResident
<1>11. ASSUME NEW c \in Clients, ClientResident(c) PROVE TypeOK'
  BY <1>1, <1>9, <1>11 DEF ClientResident, TypeOK
<1>12. QED
  BY <1>2, <1>3, <1>4, <1>5, <1>6, <1>7, <1>8, <1>10, <1>11 DEF PagerStep

LEMMA NextTypes == ASSUME CountsInv, [Next]_vars PROVE TypeOK'
<1>1. TypeOK /\ submit_ref_cnt' \in [Allocs -> Nat]
  BY NextClaims DEF CountsInv
<1>2. ASSUME NEW e \in Engines, GpuFinish(e) PROVE TypeOK'
  BY <1>1, <1>2
  DEF GpuFinish, TypeOK, allocVars, countVars, taskVars, pagerVars, clientVars
<1>3. CASE UNCHANGED vars
  BY <1>1, <1>3
  DEF vars, TypeOK, allocVars, countVars, fenceVars, taskVars, pagerVars, clientVars
<1>4. QED
  BY <1>1, <1>2, <1>3, AllocTypes, TaskTypes, ClientTypes, PagerTypes DEF Next

\* Steps of tasks and clients that do not hold paging_lock.
LEMMA PagerFrame ==
  ASSUME PagerOK, UNCHANGED <<pager, pg, todo, coming, result, failed>>,
         \A t \in Tasks :
           /\ st'[t] = "paging" <=> st[t] = "paging"
           /\ st[t] = "paging" => allocs'[t] = allocs[t]
           /\ st'[t] # "new" => allocs'[t] # {},
         \A c \in Clients : client'[c] = "prepare" <=> client[c] = "prepare"
  PROVE  PagerOK'
  BY DEF PagerOK, In

LEMMA TaskPager ==
  ASSUME CountsInv, NEW t \in Tasks,
         WorkerStep(t) \/ \E S \in SUBSET Allocs : Render(t, S)
  PROVE  PagerOK'
<1>1. TypeOK /\ PagerOK /\ PlacesInv
  BY DEF CountsInv
<1>2. CASE LockPaging(t)
  <2>1. /\ st[t] = "lock" /\ pager = Nobody /\ pager' = t /\ st' = [st EXCEPT ![t] = "paging"]
        /\ pg' = "in" /\ todo' = {a \in allocs[t] : seg[a] = NoPlace}
        /\ UNCHANGED <<allocs, coming, client>>
    BY <1>2 DEF LockPaging, clientVars
  <2>2. In(coming)' = {} /\ t \notin Clients
    BY <1>1, <2>1, PagingAssumption DEF PlacesInv, OnlyPaged, In, Nowhere
  <2>3. \A u \in Tasks : /\ st'[u] = "paging" <=> u = t
                         /\ st[u] # "new" => allocs[u] # {}
                         /\ st'[u] # "new" => st[u] # "new"
    BY <1>1, <2>1, PagingAssumption DEF PagerOK, TypeOK
  <2>4. \A c \in Clients : client[c] # "prepare"
    BY <1>1, <2>1, PagingAssumption DEF PagerOK
  <2>5. QED BY <2>1, <2>2, <2>3, <2>4 DEF PagerOK
<1>3. ASSUME NEW S \in SUBSET Allocs,
             Render(t, S) \/ Mark(t) \/ SubmitDma(t) \/ KickOff(t) \/ FakeSubmit(t)
      PROVE  PagerOK'
  <2>1. /\ UNCHANGED <<pager, pg, todo, coming, result, failed, client>>
        /\ st[t] # "paging"
        /\ \E s \in {"pending", "lock", "ready", "patch", "hw", "dropped"} :
             st' = [st EXCEPT ![t] = s]
        /\ \/ UNCHANGED allocs /\ st[t] # "new"
           \/ S # {} /\ allocs' = [allocs EXCEPT ![t] = S]
    BY <1>3 DEF Render, Mark, SubmitDma, KickOff, FakeSubmit, pagerVars, clientVars
  <2>2. \A u \in Tasks :
           /\ st'[u] = "paging" <=> st[u] = "paging"
           /\ st[u] = "paging" => allocs'[u] = allocs[u]
           /\ st'[u] # "new" => allocs'[u] # {}
    BY <1>1, <1>3, <2>1 DEF TypeOK, PagerOK, Render, Mark, SubmitDma, KickOff, FakeSubmit
  <2>3. QED BY <1>1, <2>1, <2>2, PagerFrame
<1>4. QED BY <1>2, <1>3 DEF WorkerStep

LEMMA ClientPager ==
  ASSUME CountsInv, NEW c \in Clients, MarkUnpagable(c) \/ PrepareOne(c) \/ MarkPagable(c)
  PROVE  PagerOK'
<1>1. TypeOK /\ PagerOK /\ PlacesInv
  BY DEF CountsInv
<1>2. CASE client'[c] # "prepare"
  <2>1. /\ UNCHANGED <<pager, pg, todo, coming, result, failed, st, allocs>>
        /\ client[c] # "prepare"
        /\ \A d \in Clients : d # c => client'[d] = client[d]
    BY <1>1, <1>2 DEF MarkUnpagable, PrepareOne, MarkPagable, pagerVars, taskVars, TypeOK
  <2>2. \A d \in Clients : client'[d] = "prepare" <=> client[d] = "prepare"
    BY <1>2, <2>1
  <2>3. \A t \in Tasks : st[t] # "new" => allocs[t] # {}
    BY <1>1 DEF PagerOK
  <2>4. QED BY <1>1, <2>1, <2>2, <2>3, PagerFrame
<1>3. CASE client'[c] = "prepare"
  <2>1. /\ pager = Nobody /\ pager' = c /\ pg' = "in" /\ todo' = {PinOf[c]}
        /\ client' = [client EXCEPT ![c] = "prepare"]
        /\ UNCHANGED <<coming, st, allocs>>
    BY <1>1, <1>3 DEF MarkUnpagable, PrepareOne, MarkPagable, taskVars, TypeOK
  <2>2. In(coming)' = {} /\ c \notin Tasks
    BY <1>1, <2>1, PagingAssumption DEF PlacesInv, OnlyPaged, In, Nowhere
  <2>3. \A d \in Clients : client'[d] = "prepare" <=> d = c
    BY <1>1, <2>1, PagingAssumption DEF PagerOK, TypeOK
  <2>4. \A t \in Tasks : st[t] # "paging" /\ (st[t] # "new" => allocs[t] # {})
    BY <1>1, <2>1, PagingAssumption DEF PagerOK
  <2>5. QED BY <2>1, <2>2, <2>3, <2>4 DEF PagerOK
<1>4. QED BY <1>2, <1>3

LEMMA StepPager == ASSUME CountsInv, PagerStep PROVE PagerOK'
<1>1. TypeOK /\ PagerOK /\ PlacesInv
  BY DEF CountsInv
<1>2. ASSUME NEW a \in Allocs, NEW p \in Places, ResidentOne(a, p) PROVE PagerOK'
  <2>1. /\ pg = "in" /\ a \in todo /\ coming' = [coming EXCEPT ![a] = p] /\ todo' = todo \ {a}
        /\ UNCHANGED <<pg, pager, result, st, allocs, client, failed>>
    BY <1>2 DEF ResidentOne, taskVars, clientVars
  <2>2. todo' \cup In(coming)' \subseteq todo \cup In(coming)
    BY <1>1, <2>1 DEF In, TypeOK
  <2>3. QED BY <1>1, <2>1, <2>2 DEF PagerOK
<1>3. CASE \/ \E r \in {"again", "nomem"} : PagingInFails(r)
           \/ \E S \in SUBSET Allocs : Unresident(S) \/ PagingOut(S)
           \/ NoCandidate \/ SubmitOut \/ ReleaseVideoMemory
  <2>1. /\ UNCHANGED <<pager, todo, coming, st, allocs, client, failed>>
        /\ pg' # "set" /\ (pg' = "submit" => result' # "ok")
    BY <1>3
    DEF PagingInFails, Unresident, PagingOut, NoCandidate, SubmitOut, ReleaseVideoMemory,
        taskVars, clientVars
  <2>2. In(coming)' = In(coming)
    BY <2>1 DEF In
  <2>3. QED BY <1>1, <2>1, <2>2 DEF PagerOK
<1>4. CASE SubmitIn
  <2>1. /\ pg = "submit" \/ todo = {}
        /\ failed' = IF pager \in Clients /\ In(coming) = {}
               THEN [failed EXCEPT ![PinOf[pager]] = @ + 1] ELSE failed
        /\ UNCHANGED <<pager, todo, coming, result, st, allocs, client>>
    BY <1>4 DEF SubmitIn, taskVars, clientVars
  <2>2. In(coming)' = In(coming)
    BY <2>1 DEF In
  <2>3. pager \in Clients /\ In(coming) = {} => failed'[PinOf[pager]] > 0
    BY <1>1, <2>1, PagingAssumption DEF TypeOK
  <2>4. pg' = "set" /\ (pg = "submit" => result # "ok")
    BY <1>1, <1>4 DEF SubmitIn, PagerOK
  <2>5. QED BY <1>1, <2>1, <2>2, <2>3, <2>4 DEF PagerOK
<1>5. CASE (\E t \in Tasks : TaskResident(t)) \/ \E c \in Clients : ClientResident(c)
  <2>1. /\ pager' = Nobody /\ pg' = "none" /\ UNCHANGED allocs
        /\ Nobody \notin Tasks /\ Nobody \notin Clients
    BY <1>5, PagingAssumption DEF TaskResident, ClientResident, Resident
  <2>2. \A t \in Tasks : /\ st'[t] # "paging"
                         /\ st'[t] # "new" => st[t] # "new"
    BY <1>1, <1>5, PagingAssumption DEF TaskResident, ClientResident, PagerOK, TypeOK
  <2>3. \A c \in Clients : client'[c] # "prepare"
    BY <1>1, <1>5, PagingAssumption DEF TaskResident, ClientResident, PagerOK, TypeOK
  <2>4. QED BY <1>1, <2>1, <2>2, <2>3 DEF PagerOK
<1>6. QED BY <1>2, <1>3, <1>4, <1>5 DEF PagerStep

LEMMA NextPager == ASSUME CountsInv, [Next]_vars PROVE PagerOK'
<1>1. TypeOK /\ PagerOK
  BY DEF CountsInv
<1>2. \A t \in Tasks : st[t] # "new" => allocs[t] # {}
  BY <1>1 DEF PagerOK
<1>3. ASSUME NEW a \in Allocs,
             \/ CreateAllocation(a) \/ Unreference(a) \/ DestroyDefer(a)
             \/ DestroyAllocation(a)
      PROVE  PagerOK'
  BY <1>1, <1>2, <1>3, PagerFrame
  DEF CreateAllocation, Unreference, DestroyDefer, DestroyAllocation, taskVars, pagerVars,
      clientVars
<1>4. CASE (\E e \in Engines : GpuFinish(e)) \/ UNCHANGED vars
  BY <1>1, <1>2, <1>4, PagerFrame DEF GpuFinish, vars, taskVars, pagerVars, clientVars
<1>5. QED BY <1>3, <1>4, TaskPager, ClientPager, StepPager DEF Next

LEMMA InitCounts == ASSUME Init PROVE CountsInv
<1>1. TypeOK
  BY PagingAssumption DEF Init, TypeOK, Nowhere, Zero
<1>2. PagerOK
  BY PagingAssumption DEF Init, PagerOK, In, Nowhere
<1>3. CountsAccount
  <2>1. \A e \in Engines, a \in Allocs : HoldSet(e, a) = {} /\ ClaimSet(a) = {}
    BY DEF Init, HoldSet, ClaimSet, InQueue, InWorker
  <2>2. \A e \in Engines, a \in Allocs : Holders(e, a) = 0
    BY <2>1, CardType DEF Holders, HoldSet
  <2>3. \A a \in Allocs : Cardinality(ClaimSet(a)) = 0
    BY <2>1, CardType, PagingAssumption
  <2>4. \A a \in Allocs : PagingHolds(a) = 0
    BY DEF Init, PagingHolds, Nowhere
  <2>5. QED BY <2>2, <2>3, <2>4, PagingAssumption DEF Init, Zero, CountsAccount, ClaimSet
<1>4. QED BY <1>1, <1>2, <1>3, InitPlaces DEF CountsInv

LEMMA NextCountsInv == CountsInv /\ [Next]_vars => CountsInv'
  BY NextTypes, NextPlaces, NextPager, NextCounts DEF CountsInv

\* The variables of paging keep their types: in particular no claim of a
\* submission is given back twice.
THEOREM PagingTypes == Spec => []TypeOK
<1>1. CountsInv => TypeOK
  BY DEF CountsInv
<1>2. QED BY <1>1, InitCounts, NextCountsInv, PTL DEF Spec

\* Every path through paging, its failures and its retries gives back the
\* references and claims it took, for any number of tasks and engines.
THEOREM CountsCorrect == Spec => []CountsAccount
<1>1. CountsInv => CountsAccount
  BY DEF CountsInv
<1>2. QED BY <1>1, InitCounts, NextCountsInv, PTL DEF Spec

-----------------------------------------------------------------------------
(* What is needed stays alive, and what the GPU was given stays in place.  *)

\* What a job uses or a task has a fence for is in the hardware queue.
LEMMA JobBusy ==
  ASSUME TypeOK, JobsOK, NEW j \in jobs, NEW a \in In(j.uses) PROVE InHwQueue(a)
<1>1. /\ j.engine \in Engines /\ j.fence \in Nat /\ a \in Allocs
      /\ back[j.engine] < j.fence /\ j.fence <= fence_id[j.engine][a]
  BY DEF JobsOK, JobType, JobOK, In
<1>2. back[j.engine] \in Nat /\ fence_id[j.engine][a] \in Nat
  BY <1>1 DEF TypeOK
<1>3. QED BY <1>1, <1>2 DEF InHwQueue, Back

LEMMA PatchBusy ==
  ASSUME TypeOK, FencesOK, NEW t \in Tasks, st[t] = "patch", NEW a \in allocs[t]
  PROVE  InHwQueue(a)
<1>1. EngineOf[t] \in Engines /\ a \in Allocs
  BY PagingAssumption DEF TypeOK
<1>2. back[EngineOf[t]] \in Nat /\ send[EngineOf[t]] \in Nat
  BY <1>1 DEF TypeOK
<1>3. back[EngineOf[t]] < fence_id[EngineOf[t]][a]
  BY <1>1, <1>2 DEF FencesOK
<1>4. QED BY <1>1, <1>2, <1>3 DEF InHwQueue, Back, TypeOK

\* What the holder of paging_lock works on is needed by itself: it is in the
\* queue, or it pins the allocation.
LEMMA PagerNeeds ==
  ASSUME CountsInv, pg # "none", NEW a \in todo \cup In(coming)
  PROVE  \/ \E t \in Tasks : InQueue(t) /\ a \in allocs[t]
         \/ Pinning(a) # {}
<1>1. pager \in Tasks \cup Clients
  BY DEF CountsInv, TypeOK, PlacesInv, OnlyPaged
<1>2. CASE pager \in Tasks
  BY <1>2 DEF CountsInv, PagerOK, InQueue, InWorker
<1>3. CASE pager \in Clients
  <2>1. PinOf[pager] = a /\ client[pager] = "prepare"
    BY <1>3 DEF CountsInv, PagerOK
  <2>2. QED BY <1>3, <2>1 DEF Pinning
<1>4. QED BY <1>1, <1>2, <1>3

\* An idle allocation that nobody pins is not needed.
LEMMA IdleFree ==
  ASSUME CountsInv, NEW a \in Allocs, Idle(a), Pinning(a) = {}, failed[a] = 0
  PROVE  ~Needed(a)
<1>1. TypeOK /\ CountsAccount /\ PlacesInv /\ PagingEngine \in Engines
  BY PagingAssumption DEF CountsInv
<1>2. \A e \in Engines : render_count[e][a] = 0
  BY DEF Idle
<1>3. PagingHolds(a) = 0 /\ \A e \in Engines : Holders(e, a) = 0
  <2>1. PagingHolds(a) = 0 /\ Holders(PagingEngine, a) = 0
    <3>1. 0 = Holders(PagingEngine, a) + (PagingHolds(a) - 0)
      BY <1>1, <1>2 DEF CountsAccount
    <3>2. QED BY <1>1, <3>1, CountTypes
  <2>2. ASSUME NEW e \in Engines, e # PagingEngine PROVE Holders(e, a) = 0
    <3>1. 0 = Holders(e, a) + 0
      BY <1>1, <1>2, <2>2 DEF CountsAccount
    <3>2. QED BY <3>1, CountTypes
  <2>3. QED BY <2>1, <2>2
<1>4. ASSUME NEW t \in Tasks PROVE ~(InQueue(t) /\ a \in allocs[t])
  <2>1. HoldSet(EngineOf[t], a) \in SUBSET Tasks /\ EngineOf[t] \in Engines
    BY PagingAssumption DEF HoldSet
  <2>2. HoldSet(EngineOf[t], a) = {}
    BY <1>3, <2>1, CardType DEF Holders, HoldSet
  <2>3. QED BY <2>2 DEF HoldSet
<1>5. leaving[a] = NoPlace
  <2>1. SUFFICES ASSUME leaving[a] # NoPlace PROVE PagingHolds(a) # 0
    BY <1>3
  <2>2. QED BY <2>1 DEF PagingHolds
<1>6. coming[a] = NoPlace
  <2>1. SUFFICES ASSUME coming[a] # NoPlace PROVE FALSE
    OBVIOUS
  <2>2. pg # "none"
    BY <1>1, <2>1 DEF PlacesInv, OnlyPaged, Nowhere
  <2>3. QED BY <1>4, <2>1, <2>2, PagerNeeds DEF In
<1>7. QED BY <1>4, <1>5, <1>6 DEF Needed

\* Allocations are created and lose their last reference; only what is not needed
\* is destroyed.
LEMMA LifeAlive ==
  ASSUME CountsInv, AliveOK, NEW a \in Allocs,
         \/ CreateAllocation(a) \/ Unreference(a) \/ DestroyDefer(a) \/ DestroyAllocation(a)
  PROVE  AliveOK'
<1>1. TypeOK /\ UNCHANGED <<coming, leaving, st, allocs, client, failed, fence_id, back>>
  BY DEF CreateAllocation, Unreference, DestroyDefer, DestroyAllocation, CountsInv, fenceVars,
         taskVars, pagerVars, clientVars
<1>2. \A b \in Allocs : /\ Pinning(b)' = Pinning(b)
                        /\ Needed(b)' <=> Needed(b)
                        /\ InHwQueue(b)' <=> InHwQueue(b)
  BY <1>1 DEF Pinning, Needed, InQueue, InWorker, InHwQueue, Back
<1>3. /\ \A b \in Allocs : b # a => life'[b] = life[b]
      /\ life'[a] \in {"live", "deferred", "freeing", "gone"}
  BY <1>1 DEF CreateAllocation, Unreference, DestroyDefer, DestroyAllocation, TypeOK
<1>4. Pinning(a) # {} => life'[a] = "live"
  BY <1>1 DEF CreateAllocation, Unreference, DestroyDefer, DestroyAllocation, TypeOK, AliveOK
<1>5. ASSUME Needed(a) \/ InHwQueue(a), failed[a] = 0
      PROVE  life'[a] \in {"live", "deferred"}
  <2>1. CASE CreateAllocation(a)
    BY <1>1, <2>1 DEF CreateAllocation, TypeOK
  <2>2. CASE Unreference(a)
    <3>1. ~CanDestroy(a)
      BY <1>5, <2>2, IdleFree DEF Unreference, CanDestroy, Idle
    <3>2. QED BY <1>1, <2>2, <3>1 DEF Unreference, TypeOK
  <2>3. CASE DestroyDefer(a)
    <3>1. Pinning(a) = {} /\ Idle(a)
      BY <2>3 DEF DestroyDefer, CanDestroy, AliveOK
    <3>2. QED BY <1>5, <3>1, IdleFree DEF Idle
  <2>4. CASE DestroyAllocation(a)
    BY <1>5, <2>4 DEF DestroyAllocation, AliveOK
  <2>5. QED BY <2>1, <2>2, <2>3, <2>4
<1>6. QED BY <1>1, <1>2, <1>3, <1>4, <1>5 DEF AliveOK

\* Other steps only need what was needed, in the hardware queue or live before.
LEMMA AliveFrame ==
  ASSUME AliveOK, UNCHANGED life,
         \A a \in Allocs :
           /\ Pinning(a)' # {} => Pinning(a) # {} \/ life[a] = "live"
           /\ failed'[a] = 0 => failed[a] = 0
           /\ Needed(a)' \/ InHwQueue(a)' => Needed(a) \/ InHwQueue(a) \/ life[a] = "live"
  PROVE  AliveOK'
<1>1. ASSUME NEW a \in Allocs, Pinning(a)' # {} PROVE life'[a] = "live"
  BY <1>1 DEF AliveOK
<1>2. ASSUME NEW a \in Allocs, Needed(a)' \/ InHwQueue(a)', failed'[a] = 0
      PROVE  life'[a] \in {"live", "deferred"}
  <2>1. failed[a] = 0 /\ (Needed(a) \/ InHwQueue(a) \/ life[a] = "live")
    BY <1>2
  <2>2. QED BY <2>1 DEF AliveOK
<1>3. QED BY <1>1, <1>2 DEF AliveOK

\* What is sent is in the hardware queue; nothing else enters it.
LEMMA SentBusy ==
  ASSUME TypeOK, NEW e \in Engines, NEW S, Sent(e, S), UNCHANGED back
  PROVE  \A a \in Allocs : InHwQueue(a)' => InHwQueue(a) \/ a \in S
<1> SUFFICES ASSUME NEW a \in Allocs, InHwQueue(a)', a \notin S PROVE InHwQueue(a)
  OBVIOUS
<1>1. \A f \in Engines : fence_id'[f][a] = fence_id[f][a]
  BY DEF Sent, TypeOK
<1>2. QED BY <1>1 DEF InHwQueue, Back

LEMMA TaskAlive ==
  ASSUME CountsInv, AliveOK, NEW t \in Tasks,
         WorkerStep(t) \/ \E S \in SUBSET Allocs : Render(t, S)
  PROVE  AliveOK'
<1>1. TypeOK /\ EngineOf[t] \in Engines /\ UNCHANGED <<life, coming, leaving, client, failed>>
  BY PagingAssumption
  DEF CountsInv, WorkerStep, Render, Mark, LockPaging, SubmitDma, KickOff, FakeSubmit,
      allocVars, pagerVars, clientVars
<1>2. \A a \in Allocs : Pinning(a)' = Pinning(a)
  BY <1>1 DEF Pinning
<1>3. ASSUME NEW S \in SUBSET Allocs, Render(t, S) PROVE AliveOK'
  <2>1. \A a \in S : life[a] = "live"
    BY <1>3 DEF Render
  <2>2. \A u \in Tasks, a \in Allocs :
          InQueue(u)' /\ a \in allocs'[u] => (InQueue(u) /\ a \in allocs[u]) \/ a \in S
    BY <1>1, <1>3 DEF Render, TypeOK, InQueue, InWorker
  <2>3. \A a \in Allocs : Needed(a)' => Needed(a) \/ a \in S
    BY <1>1, <1>2, <2>2 DEF Needed
  <2>4. \A a \in Allocs : InHwQueue(a)' <=> InHwQueue(a)
    BY <1>3 DEF Render, InHwQueue, Back, fenceVars
  <2>5. QED BY <1>1, <1>2, <2>1, <2>3, <2>4, AliveFrame
<1>4. ASSUME WorkerStep(t) PROVE AliveOK'
  <2>1. /\ UNCHANGED allocs
        /\ \A u \in Tasks : InQueue(u)' => InQueue(u)
    BY <1>1, <1>4
    DEF WorkerStep, Mark, LockPaging, SubmitDma, KickOff, FakeSubmit, TypeOK, InQueue, InWorker
  <2>2. \A a \in Allocs : Needed(a)' => Needed(a)
    BY <1>1, <1>2, <2>1 DEF Needed
  <2>3. \A a \in Allocs : InHwQueue(a)' => InHwQueue(a) \/ Needed(a)
    <3>1. CASE UNCHANGED <<fence_id, back>>
      BY <3>1 DEF InHwQueue, Back
    <3>2. CASE SubmitDma(t)
      <4>1. Sent(EngineOf[t], allocs[t]) /\ InQueue(t) /\ UNCHANGED back
        BY <3>2 DEF SubmitDma, InQueue, InWorker
      <4>2. \A a \in allocs[t] : Needed(a)
        BY <4>1 DEF Needed
      <4>3. QED BY <1>1, <4>1, <4>2, SentBusy
    <3>3. QED
      BY <1>4, <3>1, <3>2 DEF WorkerStep, Mark, LockPaging, KickOff, FakeSubmit, fenceVars
  <2>4. QED BY <1>1, <1>2, <2>2, <2>3, AliveFrame
<1>5. QED BY <1>3, <1>4

LEMMA ClientAlive ==
  ASSUME CountsInv, AliveOK, NEW c \in Clients,
         MarkUnpagable(c) \/ PrepareOne(c) \/ MarkPagable(c)
  PROVE  AliveOK'
<1>1. /\ TypeOK
      /\ UNCHANGED <<life, st, allocs, coming, leaving, failed, fence_id, back>>
  BY DEF CountsInv, MarkUnpagable, PrepareOne, MarkPagable, allocVars, taskVars, fenceVars,
         pagerVars
<1>2. \A d \in Clients :
        client'[d] \in {"lock", "prepare", "pinned"}
          => client[d] \in {"lock", "prepare", "pinned"} \/ life[PinOf[d]] = "live"
  BY <1>1 DEF MarkUnpagable, PrepareOne, MarkPagable, TypeOK
<1>3. \A a \in Allocs : Pinning(a)' # {} => Pinning(a) # {} \/ life[a] = "live"
  BY <1>2 DEF Pinning
<1>4. \A a \in Allocs : /\ Needed(a)' => Needed(a) \/ life[a] = "live"
                        /\ InHwQueue(a)' => InHwQueue(a)
  BY <1>1, <1>3 DEF Needed, InQueue, InWorker, InHwQueue, Back
<1>5. QED BY <1>1, <1>3, <1>4, AliveFrame

\* A copy is sent of allocations that are needed.
LEMMA SubmitPagingAlive ==
  ASSUME TypeOK, AliveOK, NEW where, SubmitPaging(where), In(where) \subseteq Allocs,
         UNCHANGED <<life, st, allocs, client, coming, leaving, back>>,
         \A a \in In(where) : Needed(a),
         \A a \in Allocs : failed'[a] = 0 => failed[a] = 0
  PROVE  AliveOK'
<1>1. \A a \in Allocs : Pinning(a)' = Pinning(a) /\ (Needed(a)' <=> Needed(a))
  BY DEF Pinning, Needed, InQueue, InWorker
<1>2. \A a \in Allocs : InHwQueue(a)' => InHwQueue(a) \/ Needed(a)
  BY SentBusy, PagingAssumption DEF SubmitPaging
<1>3. QED BY <1>1, <1>2, AliveFrame

LEMMA PagerAlive ==
  ASSUME CountsInv, AliveOK, PagerStep PROVE AliveOK'
<1>1. TypeOK
  BY DEF CountsInv
<1>2. ASSUME NEW a \in Allocs, NEW p \in Places, ResidentOne(a, p) PROVE AliveOK'
  <2>1. /\ pg = "in" /\ a \in todo /\ coming' = [coming EXCEPT ![a] = p]
        /\ UNCHANGED <<life, leaving, st, allocs, client, failed, fence_id, back>>
    BY <1>2 DEF ResidentOne, taskVars, clientVars, fenceVars
  <2>2. \A b \in Allocs : Pinning(b)' = Pinning(b) /\ (InHwQueue(b)' <=> InHwQueue(b))
    BY <2>1 DEF Pinning, InHwQueue, Back
  <2>3. Needed(a)
    BY <2>1, PagerNeeds DEF Needed
  <2>4. \A b \in Allocs : Needed(b)' => Needed(b)
    BY <1>1, <2>1, <2>2, <2>3 DEF Needed, InQueue, InWorker, TypeOK
  <2>5. QED BY <2>1, <2>2, <2>4, AliveFrame
<1>3. ASSUME NEW S \in SUBSET Allocs, Unresident(S) PROVE AliveOK'
  <2>1. /\ leaving' = [a \in Allocs |-> IF a \in S THEN seg[a] ELSE NoPlace]
        /\ \A a \in S : life[a] = "live"
        /\ UNCHANGED <<life, coming, st, allocs, client, failed, fence_id, back>>
    BY <1>3 DEF Unresident, CanPageOut, taskVars, clientVars, fenceVars
  <2>2. \A b \in Allocs : Pinning(b)' = Pinning(b) /\ (InHwQueue(b)' <=> InHwQueue(b))
    BY <2>1 DEF Pinning, InHwQueue, Back
  <2>3. \A b \in Allocs : Needed(b)' => Needed(b) \/ life[b] = "live"
    BY <2>1, <2>2 DEF Needed, InQueue, InWorker
  <2>4. QED BY <2>1, <2>2, <2>3, AliveFrame
<1>4. CASE SubmitOut
  <2>1. SubmitPaging(leaving) /\ In(leaving) \subseteq Allocs
        /\ UNCHANGED <<life, st, allocs, client, coming, leaving, back, failed>>
    BY <1>4 DEF SubmitOut, In, allocVars, taskVars, clientVars
  <2>2. \A a \in In(leaving) : Needed(a)
    BY DEF In, Needed
  <2>3. QED BY <1>1, <2>1, <2>2, SubmitPagingAlive
<1>5. CASE SubmitIn
  <2>1. /\ UNCHANGED <<life, st, allocs, client, coming, leaving, back>>
        /\ \A a \in Allocs : failed'[a] = 0 => failed[a] = 0
    BY <1>1, <1>5, PagingAssumption DEF SubmitIn, TypeOK, allocVars, taskVars, clientVars
  <2>2. CASE SubmitPaging(coming)
    <3>1. In(coming) \subseteq Allocs /\ \A a \in In(coming) : Needed(a)
      BY DEF In, Needed
    <3>2. QED BY <1>1, <2>1, <2>2, <3>1, SubmitPagingAlive
  <2>3. CASE UNCHANGED fenceVars
    <3>1. \A a \in Allocs : /\ Pinning(a)' = Pinning(a) /\ (Needed(a)' <=> Needed(a))
                            /\ InHwQueue(a)' <=> InHwQueue(a)
      BY <2>1, <2>3 DEF Pinning, Needed, InQueue, InWorker, InHwQueue, Back, fenceVars
    <3>2. QED BY <2>1, <3>1, AliveFrame
  <2>4. QED BY <1>5, <2>2, <2>3 DEF SubmitIn
<1>6. CASE \/ \E r \in {"again", "nomem"} : PagingInFails(r)
           \/ \E S \in SUBSET Allocs : PagingOut(S)
           \/ NoCandidate \/ ReleaseVideoMemory
  <2>1. /\ UNCHANGED <<life, coming, st, allocs, client, failed, fence_id, back>>
        /\ \A a \in Allocs : leaving'[a] # NoPlace => leaving[a] # NoPlace
    BY <1>6
    DEF PagingInFails, PagingOut, NoCandidate, ReleaseVideoMemory, Nowhere, allocVars,
        taskVars, clientVars, fenceVars
  <2>2. \A a \in Allocs : /\ Pinning(a)' = Pinning(a) /\ (Needed(a)' => Needed(a))
                          /\ InHwQueue(a)' <=> InHwQueue(a)
    BY <2>1 DEF Pinning, Needed, InQueue, InWorker, InHwQueue, Back
  <2>3. QED BY <2>1, <2>2, AliveFrame
<1>7. CASE (\E t \in Tasks : TaskResident(t)) \/ \E c \in Clients : ClientResident(c)
  <2>1. /\ UNCHANGED <<life, leaving, allocs, failed, fence_id, back>> /\ coming' = Nowhere
    BY <1>7 DEF TaskResident, ClientResident, Resident, fenceVars
  <2>2. \A d \in Clients :
          client'[d] \in {"lock", "prepare", "pinned"}
            => client[d] \in {"lock", "prepare", "pinned"}
    BY <1>1, <1>7 DEF TaskResident, ClientResident, TypeOK, CountsInv, PagerOK
  <2>3. \A u \in Tasks : InQueue(u)' => InQueue(u)
    BY <1>1, <1>7
    DEF TaskResident, ClientResident, TypeOK, CountsInv, PagerOK, InQueue, InWorker
  <2>4. \A a \in Allocs : Pinning(a)' # {} => Pinning(a) # {}
    BY <2>2 DEF Pinning
  <2>5. \A a \in Allocs : (Needed(a)' => Needed(a)) /\ (InHwQueue(a)' <=> InHwQueue(a))
    BY <2>1, <2>3, <2>4 DEF Needed, Nowhere, InHwQueue, Back
  <2>6. QED BY <2>1, <2>4, <2>5, AliveFrame
<1>8. QED BY <1>2, <1>3, <1>4, <1>5, <1>6, <1>7 DEF PagerStep

LEMMA NextAlive ==
  ASSUME CountsInv, AliveOK, [Next]_vars PROVE AliveOK'
<1>1. ASSUME NEW e \in Engines, GpuFinish(e) PROVE AliveOK'
  <2>1. /\ UNCHANGED <<life, coming, leaving, st, allocs, client, failed, fence_id>>
        /\ back' = [back EXCEPT ![e] = @ + 1] /\ TypeOK
    BY <1>1 DEF GpuFinish, CountsInv, allocVars, taskVars, pagerVars, clientVars
  <2>2. \A f \in Engines, a \in Allocs : ~Back(f, fence_id[f][a])' => ~Back(f, fence_id[f][a])
    BY <2>1 DEF Back, TypeOK
  <2>3. \A a \in Allocs : /\ Pinning(a)' = Pinning(a) /\ (Needed(a)' <=> Needed(a))
                          /\ InHwQueue(a)' => InHwQueue(a)
    BY <2>1, <2>2 DEF Pinning, Needed, InQueue, InWorker, InHwQueue
  <2>4. QED BY <2>1, <2>3, AliveFrame
<1>2. CASE UNCHANGED vars
  <2>1. \A a \in Allocs : /\ Pinning(a)' = Pinning(a) /\ (Needed(a)' <=> Needed(a))
                          /\ InHwQueue(a)' <=> InHwQueue(a)
    BY <1>2
    DEF Pinning, Needed, InQueue, InWorker, InHwQueue, Back, vars, pagerVars, taskVars,
        fenceVars, clientVars
  <2>2. QED BY <1>2, <2>1, AliveFrame DEF vars, allocVars
<1>3. QED BY <1>1, <1>2, LifeAlive, TaskAlive, ClientAlive, PagerAlive DEF Next

\* An allocation that a task in the queue, a paging step or a pin relies on is
\* never destroyed under it, unless a pin of it found no memory.
THEOREM NeededAlive == Spec => []NeededIsAlive
<1>1. Init => AliveOK
  BY DEF Init, AliveOK, Pinning, Needed, InQueue, InWorker, InHwQueue, Back, Nowhere, Zero
<1>2. CountsInv /\ AliveOK => NeededIsAlive
  BY DEF AliveOK, NeededIsAlive
<1>3. QED BY <1>1, <1>2, InitCounts, NextCountsInv, NextAlive, PTL DEF Spec

\* Sending work: the new id is the newest, and no task of the engine waits for
\* its kick-off.
LEMMA SentFences ==
  ASSUME TypeOK, FencesOK, NEW e \in Engines, NEW S, Sent(e, S), EngineLockFree(e),
         UNCHANGED <<back, allocs>>,
         \A t \in Tasks :
           st'[t] = "patch" => st[t] = "patch" \/ (EngineOf[t] = e /\ allocs[t] \subseteq S),
         \A t, u \in Tasks :
           st'[t] = "patch" /\ EngineOf[t] = e /\ st'[u] = "patch" /\ EngineOf[u] = e
             => t = u
  PROVE  FencesOK'
<1>1. /\ \A f \in Engines : f # e => send'[f] = send[f] /\ fence_id'[f] = fence_id[f]
      /\ send'[e] = send[e] + 1 /\ send[e] \in Nat /\ back[e] \in Nat
      /\ \A a \in Allocs : a \in S => fence_id'[e][a] = send'[e]
  BY DEF Sent, TypeOK
<1>2. \A f \in Engines : back'[f] <= send'[f]
  BY <1>1 DEF FencesOK
<1>3. ASSUME NEW t \in Tasks, st'[t] = "patch"
      PROVE  /\ back'[EngineOf[t]] < send'[EngineOf[t]]
             /\ \A a \in allocs'[t] : fence_id'[EngineOf[t]][a] = send'[EngineOf[t]]
  <2>1. CASE EngineOf[t] = e
    <3>1. allocs[t] \subseteq S /\ allocs[t] \subseteq Allocs
      BY <1>3, <2>1 DEF EngineLockFree, TypeOK
    <3>2. back[e] < send'[e]
      BY <1>1 DEF FencesOK
    <3>3. QED BY <1>1, <2>1, <3>1, <3>2
  <2>2. CASE EngineOf[t] # e
    <3>1. st[t] = "patch" /\ EngineOf[t] \in Engines
      BY <1>3, <2>2, PagingAssumption
    <3>2. QED BY <1>1, <2>2, <3>1 DEF FencesOK
  <2>3. QED BY <2>1, <2>2
<1>4. ASSUME NEW t \in Tasks, NEW u \in Tasks,
             st'[t] = "patch", st'[u] = "patch", EngineOf[t] = EngineOf[u]
      PROVE  t = u
  BY <1>4 DEF FencesOK
<1>5. QED BY <1>2, <1>3, <1>4 DEF FencesOK

\* Steps that send nothing and finish nothing.
LEMMA FencesFrame ==
  ASSUME FencesOK, UNCHANGED <<send, back, fence_id>>,
         \A t \in Tasks : st'[t] = "patch" => st[t] = "patch" /\ allocs'[t] = allocs[t]
  PROVE  FencesOK'
  BY DEF FencesOK

LEMMA SubmitPagingFences ==
  ASSUME TypeOK, FencesOK, NEW where, SubmitPaging(where), UNCHANGED <<back, allocs, st>>
  PROVE  FencesOK'
<1>1. Sent(PagingEngine, In(where)) /\ EngineLockFree(PagingEngine)
  BY DEF SubmitPaging
<1>2. \A t \in Tasks : st[t] = "patch" => EngineOf[t] # PagingEngine
  BY <1>1 DEF EngineLockFree
<1>3. \A t \in Tasks :
        st'[t] = "patch"
          => st[t] = "patch" \/ (EngineOf[t] = PagingEngine /\ allocs[t] \subseteq In(where))
  OBVIOUS
<1>4. \A t, u \in Tasks :
        (/\ st'[t] = "patch" /\ EngineOf[t] = PagingEngine
         /\ st'[u] = "patch" /\ EngineOf[u] = PagingEngine)
          => t = u
  BY <1>2
<1>5. PagingEngine \in Engines
  BY PagingAssumption
<1>6. QED BY <1>1, <1>3, <1>4, <1>5, SentFences

LEMMA NextFences ==
  ASSUME CountsInv, FencesOK, JobsOK, [Next]_vars PROVE FencesOK'
<1>1. TypeOK
  BY DEF CountsInv
<1>2. ASSUME NEW t \in Tasks, SubmitDma(t) PROVE FencesOK'
  <2>1. /\ Sent(EngineOf[t], allocs[t]) /\ EngineLockFree(EngineOf[t])
        /\ st' = [st EXCEPT ![t] = "patch"] /\ UNCHANGED <<back, allocs>>
        /\ EngineOf[t] \in Engines
    BY <1>2, PagingAssumption DEF SubmitDma
  <2>2. \A u \in Tasks : st'[u] = "patch" => u = t \/ st[u] = "patch"
    BY <1>1, <2>1 DEF TypeOK
  <2>3. \A u \in Tasks : st'[u] = "patch" /\ EngineOf[u] = EngineOf[t] => u = t
    BY <2>1, <2>2 DEF EngineLockFree
  <2>4. \A u \in Tasks :
          st'[u] = "patch"
            => st[u] = "patch" \/ (EngineOf[u] = EngineOf[t] /\ allocs[u] \subseteq allocs[t])
    BY <2>2
  <2>5. \A u, v \in Tasks :
          (/\ st'[u] = "patch" /\ EngineOf[u] = EngineOf[t]
           /\ st'[v] = "patch" /\ EngineOf[v] = EngineOf[t])
            => u = v
    BY <2>3
  <2>6. QED BY <1>1, <2>1, <2>4, <2>5, SentFences
<1>3. ASSUME NEW t \in Tasks,
             \/ Mark(t) \/ LockPaging(t) \/ KickOff(t) \/ FakeSubmit(t)
             \/ \E S \in SUBSET Allocs : Render(t, S)
      PROVE  FencesOK'
  <2>1. \A u \in Tasks : st'[u] = "patch" => st[u] = "patch" /\ allocs'[u] = allocs[u]
    BY <1>1, <1>3 DEF Mark, LockPaging, KickOff, FakeSubmit, Render, TypeOK
  <2>2. UNCHANGED <<send, back, fence_id>>
    BY <1>3 DEF Mark, LockPaging, KickOff, FakeSubmit, Render, fenceVars
  <2>3. QED BY <2>1, <2>2, FencesFrame
<1>4. ASSUME PagerStep PROVE FencesOK'
  <2>1. CASE SubmitOut
    BY <1>1, <2>1, SubmitPagingFences DEF SubmitOut, taskVars
  <2>2. CASE SubmitIn
    BY <1>1, <2>2, SubmitPagingFences, FencesFrame DEF SubmitIn, taskVars, fenceVars
  <2>3. CASE ~SubmitOut /\ ~SubmitIn
    <3>1. UNCHANGED <<send, back, fence_id>>
      BY <1>4, <2>3
      DEF PagerStep, ResidentOne, PagingInFails, Unresident, PagingOut, NoCandidate,
          ReleaseVideoMemory, TaskResident, ClientResident, Resident, fenceVars
    <3>2. \A t \in Tasks : st'[t] = "patch" => st[t] = "patch" /\ allocs'[t] = allocs[t]
      BY <1>1, <1>4, <2>3
      DEF PagerStep, ResidentOne, PagingInFails, Unresident, PagingOut, NoCandidate,
          ReleaseVideoMemory, TaskResident, ClientResident, Resident, taskVars, TypeOK
    <3>3. QED BY <3>1, <3>2, FencesFrame
  <2>4. QED BY <2>1, <2>2, <2>3
<1>5. ASSUME NEW e \in Engines, GpuFinish(e) PROVE FencesOK'
  <2>1. PICK j \in jobs : j.engine = e /\ j.fence = back[e] + 1
    BY <1>5 DEF GpuFinish
  <2>2. /\ UNCHANGED <<send, fence_id, st, allocs>> /\ back' = [back EXCEPT ![e] = @ + 1]
    BY <1>5 DEF GpuFinish, taskVars
  <2>3. /\ back'[e] <= send[e]
        /\ \A t \in Tasks : st[t] = "patch" /\ EngineOf[t] = e => back'[e] < send[e]
    BY <1>1, <2>1, <2>2 DEF JobsOK, JobType, JobOK, TypeOK
  <2>4. \A f \in Engines : f # e => back'[f] = back[f]
    BY <1>1, <2>2 DEF TypeOK
  <2>5. QED BY <2>2, <2>3, <2>4, PagingAssumption DEF FencesOK
<1>6. CASE \/ \E a \in Allocs : \/ CreateAllocation(a) \/ Unreference(a)
                                \/ DestroyDefer(a) \/ DestroyAllocation(a)
           \/ \E c \in Clients : MarkUnpagable(c) \/ PrepareOne(c) \/ MarkPagable(c)
           \/ UNCHANGED vars
  BY <1>6, FencesFrame
  DEF CreateAllocation, Unreference, DestroyDefer, DestroyAllocation, MarkUnpagable,
      PrepareOne, MarkPagable, vars, fenceVars, taskVars
<1>7. QED BY <1>2, <1>3, <1>4, <1>5, <1>6 DEF Next, WorkerStep

-----------------------------------------------------------------------------
(* What a task was made resident with stays.                               *)

\* Nobody claims what can be paged out.
LEMMA PageOutFree ==
  ASSUME CountsInv, NEW a \in Allocs, CanPageOut(a)
  PROVE  \A t \in Tasks : Claiming(t) => a \notin allocs[t]
<1> SUFFICES ASSUME NEW t \in Tasks, Claiming(t), a \in allocs[t] PROVE FALSE
  OBVIOUS
<1>1. t \in ClaimSet(a) /\ ClaimSet(a) \in SUBSET Tasks
  BY DEF ClaimSet, Claiming
<1>2. Cardinality(ClaimSet(a)) = 0
  BY DEF CanPageOut, CountsInv, CountsAccount, ClaimSet
<1>3. QED BY <1>1, <1>2, CardType

LEMMA TaskResidents ==
  ASSUME CountsInv, ResidentOK, NEW t \in Tasks,
         WorkerStep(t) \/ \E S \in SUBSET Allocs : Render(t, S)
  PROVE  ResidentOK'
<1>1. TypeOK /\ UNCHANGED <<seg, coming, failed>>
  BY DEF CountsInv, WorkerStep, Render, Mark, LockPaging, SubmitDma, KickOff, FakeSubmit,
         allocVars, pagerVars
<1>2. \A u \in Tasks : u # t => st'[u] = st[u] /\ allocs'[u] = allocs[u]
  BY <1>1 DEF WorkerStep, Render, Mark, LockPaging, SubmitDma, KickOff, FakeSubmit, TypeOK
<1>3. \A u \in Tasks : allocs'[u] \subseteq Allocs
  BY <1>1 DEF WorkerStep, Render, Mark, LockPaging, SubmitDma, KickOff, FakeSubmit, TypeOK
<1>4. CASE LockPaging(t)
  <2>1. \A u \in Tasks : st[u] # "paging"
    BY <1>4, PagingAssumption DEF LockPaging, CountsInv, PagerOK
  <2>2. /\ st'[t] = "paging" /\ allocs'[t] = allocs[t]
        /\ todo' = {a \in allocs[t] : seg[a] = NoPlace}
    BY <1>1, <1>4 DEF LockPaging, TypeOK
  <2>3. QED BY <1>1, <1>2, <1>3, <2>1, <2>2 DEF ResidentOK
<1>5. CASE ~LockPaging(t)
  <2>1. UNCHANGED todo
    BY <1>5 DEF WorkerStep, Render, Mark, SubmitDma, KickOff, FakeSubmit, pagerVars
  <2>2. /\ st'[t] = "patch" => st[t] = "ready" /\ allocs'[t] = allocs[t]
        /\ st'[t] = "ready" => /\ allocs'[t] = allocs[t]
                               /\ \A a \in allocs[t] : seg[a] # NoPlace
        /\ st'[t] # "paging"
    BY <1>1, <1>5 DEF WorkerStep, Render, Mark, SubmitDma, KickOff, FakeSubmit, TypeOK
  <2>3. QED BY <1>1, <1>2, <1>3, <2>1, <2>2 DEF ResidentOK
<1>6. QED BY <1>4, <1>5

LEMMA LifeResidents ==
  ASSUME CountsInv, FencesOK, AliveOK, ResidentOK, NEW a \in Allocs,
         \/ CreateAllocation(a) \/ Unreference(a) \/ DestroyDefer(a) \/ DestroyAllocation(a)
  PROVE  ResidentOK'
<1>1. TypeOK /\ UNCHANGED <<coming, todo, st, allocs, failed>>
  BY DEF CreateAllocation, Unreference, DestroyDefer, DestroyAllocation, CountsInv, taskVars,
         pagerVars
<1>2. CASE \A b \in Allocs : seg[b] # NoPlace => seg'[b] # NoPlace
  BY <1>1, <1>2 DEF ResidentOK, TypeOK
<1>3. CASE DestroyAllocation(a)
  <2>1. life[a] = "freeing" /\ seg' = [seg EXCEPT ![a] = NoPlace]
    BY <1>3 DEF DestroyAllocation
  <2>2. \A b \in Allocs : b # a => seg'[b] = seg[b]
    BY <1>1, <2>1 DEF TypeOK
  <2>3. ASSUME NEW t \in Tasks, a \in allocs[t], failed[a] = 0
        PROVE  st[t] \notin {"ready", "patch", "paging"}
    <3>1. ~Needed(a) /\ ~InHwQueue(a)
      BY <2>1, <2>3 DEF AliveOK
    <3>2. st[t] # "patch"
      BY <1>1, <2>3, <3>1, PatchBusy
    <3>3. ~InQueue(t)
      BY <2>3, <3>1 DEF Needed
    <3>4. QED BY <3>2, <3>3 DEF InQueue, InWorker
  <2>4. QED BY <1>1, <2>2, <2>3 DEF ResidentOK, TypeOK
<1>4. CASE ~DestroyAllocation(a)
  <2>1. \A b \in Allocs : seg[b] # NoPlace => seg'[b] # NoPlace
    BY <1>1, <1>4, PagingAssumption
    DEF CreateAllocation, Unreference, DestroyDefer, CountsInv, PlacesInv, Created, TypeOK
  <2>2. QED BY <1>2, <2>1
<1>5. QED BY <1>3, <1>4

LEMMA PagerResidents ==
  ASSUME CountsInv, FencesOK, ResidentOK, PagerStep PROVE ResidentOK'
<1>1. TypeOK /\ PlacesInv /\ PagerOK
  BY DEF CountsInv
<1>2. ASSUME NEW a \in Allocs, NEW p \in Places, ResidentOne(a, p) PROVE ResidentOK'
  <2>1. /\ todo' = todo \ {a} /\ coming' = [coming EXCEPT ![a] = p] /\ p # NoPlace
        /\ UNCHANGED <<seg, st, allocs, failed>>
    BY <1>2, PagingAssumption DEF ResidentOne, taskVars
  <2>2. \A b \in Allocs : coming[b] # NoPlace \/ b \in todo => coming'[b] # NoPlace \/ b \in todo'
    BY <1>1, <2>1 DEF TypeOK
  <2>3. QED BY <1>1, <2>1, <2>2 DEF ResidentOK, TypeOK
<1>3. ASSUME NEW S \in SUBSET Allocs, Unresident(S) PROVE ResidentOK'
  <2>1. /\ seg' = [a \in Allocs |-> IF a \in S THEN NoPlace ELSE seg[a]]
        /\ \A a \in S : CanPageOut(a)
        /\ UNCHANGED <<coming, todo, st, allocs, failed>>
    BY <1>3 DEF Unresident, taskVars
  <2>2. ASSUME NEW t \in Tasks, st[t] \in {"ready", "patch", "paging"}
        PROVE  \A a \in allocs[t] : a \notin S
    <3>1. CASE st[t] = "patch"
      BY <1>1, <2>1, <3>1, PatchBusy DEF CanPageOut
    <3>2. CASE st[t] # "patch"
      BY <2>1, <2>2, <3>2, PageOutFree DEF Claiming
    <3>3. QED BY <3>1, <3>2
  <2>3. QED BY <1>1, <2>1, <2>2 DEF ResidentOK, TypeOK
<1>4. ASSUME NEW F \in SUBSET Allocs, PagingOut(F) PROVE ResidentOK'
  <2>1. /\ seg' = [a \in Allocs |-> IF a \in F THEN leaving[a] ELSE seg[a]]
        /\ \A a \in F : leaving[a] # NoPlace
        /\ UNCHANGED <<coming, todo, st, allocs, failed>>
    BY <1>4 DEF PagingOut, In, taskVars
  <2>2. QED BY <1>1, <2>1 DEF ResidentOK, TypeOK
<1>5. CASE \/ \E r \in {"again", "nomem"} : PagingInFails(r)
           \/ NoCandidate \/ SubmitOut \/ ReleaseVideoMemory
  <2>1. UNCHANGED <<seg, coming, todo, st, allocs, failed>>
    BY <1>5 DEF PagingInFails, NoCandidate, SubmitOut, ReleaseVideoMemory, taskVars, allocVars
  <2>2. QED BY <2>1 DEF ResidentOK
<1>6. CASE SubmitIn
  <2>1. /\ UNCHANGED <<seg, coming, todo, st, allocs>>
        /\ \A a \in Allocs : failed'[a] = 0 => failed[a] = 0
    BY <1>1, <1>6, PagingAssumption DEF SubmitIn, taskVars, allocVars, TypeOK
  <2>2. QED BY <1>1, <2>1 DEF ResidentOK, TypeOK
<1>7. CASE (\E t \in Tasks : TaskResident(t)) \/ \E c \in Clients : ClientResident(c)
  <2>1. /\ pg = "set" /\ UNCHANGED <<allocs, failed>>
        /\ seg' = [a \in Allocs |-> IF coming[a] # NoPlace THEN coming[a] ELSE seg[a]]
    BY <1>7 DEF TaskResident, ClientResident, Resident
  <2>2. \A t \in Tasks :
          /\ st'[t] # "paging"
          /\ st'[t] = "patch" => st[t] = "patch"
          /\ st'[t] = "ready" => st[t] = "ready" \/ (st[t] = "paging" /\ result = "ok")
    BY <1>1, <1>7, PagingAssumption DEF TaskResident, ClientResident, PagerOK, TypeOK
  <2>3. result = "ok" => todo = {}
    BY <1>1, <2>1 DEF PagerOK
  <2>4. \A a \in Allocs : seg[a] # NoPlace \/ coming[a] # NoPlace => seg'[a] # NoPlace
    BY <2>1
  <2>5. QED BY <1>1, <2>1, <2>2, <2>3, <2>4 DEF ResidentOK, TypeOK
<1>8. QED BY <1>2, <1>3, <1>4, <1>5, <1>6, <1>7 DEF PagerStep

LEMMA NextResident ==
  ASSUME CountsInv, FencesOK, AliveOK, ResidentOK, [Next]_vars PROVE ResidentOK'
<1>1. ASSUME NEW c \in Clients, MarkUnpagable(c) \/ PrepareOne(c) \/ MarkPagable(c)
      PROVE  ResidentOK'
  <2>1. /\ UNCHANGED <<seg, coming, st, allocs, failed>>
        /\ \/ UNCHANGED todo
           \/ \A t \in Tasks : st[t] # "paging"
    BY <1>1, PagingAssumption
    DEF MarkUnpagable, PrepareOne, MarkPagable, CountsInv, PagerOK, allocVars, taskVars,
        pagerVars
  <2>2. QED BY <2>1 DEF ResidentOK
<1>2. CASE (\E e \in Engines : GpuFinish(e)) \/ UNCHANGED vars
  <2>1. UNCHANGED <<seg, coming, todo, st, allocs, failed>>
    BY <1>2 DEF GpuFinish, vars, allocVars, taskVars, pagerVars
  <2>2. QED BY <2>1 DEF ResidentOK
<1>3. QED
  BY <1>1, <1>2, TaskResidents, LifeResidents, PagerResidents DEF Next

-----------------------------------------------------------------------------
(* What the GPU was given stays where it was.                              *)

\* A step that gives the GPU no work and finishes none.
LEMMA JobsFrame ==
  ASSUME TypeOK, JobsOK, UNCHANGED <<jobs, send, back, fence_id>>,
         \A t \in Tasks : st'[t] = "patch" => st[t] = "patch",
         \A j \in jobs : \A a \in In(j.uses) :
           leaving'[a] # NoPlace =>
             /\ leaving[a] # NoPlace
             /\ pg = "outwait" => pg' = "outwait" /\ pgfence' = pgfence
  PROVE  JobsOK'
<1>1. jobs' \subseteq JobType
  BY DEF JobsOK, JobType
<1>2. ASSUME NEW j \in jobs PROVE JobOK(j)'
  BY DEF JobsOK, JobType, JobOK, In
<1>3. QED BY <1>1, <1>2 DEF JobsOK, JobType

\* New work: it has the newest fence, and nothing it uses is on its way out but to
\* be copied by it.
LEMMA NewJob ==
  ASSUME TypeOK, JobsOK, NEW n \in JobType, jobs' = jobs \cup {n}, UNCHANGED back,
         UNCHANGED <<send, fence_id>> \/ Sent(n.engine, In(n.uses)),
         back[n.engine] < send'[n.engine], n.fence = send'[n.engine],
         \A a \in In(n.uses) : fence_id'[n.engine][a] = n.fence,
         \A t \in Tasks : st'[t] = "patch" => st[t] = "patch" /\ EngineOf[t] # n.engine,
         \A j \in jobs : \A a \in In(j.uses) : leaving'[a] = NoPlace,
         \A a \in In(n.uses) : leaving'[a] # NoPlace =>
           pg' = "outwait" /\ n.engine = PagingEngine /\ n.fence <= pgfence'
  PROVE  JobsOK'
<1> DEFINE e == n.engine
<1>1. /\ send'[e] \in Nat /\ send[e] \in Nat /\ send[e] <= send'[e] /\ e \in Engines
      /\ \A f \in Engines : f # e => send'[f] = send[f] /\ fence_id'[f] = fence_id[f]
      /\ \A a \in Allocs : fence_id'[e][a] = fence_id[e][a] \/ fence_id'[e][a] = send'[e]
  BY DEF Sent, TypeOK, JobType
<1>3. jobs' \subseteq JobType
  BY DEF JobsOK, JobType
<1>4. JobOK(n)'
  BY <1>1 DEF JobOK, In
<1>5. ASSUME NEW j \in jobs PROVE JobOK(j)'
  <2>1. /\ j.engine \in Engines /\ j.fence \in Nat /\ JobOK(j)
        /\ In(j.uses) \subseteq Allocs
    BY DEF JobsOK, JobType, In
  <2>2. back'[j.engine] < j.fence /\ j.fence <= send'[j.engine]
    BY <1>1, <2>1 DEF JobOK
  <2>3. \A t \in Tasks : st'[t] = "patch" /\ EngineOf[t] = j.engine => j.fence < send'[j.engine]
    BY <1>1, <2>1 DEF JobOK
  <2>4. \A a \in In(j.uses) : j.fence <= fence_id'[j.engine][a]
    BY <1>1, <2>1, <2>2 DEF JobOK
  <2>5. QED BY <2>2, <2>3, <2>4 DEF JobOK, In
<1>6. QED BY <1>3, <1>4, <1>5 DEF JobsOK, JobType

LEMMA SubmitDmaJobs ==
  ASSUME TypeOK, JobsOK, NEW t \in Tasks, SubmitDma(t) PROVE JobsOK'
<1> DEFINE e == EngineOf[t]
<1>1. /\ Sent(e, allocs[t]) /\ EngineLockFree(e) /\ st' = [st EXCEPT ![t] = "patch"]
      /\ UNCHANGED <<jobs, back, leaving, pg, pgfence>> /\ e \in Engines
  BY PagingAssumption DEF SubmitDma, pagerVars
<1>2. /\ send'[e] = send[e] + 1 /\ send[e] \in Nat
      /\ \A f \in Engines : f # e => send'[f] = send[f] /\ fence_id'[f] = fence_id[f]
      /\ \A a \in Allocs : fence_id'[e][a] = fence_id[e][a] \/ fence_id'[e][a] = send'[e]
  BY <1>1 DEF Sent, TypeOK
<1>3. ASSUME NEW j \in jobs PROVE JobOK(j)'
  <2>1. /\ j.engine \in Engines /\ j.fence \in Nat /\ JobOK(j)
        /\ In(j.uses) \subseteq Allocs
    BY DEF JobsOK, JobType, In
  <2>2. back'[j.engine] < j.fence /\ j.fence <= send'[j.engine]
    BY <1>1, <1>2, <2>1 DEF JobOK
  <2>3. ASSUME NEW u \in Tasks, st'[u] = "patch", EngineOf[u] = j.engine
        PROVE  j.fence < send'[j.engine]
    <3>1. CASE j.engine = e
      BY <1>2, <2>1, <3>1 DEF JobOK
    <3>2. CASE j.engine # e
      <4>1. st[u] = "patch"
        BY <1>1, <2>3, <3>2 DEF TypeOK
      <4>2. QED BY <1>2, <2>1, <2>3, <3>2, <4>1 DEF JobOK
    <3>3. QED BY <3>1, <3>2
  <2>4. \A a \in In(j.uses) : j.fence <= fence_id'[j.engine][a]
    BY <1>2, <2>1, <2>2 DEF JobOK
  <2>5. \A a \in In(j.uses) : leaving'[a] # NoPlace =>
          pg' = "outwait" /\ j.engine = PagingEngine /\ j.fence <= pgfence'
    BY <1>1, <2>1 DEF JobOK
  <2>6. QED BY <2>2, <2>3, <2>4, <2>5 DEF JobOK, In
<1>4. jobs' \subseteq JobType
  BY <1>1 DEF JobsOK, JobType
<1>5. QED BY <1>1, <1>3, <1>4 DEF JobsOK, JobType

LEMMA KickOffJobs ==
  ASSUME CountsInv, FencesOK, JobsOK, NEW t \in Tasks, KickOff(t) PROVE JobsOK'
<1> DEFINE where == [a \in Allocs |-> IF a \in allocs[t] THEN seg[a] ELSE NoPlace]
           e == EngineOf[t]
<1>1. TypeOK /\ PlacesInv /\ e \in Engines /\ allocs[t] \in SUBSET Allocs
  BY PagingAssumption DEF CountsInv, TypeOK
<1>2. /\ st[t] = "patch" /\ st' = [st EXCEPT ![t] = "hw"]
      /\ jobs' = jobs \cup {Job(e, send[e], where)}
      /\ UNCHANGED <<send, fence_id, back, leaving, pg, pgfence>>
  BY DEF KickOff, pagerVars
<1>3. where \in [Allocs -> Places \cup {NoPlace}] /\ send[e] \in Nat
  BY <1>1 DEF TypeOK
<1>4. PICK n \in JobType : n = Job(e, send[e], where)
  BY <1>1, <1>3 DEF Job, JobType
<1>5. n.engine = e /\ n.fence = send[e] /\ n.uses = where
  BY <1>4 DEF Job
<1>6. \A a \in In(n.uses) : a \in allocs[t] /\ seg[a] # NoPlace
  BY <1>5 DEF In
<1>7. back[e] < send[e] /\ \A a \in In(n.uses) : fence_id[e][a] = send[e]
  BY <1>2, <1>6 DEF FencesOK
<1>8. \A u \in Tasks : st'[u] = "patch" => st[u] = "patch" /\ EngineOf[u] # e
  BY <1>1, <1>2 DEF TypeOK, FencesOK
<1>9. \A a \in In(n.uses) : leaving[a] = NoPlace
  BY <1>1, <1>6 DEF PlacesInv, OneOwner
<1>10. ASSUME NEW j \in jobs PROVE JobOK(j)'
  <2>1. JobOK(j)
    BY DEF JobsOK, JobType
  <2>2. \A u \in Tasks : st'[u] = "patch" => st[u] = "patch"
    BY <1>8
  <2>3. QED BY <1>2, <2>1, <2>2 DEF JobOK, In
<1>11. JobOK(n)'
  BY <1>2, <1>5, <1>7, <1>8, <1>9, <1>1, <1>3 DEF JobOK, In, TypeOK
<1>12. jobs' = jobs \cup {n}
  BY <1>2, <1>4
<1>13. QED BY <1>10, <1>11, <1>12 DEF JobsOK, JobType

\* The paging engine gets copies; what a job uses only leaves to be copied out.
LEMMA SubmitPagingJobs ==
  ASSUME TypeOK, JobsOK, FencesOK, NEW where \in [Allocs -> Places \cup {NoPlace}],
         SubmitPaging(where), UNCHANGED <<back, st, leaving>>, pg # "outwait",
         pg' = "outwait" \/ leaving = Nowhere
  PROVE  JobsOK'
<1> DEFINE e == PagingEngine
           f == send[e] + 1
<1>1. /\ Sent(e, In(where)) /\ EngineLockFree(e) /\ e \in Engines
      /\ jobs' = jobs \cup {Job(e, f, where)} /\ pgfence' = f
  BY PagingAssumption DEF SubmitPaging
<1>2. f \in Nat /\ send'[e] = f /\ back[e] < f /\ back'[e] = back[e]
  BY <1>1 DEF TypeOK, Sent, FencesOK
<1>3. PICK n \in JobType : n = Job(e, f, where)
  BY <1>1, <1>2 DEF Job, JobType
<1>4. n.engine = e /\ n.fence = f /\ n.uses = where
  BY <1>3 DEF Job
<1>5. \A a \in In(n.uses) : fence_id'[n.engine][a] = n.fence
  BY <1>1, <1>2, <1>4 DEF Sent, TypeOK, In
<1>6. \A t \in Tasks : st'[t] = "patch" => st[t] = "patch" /\ EngineOf[t] # n.engine
  BY <1>1, <1>4 DEF EngineLockFree
<1>7. \A j \in jobs : \A a \in In(j.uses) : leaving'[a] = NoPlace
  BY DEF JobsOK, JobType, JobOK
<1>8. \A a \in In(n.uses) : leaving'[a] # NoPlace =>
        pg' = "outwait" /\ n.engine = PagingEngine /\ n.fence <= pgfence'
  BY <1>1, <1>2, <1>4 DEF Nowhere, In
<1>9. jobs' = jobs \cup {n} /\ Sent(n.engine, In(n.uses))
      /\ back[n.engine] < send'[n.engine] /\ n.fence = send'[n.engine]
  BY <1>1, <1>2, <1>3, <1>4
<1>10. QED BY <1>5, <1>6, <1>7, <1>8, <1>9, NewJob

LEMMA PagerJobs ==
  ASSUME CountsInv, FencesOK, JobsOK, PagerStep PROVE JobsOK'
<1>1. TypeOK /\ PlacesInv
  BY DEF CountsInv
<1>2. CASE SubmitOut
  <2>1. /\ SubmitPaging(leaving) /\ UNCHANGED <<back, st, leaving>>
        /\ pg # "outwait" /\ pg' = "outwait"
        /\ leaving \in [Allocs -> Places \cup {NoPlace}]
    BY <1>1, <1>2 DEF SubmitOut, taskVars, TypeOK
  <2>2. QED BY <1>1, <2>1, SubmitPagingJobs
<1>3. CASE SubmitIn
  <2>1. /\ UNCHANGED <<back, st, leaving>> /\ pg # "outwait" /\ leaving = Nowhere
        /\ coming \in [Allocs -> Places \cup {NoPlace}]
    BY <1>1, <1>3 DEF SubmitIn, taskVars, TypeOK, PlacesInv, OnlyPaged
  <2>2. CASE SubmitPaging(coming)
    BY <1>1, <2>1, <2>2, SubmitPagingJobs
  <2>3. CASE UNCHANGED fenceVars
    <3>1. \A a \in Allocs : leaving'[a] = NoPlace
      BY <2>1 DEF Nowhere
    <3>2. QED BY <1>1, <2>1, <2>3, <3>1, JobsFrame DEF fenceVars, In
  <2>4. QED BY <1>3, <2>2, <2>3 DEF SubmitIn
<1>4. ASSUME NEW S \in SUBSET Allocs, Unresident(S) PROVE JobsOK'
  <2>1. /\ UNCHANGED <<jobs, send, back, fence_id, st>>
        /\ leaving' = [a \in Allocs |-> IF a \in S THEN seg[a] ELSE NoPlace]
        /\ \A a \in S : ~InHwQueue(a)
    BY <1>4 DEF Unresident, CanPageOut, fenceVars, taskVars
  <2>2. \A j \in jobs : \A a \in In(j.uses) : leaving'[a] = NoPlace
    BY <1>1, <2>1, JobBusy DEF In
  <2>3. QED BY <1>1, <2>1, <2>2, JobsFrame
<1>5. ASSUME NEW F \in SUBSET Allocs, PagingOut(F) PROVE JobsOK'
  <2>1. /\ UNCHANGED <<jobs, send, back, fence_id, st>> /\ pg = "build"
        /\ leaving' = [a \in Allocs |-> IF a \in F THEN NoPlace ELSE leaving[a]]
    BY <1>5 DEF PagingOut, fenceVars, taskVars
  <2>2. \A j \in jobs : \A a \in In(j.uses) : leaving'[a] = NoPlace
    BY <2>1 DEF JobsOK, JobType, JobOK, In
  <2>3. QED BY <1>1, <2>1, <2>2, JobsFrame
<1>6. CASE ReleaseVideoMemory
  <2>1. UNCHANGED <<jobs, send, back, fence_id, st>> /\ \A a \in Allocs : leaving'[a] = NoPlace
    BY <1>6 DEF ReleaseVideoMemory, fenceVars, taskVars, Nowhere
  <2>2. QED BY <1>1, <2>1, JobsFrame DEF In
<1>7. CASE \/ \E r \in {"again", "nomem"} : PagingInFails(r)
           \/ NoCandidate
           \/ \E a \in Allocs, p \in Places : ResidentOne(a, p)
  <2>1. UNCHANGED <<jobs, send, back, fence_id, st, leaving>> /\ pg # "outwait"
    BY <1>7 DEF PagingInFails, NoCandidate, ResidentOne, fenceVars, taskVars
  <2>2. QED BY <1>1, <2>1, JobsFrame
<1>8. CASE (\E t \in Tasks : TaskResident(t)) \/ \E c \in Clients : ClientResident(c)
  <2>1. UNCHANGED <<jobs, send, back, fence_id, leaving>> /\ pg = "set"
    BY <1>8 DEF TaskResident, ClientResident, Resident, fenceVars
  <2>2. \A t \in Tasks : st'[t] = "patch" => st[t] = "patch"
    BY <1>1, <1>8 DEF TaskResident, ClientResident, TypeOK
  <2>3. QED BY <1>1, <2>1, <2>2, JobsFrame
<1>9. QED BY <1>2, <1>3, <1>4, <1>5, <1>6, <1>7, <1>8 DEF PagerStep

LEMMA NextJobs ==
  ASSUME CountsInv, FencesOK, JobsOK, [Next]_vars PROVE JobsOK'
<1>1. TypeOK /\ PlacesInv
  BY DEF CountsInv
<1>2. ASSUME NEW t \in Tasks,
             \/ Mark(t) \/ LockPaging(t) \/ FakeSubmit(t)
             \/ \E S \in SUBSET Allocs : Render(t, S)
      PROVE  JobsOK'
  <2>1. /\ UNCHANGED <<jobs, send, back, fence_id, leaving>>
        /\ pg = "outwait" => pg' = "outwait" /\ pgfence' = pgfence
    BY <1>1, <1>2
    DEF Mark, LockPaging, FakeSubmit, Render, fenceVars, pagerVars, PlacesInv, OnlyPaged
  <2>2. \A u \in Tasks : st'[u] = "patch" => st[u] = "patch"
    BY <1>1, <1>2 DEF Mark, LockPaging, FakeSubmit, Render, TypeOK
  <2>3. QED BY <1>1, <2>1, <2>2, JobsFrame
<1>3. ASSUME NEW e \in Engines, GpuFinish(e) PROVE JobsOK'
  <2>1. /\ jobs' = {j \in jobs : ~(j.engine = e /\ j.fence = back[e] + 1)}
        /\ back' = [back EXCEPT ![e] = @ + 1] /\ back[e] \in Nat
        /\ UNCHANGED <<send, fence_id, st, leaving, pg, pgfence>>
    BY <1>1, <1>3 DEF GpuFinish, taskVars, pagerVars, TypeOK
  <2>2. ASSUME NEW j \in jobs' PROVE JobOK(j)'
    <3>1. j \in jobs /\ JobOK(j) /\ j.engine \in Engines /\ j.fence \in Nat
      BY <2>1 DEF JobsOK, JobType
    <3>2. back'[j.engine] < j.fence
      <4>1. CASE j.engine = e
        <5>1. j.fence # back[e] + 1 /\ back[e] < j.fence /\ back'[e] = back[e] + 1
          BY <1>1, <2>1, <2>2, <3>1, <4>1 DEF JobOK, TypeOK
        <5>2. QED BY <2>1, <3>1, <4>1, <5>1
      <4>2. CASE j.engine # e
        BY <1>1, <2>1, <3>1, <4>2 DEF JobOK, TypeOK
      <4>3. QED BY <4>1, <4>2
    <3>3. QED BY <2>1, <3>1, <3>2 DEF JobOK, In
  <2>3. QED BY <2>1, <2>2 DEF JobsOK, JobType
<1>4. CASE \/ \E a \in Allocs : \/ CreateAllocation(a) \/ Unreference(a)
                                \/ DestroyDefer(a) \/ DestroyAllocation(a)
           \/ \E c \in Clients : MarkUnpagable(c) \/ PrepareOne(c) \/ MarkPagable(c)
           \/ UNCHANGED vars
  <2>1. /\ UNCHANGED <<jobs, send, back, fence_id, leaving, st>>
        /\ pg = "outwait" => pg' = "outwait" /\ pgfence' = pgfence
    BY <1>1, <1>4
    DEF CreateAllocation, Unreference, DestroyDefer, DestroyAllocation, MarkUnpagable,
        PrepareOne, MarkPagable, vars, fenceVars, pagerVars, taskVars, PlacesInv, OnlyPaged
  <2>2. QED BY <1>1, <2>1, JobsFrame
<1>5. QED
  BY <1>1, <1>2, <1>3, <1>4, SubmitDmaJobs, KickOffJobs, PagerJobs DEF Next, WorkerStep

\* A step that keeps what the jobs use.
LEMMA StaysFrame ==
  ASSUME StaysOK, jobs' \subseteq jobs,
         \A j \in jobs : \A a \in In(j.uses) :
           /\ failed'[a] = 0 => failed[a] = 0
           /\ failed[a] = 0 /\ life[a] # "gone" => life'[a] # "gone"
           /\ failed[a] = 0 /\ At(a, j.uses[a]) => At(a, j.uses[a])'
  PROVE  StaysOK'
<1> SUFFICES ASSUME NEW j \in jobs', NEW a \in In(j.uses), failed'[a] = 0
             PROVE  life'[a] # "gone" /\ At(a, j.uses[a])'
  BY DEF StaysOK, JobStays, In
<1>1. j \in jobs /\ failed[a] = 0 /\ life[a] # "gone" /\ At(a, j.uses[a])
  BY DEF StaysOK, JobStays
<1>2. QED BY <1>1

LEMMA LifeStays ==
  ASSUME CountsInv, JobsOK, AliveOK, StaysOK, NEW a \in Allocs,
         \/ CreateAllocation(a) \/ Unreference(a) \/ DestroyDefer(a) \/ DestroyAllocation(a)
  PROVE  StaysOK'
<1>1. /\ TypeOK /\ PlacesInv /\ UNCHANGED <<jobs, coming, leaving, failed>>
      /\ \A b \in Allocs : b # a => life'[b] = life[b] /\ seg'[b] = seg[b]
  BY DEF CreateAllocation, Unreference, DestroyDefer, DestroyAllocation, CountsInv, TypeOK,
         fenceVars, pagerVars
<1>2. CASE ~DestroyAllocation(a)
  <2>1. life'[a] # "gone"
    BY <1>1, <1>2 DEF CreateAllocation, Unreference, DestroyDefer, TypeOK
  <2>2. \A p \in Places : seg[a] = p => seg'[a] = p
    BY <1>1, <1>2, PagingAssumption
    DEF CreateAllocation, Unreference, DestroyDefer, PlacesInv, Created, TypeOK
  <2>3. \A j \in jobs : \A b \in In(j.uses) : j.uses[b] \in Places /\ b \in Allocs
    BY DEF JobsOK, JobType, In
  <2>4. \A j \in jobs : \A b \in In(j.uses) : At(b, j.uses[b]) => At(b, j.uses[b])'
    BY <1>1, <2>2, <2>3 DEF At
  <2>5. \A j \in jobs : \A b \in In(j.uses) : life[b] # "gone" => life'[b] # "gone"
    BY <1>1, <2>1, <2>3
  <2>6. QED BY <1>1, <2>4, <2>5, StaysFrame
<1>3. CASE DestroyAllocation(a)
  <2>1. ASSUME NEW j \in jobs, NEW b \in In(j.uses), failed[b] = 0
        PROVE  b # a /\ b \in Allocs
    <3>1. InHwQueue(b) /\ b \in Allocs
      BY <1>1, JobBusy DEF In
    <3>2. life[b] \in {"live", "deferred"}
      BY <2>1, <3>1 DEF AliveOK
    <3>3. QED BY <1>3, <3>1, <3>2 DEF DestroyAllocation
  <2>2. QED BY <1>1, <2>1, StaysFrame DEF At
<1>4. QED BY <1>2, <1>3

\* New work uses allocations that are alive, at their places.
LEMMA NewStays ==
  ASSUME CountsInv, AliveOK, StaysOK, NEW n \in JobType, jobs' = jobs \cup {n},
         UNCHANGED <<life, seg, coming, leaving>>,
         \A a \in Allocs : failed'[a] = 0 => failed[a] = 0,
         \A a \in In(n.uses) : /\ At(a, n.uses[a])
                               /\ Needed(a) \/ InHwQueue(a)
  PROVE  StaysOK'
<1>1. ASSUME NEW a \in In(n.uses), failed'[a] = 0
      PROVE  life'[a] # "gone" /\ At(a, n.uses[a])'
  <2>1. a \in Allocs /\ failed[a] = 0
    BY <1>1 DEF In
  <2>2. life[a] \in {"live", "deferred"}
    BY <2>1 DEF AliveOK
  <2>3. QED BY <2>2 DEF At
<1>2. ASSUME NEW j \in jobs, NEW a \in In(j.uses), failed'[a] = 0
      PROVE  life'[a] # "gone" /\ At(a, j.uses[a])'
  <2>1. failed[a] = 0
    BY <1>2 DEF In
  <2>2. QED BY <2>1 DEF StaysOK, JobStays, At
<1>3. QED BY <1>1, <1>2 DEF StaysOK, JobStays, In

LEMMA SubmitPagingStays ==
  ASSUME CountsInv, AliveOK, StaysOK, NEW where \in [Allocs -> Places \cup {NoPlace}],
         SubmitPaging(where), UNCHANGED <<life, seg, coming, leaving>>,
         \A a \in Allocs : failed'[a] = 0 => failed[a] = 0,
         where = coming \/ where = leaving
  PROVE  StaysOK'
<1>1. PagingEngine \in Engines /\ send[PagingEngine] + 1 \in Nat
  BY PagingAssumption DEF CountsInv, TypeOK
<1>2. PICK n \in JobType : n = Job(PagingEngine, send[PagingEngine] + 1, where)
  BY <1>1 DEF Job, JobType
<1>3. n.uses = where /\ jobs' = jobs \cup {n}
  BY <1>2 DEF Job, SubmitPaging
<1>4. \A a \in In(n.uses) : At(a, n.uses[a]) /\ Needed(a)
  BY <1>3 DEF In, At, Needed
<1>5. QED BY <1>3, <1>4, NewStays

LEMMA NextStays ==
  ASSUME CountsInv, FencesOK, JobsOK, AliveOK, ResidentOK, StaysOK, [Next]_vars
  PROVE  StaysOK'
<1>1. TypeOK /\ PlacesInv
  BY DEF CountsInv
<1>2. ASSUME NEW t \in Tasks, KickOff(t) PROVE StaysOK'
  <2> DEFINE where == [a \in Allocs |-> IF a \in allocs[t] THEN seg[a] ELSE NoPlace]
             e == EngineOf[t]
  <2>1. /\ e \in Engines /\ send[e] \in Nat /\ st[t] = "patch"
        /\ where \in [Allocs -> Places \cup {NoPlace}]
        /\ UNCHANGED <<life, seg, coming, leaving, failed>>
        /\ jobs' = jobs \cup {Job(e, send[e], where)}
    BY <1>1, <1>2, PagingAssumption DEF KickOff, TypeOK, allocVars, pagerVars
  <2>2. PICK n \in JobType : n = Job(e, send[e], where)
    BY <2>1 DEF Job, JobType
  <2>3. n.uses = where /\ jobs' = jobs \cup {n}
    BY <2>1, <2>2 DEF Job
  <2>4. \A a \in In(n.uses) : a \in allocs[t] /\ At(a, n.uses[a])
    BY <2>3 DEF In, At
  <2>5. \A a \in In(n.uses) : InHwQueue(a)
    BY <1>1, <2>1, <2>4, PatchBusy
  <2>6. QED BY <2>1, <2>3, <2>4, <2>5, NewStays
<1>3. CASE SubmitOut
  <2>1. /\ SubmitPaging(leaving) /\ UNCHANGED <<life, seg, coming, leaving, failed>>
        /\ leaving \in [Allocs -> Places \cup {NoPlace}]
    BY <1>1, <1>3 DEF SubmitOut, allocVars, TypeOK
  <2>2. QED BY <2>1, SubmitPagingStays
<1>4. CASE SubmitIn
  <2>1. /\ UNCHANGED <<life, seg, coming, leaving>>
        /\ coming \in [Allocs -> Places \cup {NoPlace}]
        /\ \A a \in Allocs : failed'[a] = 0 => failed[a] = 0
    BY <1>1, <1>4, PagingAssumption DEF SubmitIn, allocVars, TypeOK
  <2>2. CASE SubmitPaging(coming)
    BY <2>1, <2>2, SubmitPagingStays
  <2>3. CASE UNCHANGED fenceVars
    BY <2>1, <2>3, StaysFrame DEF fenceVars, At, In
  <2>4. QED BY <1>4, <2>2, <2>3 DEF SubmitIn
<1>5. \A j \in jobs : \A a \in In(j.uses) : a \in Allocs /\ j.uses[a] \in Places
  BY DEF JobsOK, JobType, In
<1>6. ASSUME UNCHANGED <<life, failed>>, jobs' \subseteq jobs,
             \A j \in jobs : \A a \in In(j.uses) : At(a, j.uses[a]) => At(a, j.uses[a])'
      PROVE  StaysOK'
  BY <1>6, StaysFrame
<1>7. ASSUME NEW a \in Allocs, NEW p \in Places, ResidentOne(a, p) PROVE StaysOK'
  <2>1. /\ UNCHANGED <<life, failed, jobs, seg, leaving>>
        /\ coming' = [coming EXCEPT ![a] = p] /\ coming[a] = NoPlace
    BY <1>1, <1>7 DEF ResidentOne, fenceVars, PlacesInv, OnlyPaged
  <2>2. \A b \in Allocs, q \in Places : At(b, q) => At(b, q)'
    BY <1>1, <2>1, PagingAssumption DEF At, TypeOK
  <2>3. QED BY <1>5, <1>6, <2>1, <2>2
<1>8. ASSUME NEW S \in SUBSET Allocs, Unresident(S) PROVE StaysOK'
  <2>1. /\ UNCHANGED <<life, failed, jobs, coming>> /\ \A a \in Allocs : leaving[a] = NoPlace
        /\ leaving' = [a \in Allocs |-> IF a \in S THEN seg[a] ELSE NoPlace]
        /\ seg' = [a \in Allocs |-> IF a \in S THEN NoPlace ELSE seg[a]]
    BY <1>1, <1>8 DEF Unresident, fenceVars, PlacesInv, OnlyPaged, Nowhere
  <2>2. \A b \in Allocs, q \in Places : At(b, q) => At(b, q)'
    BY <2>1, PagingAssumption DEF At
  <2>3. QED BY <1>5, <1>6, <2>1, <2>2
<1>9. ASSUME NEW F \in SUBSET Allocs, PagingOut(F) PROVE StaysOK'
  <2>1. /\ UNCHANGED <<life, failed, jobs, coming>>
        /\ \A a \in F : seg[a] = NoPlace
        /\ seg' = [a \in Allocs |-> IF a \in F THEN leaving[a] ELSE seg[a]]
        /\ leaving' = [a \in Allocs |-> IF a \in F THEN NoPlace ELSE leaving[a]]
    BY <1>1, <1>9 DEF PagingOut, fenceVars, In, PlacesInv, OneOwner
  <2>2. \A b \in Allocs, q \in Places : At(b, q) => At(b, q)'
    BY <2>1, PagingAssumption DEF At
  <2>3. QED BY <1>5, <1>6, <2>1, <2>2
<1>10. CASE ReleaseVideoMemory
  <2>1. /\ UNCHANGED <<life, failed, jobs, seg, coming>> /\ Back(PagingEngine, pgfence)
    BY <1>10 DEF ReleaseVideoMemory, CopyDone, fenceVars
  <2>2. ASSUME NEW j \in jobs, NEW a \in In(j.uses) PROVE leaving[a] = NoPlace
    <3>1. SUFFICES ASSUME leaving[a] # NoPlace PROVE FALSE
      OBVIOUS
    <3>2. JobOK(j) /\ j.fence \in Nat /\ j.engine = PagingEngine /\ j.fence <= pgfence
      BY <3>1 DEF JobsOK, JobType, JobOK
    <3>3. QED BY <1>1, <2>1, <3>2, PagingAssumption DEF JobOK, Back, TypeOK
  <2>3. \A j \in jobs : \A a \in In(j.uses) : At(a, j.uses[a]) => At(a, j.uses[a])'
    BY <1>5, <2>1, <2>2, PagingAssumption DEF At
  <2>4. QED BY <1>6, <2>1, <2>3
<1>11. CASE (\E t \in Tasks : TaskResident(t)) \/ \E c \in Clients : ClientResident(c)
  <2>1. /\ UNCHANGED <<life, failed, jobs, leaving>>
        /\ seg' = [a \in Allocs |-> IF coming[a] # NoPlace THEN coming[a] ELSE seg[a]]
    BY <1>11 DEF TaskResident, ClientResident, Resident, fenceVars
  <2>2. \A b \in Allocs, q \in Places : At(b, q) => At(b, q)'
    BY <1>1, <2>1, PagingAssumption DEF At, PlacesInv, OneOwner
  <2>3. QED BY <1>5, <1>6, <2>1, <2>2
<1>12. CASE \/ \E t \in Tasks : \/ Mark(t) \/ LockPaging(t) \/ SubmitDma(t) \/ FakeSubmit(t)
                                \/ \E S \in SUBSET Allocs : Render(t, S)
            \/ \E c \in Clients : MarkUnpagable(c) \/ PrepareOne(c) \/ MarkPagable(c)
            \/ (\E r \in {"again", "nomem"} : PagingInFails(r)) \/ NoCandidate
            \/ \E e \in Engines : GpuFinish(e)
            \/ UNCHANGED vars
  <2>1. UNCHANGED <<life, seg, coming, leaving, failed>> /\ jobs' \subseteq jobs
    BY <1>12
    DEF Mark, LockPaging, SubmitDma, FakeSubmit, Render, MarkUnpagable, PrepareOne,
        MarkPagable, PagingInFails, NoCandidate, GpuFinish, vars, allocVars, fenceVars,
        pagerVars
  <2>2. QED BY <1>6, <2>1 DEF At
<1>13. ASSUME PagerStep PROVE StaysOK'
  BY <1>3, <1>4, <1>7, <1>8, <1>9, <1>10, <1>11, <1>12, <1>13 DEF PagerStep
<1>14. QED BY <1>2, <1>12, <1>13, LifeStays DEF Next, WorkerStep

\* Neither paging nor destruction takes memory from under a task or a copy.
THEOREM MemoryStays == Spec => []GpuMemoryStays
<1>1. Init => UseInv
  BY PagingAssumption
  DEF Init, UseInv, FencesOK, JobsOK, AliveOK, ResidentOK, StaysOK, Pinning, Needed, InQueue,
      InWorker, InHwQueue, Back, Nowhere, Zero
<1>2. CountsInv /\ UseInv /\ [Next]_vars => UseInv'
  BY NextFences, NextJobs, NextAlive, NextResident, NextStays DEF UseInv
<1>3. UseInv => GpuMemoryStays
  BY DEF UseInv, ResidentOK, StaysOK, JobStays, GpuMemoryStays
<1>4. QED BY <1>1, <1>2, <1>3, InitCounts, NextCountsInv, PTL DEF Spec

-----------------------------------------------------------------------------
(* A pinned allocation stays in video memory: force_unpagable counts its   *)
(* pins as long as they fit in its bits.                                   *)

LEMMA PinModulo ==
  ASSUME NEW n \in Nat, NEW m \in Nat \ {0}, n < m
  PROVE  n % m = n /\ (n + m) % m = n
  OBVIOUS

LEMMA PinTypes ==
  ASSUME NEW a \in Allocs
  PROVE  /\ IsFiniteSet(Pinning(a)) /\ Cardinality(Pinning(a)) \in Nat
         /\ Cardinality(Pinning(a)) = 0 <=> Pinning(a) = {}
         /\ \A c \in Clients : PinOf[c] = a /\ c \notin Pinning(a) =>
              Cardinality(Pinning(a)) + 1 <= Cardinality({d \in Clients : PinOf[d] = a})
<1> DEFINE C == {d \in Clients : PinOf[d] = a}
<1>1. IsFiniteSet(C) /\ Pinning(a) \subseteq C /\ IsFiniteSet(Pinning(a))
  BY FS_Subset, PagingAssumption DEF Pinning
<1>2. Cardinality(Pinning(a)) \in Nat /\ (Cardinality(Pinning(a)) = 0 <=> Pinning(a) = {})
  BY <1>1, FS_CardinalityType, FS_EmptySet
<1>3. ASSUME NEW c \in Clients, PinOf[c] = a, c \notin Pinning(a)
      PROVE  Cardinality(Pinning(a)) + 1 <= Cardinality(C)
  <2>1. Cardinality(Pinning(a) \cup {c}) = Cardinality(Pinning(a)) + 1
    BY <1>1, <1>3, FS_AddElement
  <2>2. Pinning(a) \cup {c} \subseteq C
    BY <1>1, <1>3
  <2>3. QED BY <1>1, <2>1, <2>2, FS_Subset
<1>4. QED BY <1>1, <1>2, <1>3

\* Steps that pin and unpin nothing.
LEMMA PinsFrame ==
  ASSUME PinCounts, UNCHANGED force_unpagable,
         \A c \in Clients : client'[c] \in {"lock", "prepare", "pinned"}
                              <=> client[c] \in {"lock", "prepare", "pinned"}
  PROVE  PinCounts'
<1>1. \A a \in Allocs : Pinning(a)' = Pinning(a)
  BY DEF Pinning
<1>2. QED BY <1>1 DEF PinCounts

LEMMA PinMore ==
  ASSUME FewPins, TypeOK, PinCounts, NEW c \in Clients, MarkUnpagable(c)
  PROVE  PinCounts'
<1> DEFINE a == PinOf[c]
<1>1. /\ a \in Allocs /\ client[c] = "idle"
      /\ force_unpagable' = [force_unpagable EXCEPT ![a] = (@ + 1) % PinModulus]
      /\ \E s \in {"lock", "pinned"} : client' = [client EXCEPT ![c] = s]
  BY PagingAssumption DEF MarkUnpagable
<1>2. /\ Pinning(a)' = Pinning(a) \cup {c} /\ c \notin Pinning(a)
      /\ \A b \in Allocs : b # a => Pinning(b)' = Pinning(b)
  BY <1>1 DEF Pinning, TypeOK
<1>3. /\ Cardinality(Pinning(a)') = Cardinality(Pinning(a)) + 1
      /\ Cardinality(Pinning(a)) + 1 \in Nat
      /\ Cardinality(Pinning(a)) + 1 < PinModulus
  <2>1. Cardinality(Pinning(a)') = Cardinality(Pinning(a)) + 1
    BY <1>1, <1>2, PinTypes, FS_AddElement
  <2>2. /\ Cardinality(Pinning(a)) + 1 <= Cardinality({d \in Clients : PinOf[d] = a})
        /\ Cardinality(Pinning(a)) \in Nat
    BY <1>1, <1>2, PinTypes
  <2>3. Cardinality({d \in Clients : PinOf[d] = a}) \in Nat
    BY FS_Subset, FS_CardinalityType, PagingAssumption
  <2>4. Cardinality({d \in Clients : PinOf[d] = a}) < PinModulus
    BY <1>1 DEF FewPins
  <2>5. QED BY <2>1, <2>2, <2>3, <2>4, PagingAssumption
<1>4. force_unpagable'[a] = Cardinality(Pinning(a))'
  <2>1. force_unpagable'[a] = (Cardinality(Pinning(a)) + 1) % PinModulus
    BY <1>1 DEF PinCounts, TypeOK
  <2>2. QED BY <1>3, <2>1, PinModulo, PagingAssumption
<1>5. \A b \in Allocs : b # a => force_unpagable'[b] = Cardinality(Pinning(b))'
  BY <1>1, <1>2 DEF PinCounts, TypeOK
<1>6. QED BY <1>4, <1>5 DEF PinCounts

LEMMA PinLess ==
  ASSUME FewPins, TypeOK, PinCounts, NEW c \in Clients, MarkPagable(c)
  PROVE  PinCounts'
<1> DEFINE a == PinOf[c]
<1>1. /\ a \in Allocs /\ client[c] = "pinned" /\ client' = [client EXCEPT ![c] = "done"]
      /\ force_unpagable' =
           [force_unpagable EXCEPT ![a] = (@ + PinModulus - 1) % PinModulus]
  BY PagingAssumption DEF MarkPagable
<1>2. /\ Pinning(a)' = Pinning(a) \ {c} /\ c \in Pinning(a)
      /\ \A b \in Allocs : b # a => Pinning(b)' = Pinning(b)
  BY <1>1 DEF Pinning, TypeOK
<1>3. PICK n \in Nat : /\ Cardinality(Pinning(a)') = n /\ Cardinality(Pinning(a)) = n + 1
                       /\ n < PinModulus
  <2>1. /\ Cardinality(Pinning(a)') = Cardinality(Pinning(a)) - 1
        /\ Cardinality(Pinning(a)') \in Nat /\ Cardinality(Pinning(a)) \in Nat
    BY <1>1, <1>2, PinTypes, FS_RemoveElement, FS_CardinalityType
  <2>2. Cardinality(Pinning(a)) <= Cardinality({d \in Clients : PinOf[d] = a})
    BY FS_Subset, PagingAssumption DEF Pinning
  <2>3. Cardinality({d \in Clients : PinOf[d] = a}) \in Nat
    BY FS_Subset, FS_CardinalityType, PagingAssumption
  <2>4. Cardinality({d \in Clients : PinOf[d] = a}) < PinModulus
    BY <1>1 DEF FewPins
  <2>5. QED BY <2>1, <2>2, <2>3, <2>4, PagingAssumption
<1>4. force_unpagable'[a] = Cardinality(Pinning(a))'
  <2>1. force_unpagable'[a] = (n + 1 + PinModulus - 1) % PinModulus
    BY <1>1, <1>3 DEF PinCounts, TypeOK
  <2>2. n + 1 + PinModulus - 1 = n + PinModulus
    BY PagingAssumption
  <2>3. QED BY <1>3, <2>1, <2>2, PinModulo, PagingAssumption
<1>5. \A b \in Allocs : b # a => force_unpagable'[b] = Cardinality(Pinning(b))'
  BY <1>1, <1>2 DEF PinCounts, TypeOK
<1>6. QED BY <1>4, <1>5 DEF PinCounts

LEMMA NextPinCounts ==
  ASSUME FewPins, CountsInv, PinCounts, [Next]_vars PROVE PinCounts'
<1>1. TypeOK /\ PagerOK
  BY DEF CountsInv
<1>2. ASSUME NEW c \in Clients, PrepareOne(c) PROVE PinCounts'
  BY <1>1, <1>2, PinsFrame DEF PrepareOne, TypeOK
<1>3. ASSUME NEW c \in Clients, ClientResident(c) PROVE PinCounts'
  <2>1. /\ client[c] = "prepare" /\ client' = [client EXCEPT ![c] = "pinned"]
        /\ UNCHANGED force_unpagable
    BY <1>1, <1>3 DEF ClientResident, Resident, PagerOK
  <2>2. QED BY <1>1, <2>1, PinsFrame DEF TypeOK
<1>4. ASSUME PagerStep, ~\E c \in Clients : ClientResident(c) PROVE PinCounts'
  <2>1. UNCHANGED <<client, force_unpagable>>
    BY <1>4
    DEF PagerStep, ResidentOne, PagingInFails, Unresident, PagingOut, NoCandidate, SubmitOut,
        ReleaseVideoMemory, SubmitIn, TaskResident, Resident, clientVars
  <2>2. QED BY <2>1, PinsFrame
<1>5. ASSUME NEW t \in Tasks, WorkerStep(t) \/ \E S \in SUBSET Allocs : Render(t, S)
      PROVE  PinCounts'
  <2>1. UNCHANGED <<client, force_unpagable>>
    BY <1>5
    DEF WorkerStep, Mark, LockPaging, SubmitDma, KickOff, FakeSubmit, Render, clientVars
  <2>2. QED BY <2>1, PinsFrame
<1>6. CASE \/ \E a \in Allocs : \/ CreateAllocation(a) \/ Unreference(a)
                                \/ DestroyDefer(a) \/ DestroyAllocation(a)
           \/ \E e \in Engines : GpuFinish(e)
           \/ UNCHANGED vars
  <2>1. UNCHANGED <<client, force_unpagable>>
    BY <1>6
    DEF CreateAllocation, Unreference, DestroyDefer, DestroyAllocation, GpuFinish, vars,
        clientVars
  <2>2. QED BY <2>1, PinsFrame
<1>7. QED BY <1>1, <1>2, <1>3, <1>4, <1>5, <1>6, PinMore, PinLess DEF Next

\* Whatever is pinned keeps its place, and a pin that ends in "pinned" has seen one.
LEMMA PinnedFrame ==
  ASSUME PinnedIsResident,
         \A c \in Clients :
           client'[c] = "pinned" /\ failed'[PinOf[c]] = 0 =>
             \/ seg'[PinOf[c]] # NoPlace
             \/ /\ client[c] = "pinned" /\ failed[PinOf[c]] = 0
                /\ seg[PinOf[c]] # NoPlace => seg'[PinOf[c]] # NoPlace
  PROVE  PinnedIsResident'
  BY DEF PinnedIsResident

LEMMA NextPinned ==
  ASSUME CountsInv, AliveOK, PinCounts, PinnedIsResident, [Next]_vars
  PROVE  PinnedIsResident'
<1>1. TypeOK /\ PagerOK /\ PlacesInv
  BY DEF CountsInv
<1>2. \A c \in Clients : client[c] = "pinned" =>
        /\ PinOf[c] \in Allocs /\ life[PinOf[c]] = "live"
        /\ force_unpagable[PinOf[c]] # 0
  <2>1. SUFFICES ASSUME NEW c \in Clients, client[c] = "pinned"
                 PROVE  /\ PinOf[c] \in Allocs /\ life[PinOf[c]] = "live"
                        /\ force_unpagable[PinOf[c]] # 0
    OBVIOUS
  <2>2. PinOf[c] \in Allocs /\ Pinning(PinOf[c]) # {}
    BY <2>1, PagingAssumption DEF Pinning
  <2>3. QED BY <2>2, PinTypes DEF AliveOK, PinCounts
<1>3. ASSUME NEW a \in Allocs,
             \/ CreateAllocation(a) \/ Unreference(a) \/ DestroyDefer(a)
             \/ DestroyAllocation(a)
      PROVE  PinnedIsResident'
  <2>1. /\ UNCHANGED <<client, failed>>
        /\ \A b \in Allocs : life[b] = "live" => seg'[b] = seg[b]
    BY <1>1, <1>3
    DEF CreateAllocation, Unreference, DestroyDefer, DestroyAllocation, clientVars, TypeOK
  <2>2. QED BY <1>2, <2>1, PinnedFrame
<1>4. ASSUME NEW c \in Clients, MarkUnpagable(c) \/ PrepareOne(c) \/ MarkPagable(c)
      PROVE  PinnedIsResident'
  <2>1. UNCHANGED <<seg, failed>>
    BY <1>4 DEF MarkUnpagable, PrepareOne, MarkPagable, allocVars
  <2>2. client'[c] = "pinned" => seg[PinOf[c]] # NoPlace
    BY <1>1, <1>4 DEF MarkUnpagable, PrepareOne, MarkPagable, TypeOK
  <2>3. \A d \in Clients : d # c => client'[d] = client[d]
    BY <1>1, <1>4 DEF MarkUnpagable, PrepareOne, MarkPagable, TypeOK
  <2>4. QED BY <2>1, <2>2, <2>3, PinnedFrame
<1>5. ASSUME NEW S \in SUBSET Allocs, Unresident(S) PROVE PinnedIsResident'
  <2>1. UNCHANGED <<client, failed>>
    BY <1>5 DEF Unresident, clientVars
  <2>2. \A c \in Clients : client[c] = "pinned" => seg'[PinOf[c]] = seg[PinOf[c]]
    BY <1>2, <1>5 DEF Unresident, CanPageOut
  <2>3. QED BY <2>1, <2>2, PinnedFrame
<1>6. ASSUME NEW F \in SUBSET Allocs, PagingOut(F) PROVE PinnedIsResident'
  <2>1. /\ UNCHANGED <<client, failed>> /\ \A a \in F : leaving[a] # NoPlace
        /\ seg' = [a \in Allocs |-> IF a \in F THEN leaving[a] ELSE seg[a]]
    BY <1>6 DEF PagingOut, clientVars, In
  <2>2. QED BY <2>1, PinnedFrame, PagingAssumption
<1>7. ASSUME \/ \E t \in Tasks : TaskResident(t)
             \/ \E c \in Clients : ClientResident(c)
      PROVE  PinnedIsResident'
  <2>1. /\ seg' = [a \in Allocs |-> IF coming[a] # NoPlace THEN coming[a] ELSE seg[a]]
        /\ UNCHANGED failed
    BY <1>7 DEF TaskResident, ClientResident, Resident
  <2>2. ASSUME NEW d \in Clients, client'[d] = "pinned", client[d] # "pinned",
               failed[PinOf[d]] = 0
        PROVE  coming[PinOf[d]] # NoPlace
    <3>1. pager = d /\ pg = "set"
      BY <1>1, <1>7, <2>2 DEF TaskResident, ClientResident, Resident, TypeOK
    <3>2. In(coming) # {} /\ In(coming) \subseteq {PinOf[d]}
      BY <1>1, <2>2, <3>1, PagingAssumption DEF PagerOK, TypeOK
    <3>3. QED BY <3>2 DEF In
  <2>3. QED BY <2>1, <2>2, PinnedFrame, PagingAssumption
<1>8. ASSUME PagerStep,
             ~\E S \in SUBSET Allocs : Unresident(S) \/ PagingOut(S),
             ~\E t \in Tasks : TaskResident(t), ~\E c \in Clients : ClientResident(c)
      PROVE  PinnedIsResident'
  <2>1. UNCHANGED <<client, seg>>
    BY <1>8
    DEF PagerStep, ResidentOne, PagingInFails, NoCandidate, SubmitOut, ReleaseVideoMemory,
        SubmitIn, clientVars, allocVars
  <2>2. \A a \in Allocs : failed'[a] = 0 => failed[a] = 0
    <3>1. CASE SubmitIn
      BY <1>1, <3>1, PagingAssumption DEF SubmitIn, TypeOK
    <3>2. CASE ~SubmitIn
      BY <1>8, <3>2
      DEF PagerStep, ResidentOne, PagingInFails, NoCandidate, SubmitOut, ReleaseVideoMemory
    <3>3. QED BY <3>1, <3>2
  <2>3. QED BY <2>1, <2>2, PinnedFrame, PagingAssumption
<1>9. CASE \/ \E t \in Tasks : WorkerStep(t) \/ \E S \in SUBSET Allocs : Render(t, S)
           \/ \E e \in Engines : GpuFinish(e)
           \/ UNCHANGED vars
  <2>1. UNCHANGED <<client, seg, failed>>
    BY <1>9
    DEF WorkerStep, Mark, LockPaging, SubmitDma, KickOff, FakeSubmit, Render, GpuFinish, vars,
        clientVars, allocVars
  <2>2. QED BY <2>1, PinnedFrame
<1>10. QED BY <1>3, <1>4, <1>5, <1>6, <1>7, <1>8, <1>9 DEF Next

\* An allocation somebody mapped or displays stays in video memory, unless the pin
\* found no memory, as long as the pins of one allocation fit in force_unpagable.
THEOREM PinnedStays == ASSUME FewPins PROVE Spec => []PinnedIsResident
<1> DEFINE Inv == AliveOK /\ PinCounts /\ PinnedIsResident
<1>1. Init => Inv
  <2>1. ASSUME Init PROVE AliveOK /\ PinnedIsResident
    BY <2>1
    DEF Init, AliveOK, Pinning, Needed, InQueue, InWorker, InHwQueue, Back, Nowhere, Zero,
        PinnedIsResident
  <2>2. ASSUME Init, NEW a \in Allocs PROVE force_unpagable[a] = Cardinality(Pinning(a))
    <3>1. Pinning(a) = {} /\ force_unpagable[a] = 0
      BY <2>2 DEF Init, Pinning, Zero
    <3>2. QED BY <3>1, FS_EmptySet
  <2>3. QED BY <2>1, <2>2 DEF PinCounts
<1>2. CountsInv /\ Inv /\ [Next]_vars => Inv'
  BY NextAlive, NextPinCounts, NextPinned
<1>3. QED BY <1>1, <1>2, InitCounts, NextCountsInv, PTL DEF Spec

-----------------------------------------------------------------------------
(* What is paged in is waited for.                                       *)

\* A worker takes a task when it has none.
LEMMA NextOneTask == ASSUME CountsInv, OneTask, [Next]_vars PROVE OneTask'
<1>1. CASE UNCHANGED <<st, allocs>>
  BY <1>1 DEF OneTask, InWorker
<1>2. ASSUME NEW t \in Tasks,
             \A u \in Tasks : u # t => st'[u] = st[u] /\ allocs'[u] = allocs[u],
             st'[t] # "new", InWorker(t)' => InWorker(t) \/ WorkerFree(t)
      PROVE  OneTask'
  <2>1. \A u \in Tasks : u # t => (InWorker(u)' <=> InWorker(u))
    BY <1>2 DEF InWorker
  <2>2. QED BY <1>2, <2>1 DEF OneTask, WorkerFree
<1>3. TypeOK /\ PagerOK
  BY DEF CountsInv
<1>4. ASSUME NEW t \in Tasks, WorkerStep(t) \/ \E S \in SUBSET Allocs : Render(t, S)
      PROVE  OneTask'
  <2>1. \A u \in Tasks : u # t => st'[u] = st[u] /\ allocs'[u] = allocs[u]
    BY <1>3, <1>4 DEF WorkerStep, Render, Mark, LockPaging, SubmitDma, KickOff, FakeSubmit, TypeOK
  <2>2. st'[t] # "new"
    BY <1>3, <1>4 DEF WorkerStep, Render, Mark, LockPaging, SubmitDma, KickOff, FakeSubmit, TypeOK
  <2>3. InWorker(t)' => InWorker(t) \/ WorkerFree(t)
    BY <1>3, <1>4
    DEF WorkerStep, Render, Mark, LockPaging, SubmitDma, KickOff, FakeSubmit, TypeOK, InWorker
  <2>4. QED BY <1>2, <2>1, <2>2, <2>3
<1>5. ASSUME NEW t \in Tasks, TaskResident(t) PROVE OneTask'
  <2>1. st[t] = "paging" /\ UNCHANGED allocs
    BY <1>3, <1>5 DEF TaskResident, Resident, PagerOK
  <2>2. \E s \in {"ready", "retry", "drop"} : st' = [st EXCEPT ![t] = s]
    BY <1>5 DEF TaskResident
  <2>3. /\ \A u \in Tasks : u # t => st'[u] = st[u]
        /\ st'[t] # "new" /\ InWorker(t)
    BY <1>3, <2>1, <2>2 DEF TypeOK, InWorker
  <2>4. QED BY <1>2, <2>1, <2>3
<1>6. ASSUME PagerStep, ~\E t \in Tasks : TaskResident(t) PROVE OneTask'
  BY <1>1, <1>6
  DEF PagerStep, ResidentOne, PagingInFails, Unresident, PagingOut, NoCandidate, SubmitOut,
      ReleaseVideoMemory, SubmitIn, ClientResident, Resident, taskVars
<1>7. CASE \/ \E a \in Allocs : \/ CreateAllocation(a) \/ Unreference(a)
                                \/ DestroyDefer(a) \/ DestroyAllocation(a)
           \/ \E c \in Clients : MarkUnpagable(c) \/ PrepareOne(c) \/ MarkPagable(c)
           \/ \E e \in Engines : GpuFinish(e)
           \/ UNCHANGED vars
  BY <1>1, <1>7
  DEF CreateAllocation, Unreference, DestroyDefer, DestroyAllocation, MarkUnpagable,
      PrepareOne, MarkPagable, GpuFinish, vars, taskVars
<1>8. QED BY <1>4, <1>5, <1>6, <1>7 DEF Next

\* A copy has the newest fence of the paging engine.
LEMMA SubmitPagingCopies ==
  ASSUME TypeOK, CopiesOK, NEW where, SubmitPaging(where), pg' \in {"outwait", "set"}
  PROVE  CopiesOK'
<1>1. /\ PagingEngine \in Engines /\ send[PagingEngine] \in Nat
      /\ \A a \in Allocs : last_paging[a] \in Nat
  BY PagingAssumption DEF TypeOK
<1>2. send'[PagingEngine] = send[PagingEngine] + 1 /\ pgfence' = send[PagingEngine] + 1
  BY <1>1 DEF SubmitPaging, Sent, TypeOK
<1>3. \A a \in Allocs : last_paging'[a] <= send[PagingEngine] + 1
  <2>1. \A a \in Allocs : last_paging'[a] \in {last_paging[a], send[PagingEngine] + 1}
    BY DEF SubmitPaging
  <2>2. QED BY <1>1, <2>1 DEF CopiesOK
<1>4. QED BY <1>2, <1>3 DEF CopiesOK

LEMMA NextCopies == ASSUME CountsInv, CopiesOK, [Next]_vars PROVE CopiesOK'
<1>1. TypeOK
  BY DEF CountsInv
<1>2. CASE UNCHANGED <<last_paging, send, pgfence, pg>>
  BY <1>2 DEF CopiesOK
<1>3. ASSUME pgfence' = 0, UNCHANGED <<last_paging, send>> PROVE CopiesOK'
  BY <1>3 DEF CopiesOK
<1>4. ASSUME UNCHANGED <<last_paging, send, pgfence>>, pg \notin {"outwait", "set"}
      PROVE  CopiesOK'
  BY <1>4 DEF CopiesOK
<1>5. ASSUME NEW t \in Tasks, WorkerStep(t) \/ \E S \in SUBSET Allocs : Render(t, S)
      PROVE  CopiesOK'
  <2>1. CASE SubmitDma(t)
    <3>1. UNCHANGED <<last_paging, pgfence, pg>> /\ Sent(EngineOf[t], allocs[t])
      BY <2>1 DEF SubmitDma, pagerVars
    <3>2. /\ send[PagingEngine] \in Nat
          /\ send'[PagingEngine] \in {send[PagingEngine], send[PagingEngine] + 1}
      BY <1>1, <3>1, PagingAssumption DEF Sent, TypeOK
    <3>3. \A a \in Allocs : last_paging[a] \in Nat
      BY <1>1 DEF TypeOK
    <3>4. QED BY <3>1, <3>2, <3>3 DEF CopiesOK
  <2>2. CASE LockPaging(t)
    BY <1>3, <2>2 DEF LockPaging, fenceVars
  <2>3. CASE \/ Mark(t) \/ KickOff(t) \/ FakeSubmit(t) \/ \E S \in SUBSET Allocs : Render(t, S)
    BY <1>2, <2>3 DEF Mark, KickOff, FakeSubmit, Render, fenceVars, pagerVars
  <2>4. QED BY <1>5, <2>1, <2>2, <2>3 DEF WorkerStep
<1>6. CASE PagerStep
  <2>1. CASE SubmitOut
    BY <1>1, <2>1, SubmitPagingCopies DEF SubmitOut
  <2>2. CASE SubmitIn
    BY <1>1, <1>4, <2>2, SubmitPagingCopies DEF SubmitIn, fenceVars
  <2>3. CASE ReleaseVideoMemory
    BY <1>3, <2>3 DEF ReleaseVideoMemory, fenceVars
  <2>4. CASE (\E t \in Tasks : TaskResident(t)) \/ \E c \in Clients : ClientResident(c)
    BY <1>3, <2>4 DEF TaskResident, ClientResident, Resident, fenceVars
  <2>5. CASE \/ \E a \in Allocs, p \in Places : ResidentOne(a, p)
             \/ \E r \in {"again", "nomem"} : PagingInFails(r)
             \/ \E S \in SUBSET Allocs : Unresident(S) \/ PagingOut(S)
             \/ NoCandidate
    BY <1>4, <2>5 DEF ResidentOne, PagingInFails, Unresident, PagingOut, NoCandidate, fenceVars
  <2>6. QED BY <1>6, <2>1, <2>2, <2>3, <2>4, <2>5 DEF PagerStep
<1>7. CASE \E c \in Clients : PrepareOne(c)
  BY <1>2, <1>3, <1>7 DEF PrepareOne, fenceVars
<1>8. CASE \/ \E a \in Allocs : \/ CreateAllocation(a) \/ Unreference(a)
                                \/ DestroyDefer(a) \/ DestroyAllocation(a)
           \/ \E c \in Clients : MarkUnpagable(c) \/ MarkPagable(c)
           \/ \E e \in Engines : GpuFinish(e)
           \/ UNCHANGED vars
  BY <1>2, <1>8
  DEF CreateAllocation, Unreference, DestroyDefer, DestroyAllocation, MarkUnpagable,
      MarkPagable, GpuFinish, vars, fenceVars, pagerVars
<1>9. QED BY <1>5, <1>6, <1>7, <1>8 DEF Next

\* Allocations once shared by two engines stay shared.
LEMMA SharedOnce ==
  ASSUME CountsInv, OneTask, NotShared', [Next]_vars PROVE NotShared
<1>1. TypeOK
  BY DEF CountsInv
<1>2. CASE UNCHANGED allocs
  BY <1>2 DEF NotShared
<1>3. ASSUME NEW t \in Tasks, NEW S \in SUBSET Allocs, Render(t, S)
      PROVE  \A u \in Tasks : allocs[u] \subseteq allocs'[u]
  BY <1>1, <1>3 DEF Render, OneTask, TypeOK
<1>4. CASE \E t \in Tasks : \E S \in SUBSET Allocs : Render(t, S)
  <2>1. \A u \in Tasks : allocs[u] \subseteq allocs'[u]
    BY <1>3, <1>4
  <2>2. QED BY <2>1 DEF NotShared
<1>5. CASE ~\E t \in Tasks : \E S \in SUBSET Allocs : Render(t, S)
  <2>1. UNCHANGED allocs
    <3>1. CASE PagerStep
      BY <3>1
      DEF PagerStep, ResidentOne, PagingInFails, Unresident, PagingOut, NoCandidate, SubmitOut,
          ReleaseVideoMemory, SubmitIn, TaskResident, ClientResident, Resident, taskVars
    <3>2. CASE ~PagerStep
      BY <1>5, <3>2
      DEF Next, WorkerStep, Mark, LockPaging, SubmitDma, KickOff, FakeSubmit, CreateAllocation,
          Unreference, DestroyDefer, DestroyAllocation, MarkUnpagable, PrepareOne, MarkPagable,
          GpuFinish, vars, taskVars
    <3>3. QED BY <3>1, <3>2
  <2>2. QED BY <1>2, <2>1
<1>6. QED BY <1>4, <1>5

\* Steps that move no allocation and make no task ready.
LEMMA SettledFrame ==
  ASSUME SettledOK, UNCHANGED allocs,
         \A t \in Tasks :
           /\ st'[t] \in {"ready", "patch"} => st[t] \in {"ready", "patch"}
           /\ st'[t] = "paging" => st[t] = "paging",
         \A t \in Tasks : \A a \in allocs[t] : st[t] \in {"ready", "patch", "paging"} =>
           /\ coming[a] = NoPlace /\ a \notin todo => coming'[a] = NoPlace /\ a \notin todo'
           /\ leaving[a] = NoPlace => leaving'[a] = NoPlace
           /\ seg[a] # NoPlace => seg'[a] # NoPlace \/ life'[a] = "gone"
           /\ coming[a] # NoPlace \/ a \in todo =>
                seg'[a] # NoPlace \/ coming'[a] # NoPlace \/ a \in todo'
           /\ life[a] = "gone" => life'[a] = "gone"
  PROVE  SettledOK'
<1> SUFFICES ASSUME NEW t \in Tasks, NEW a \in allocs[t]
             PROVE  /\ st'[t] \in {"ready", "patch"} =>
                         /\ coming'[a] = NoPlace /\ leaving'[a] = NoPlace /\ a \notin todo'
                         /\ seg'[a] # NoPlace \/ life'[a] = "gone"
                    /\ st'[t] = "paging" =>
                         \/ seg'[a] # NoPlace \/ coming'[a] # NoPlace
                         \/ a \in todo' \/ life'[a] = "gone"
  BY DEF SettledOK
<1>1. CASE st'[t] \in {"ready", "patch"}
  BY <1>1 DEF SettledOK
<1>2. CASE st'[t] = "paging"
  BY <1>2 DEF SettledOK
<1>3. QED BY <1>1, <1>2

LEMMA TaskSettled ==
  ASSUME CountsInv, OneTask, NotShared, SettledOK, NEW t \in Tasks,
         WorkerStep(t) \/ \E S \in SUBSET Allocs : Render(t, S)
  PROVE  SettledOK'
<1>1. /\ TypeOK /\ PagerOK /\ UNCHANGED <<life, seg, coming, leaving>>
      /\ \A u \in Tasks : u # t => st'[u] = st[u] /\ allocs'[u] = allocs[u]
  BY DEF CountsInv, TypeOK, WorkerStep, Render, Mark, LockPaging, SubmitDma, KickOff,
         FakeSubmit, allocVars, pagerVars
<1>2. CASE LockPaging(t)
  <2>1. /\ st[t] = "lock" /\ st'[t] = "paging" /\ UNCHANGED allocs
        /\ todo' = {a \in allocs[t] : seg[a] = NoPlace}
    BY <1>1, <1>2 DEF LockPaging, TypeOK
  <2>2. ASSUME NEW u \in Tasks, st[u] \in {"ready", "patch"}, NEW a \in allocs[u], a \in todo'
        PROVE  FALSE
    <3>1. EngineOf[u] = EngineOf[t]
      BY <2>1, <2>2 DEF NotShared
    <3>2. InWorker(u) /\ InWorker(t)
      BY <2>1, <2>2 DEF InWorker
    <3>3. QED BY <2>1, <2>2, <3>1, <3>2 DEF OneTask
  <2>3. \A u \in Tasks : st[u] # "paging"
    BY <1>1, <1>2, PagingAssumption DEF LockPaging, PagerOK
  <2>4. ASSUME NEW a \in allocs[t] PROVE seg[a] # NoPlace \/ a \in todo'
    BY <2>1
  <2>5. QED BY <1>1, <2>1, <2>2, <2>3, <2>4 DEF SettledOK
<1>3. CASE Mark(t)
  <2>1. /\ st'[t] \in {"lock", "ready"} /\ UNCHANGED <<allocs, todo>>
        /\ st'[t] = "ready" => \A a \in allocs[t] : seg[a] # NoPlace
    BY <1>1, <1>3 DEF Mark, TypeOK, pagerVars
  <2>2. \A a \in Allocs :
          seg[a] # NoPlace => coming[a] = NoPlace /\ leaving[a] = NoPlace /\ a \notin todo
    BY DEF CountsInv, PlacesInv, OneOwner, OnlyPaged
  <2>3. allocs[t] \subseteq Allocs
    BY <1>1 DEF TypeOK
  <2>4. QED BY <1>1, <2>1, <2>2, <2>3 DEF SettledOK
<1>4. CASE SubmitDma(t) \/ KickOff(t) \/ FakeSubmit(t)
  <2>1. /\ UNCHANGED <<allocs, todo>>
        /\ st'[t] \in {"patch", "hw", "dropped"} /\ (st'[t] = "patch" => st[t] = "ready")
    BY <1>1, <1>4 DEF SubmitDma, KickOff, FakeSubmit, TypeOK, pagerVars
  <2>2. QED BY <1>1, <2>1, SettledFrame
<1>5. ASSUME NEW S \in SUBSET Allocs, Render(t, S) PROVE SettledOK'
  <2>1. st'[t] = "pending" /\ UNCHANGED todo
    BY <1>1, <1>5 DEF Render, TypeOK, pagerVars
  <2>2. QED BY <1>1, <2>1 DEF SettledOK
<1>6. QED BY <1>2, <1>3, <1>4, <1>5 DEF WorkerStep

LEMMA LifeSettled ==
  ASSUME CountsInv, SettledOK, NEW a \in Allocs,
         \/ CreateAllocation(a) \/ Unreference(a) \/ DestroyDefer(a) \/ DestroyAllocation(a)
  PROVE  SettledOK'
<1>1. TypeOK /\ UNCHANGED <<coming, leaving, todo, st, allocs>>
  BY DEF CreateAllocation, Unreference, DestroyDefer, DestroyAllocation, CountsInv, taskVars,
         pagerVars
<1>2. \A b \in Allocs :
        /\ seg[b] # NoPlace => seg'[b] # NoPlace \/ life'[b] = "gone"
        /\ life[b] = "gone" => life'[b] = "gone"
  <2>1. CASE CreateAllocation(a)
    BY <1>1, <2>1, PagingAssumption DEF CreateAllocation, TypeOK
  <2>2. CASE Unreference(a) \/ DestroyDefer(a) \/ DestroyAllocation(a)
    BY <1>1, <2>2 DEF Unreference, DestroyDefer, DestroyAllocation, TypeOK
  <2>3. QED BY <2>1, <2>2
<1>3. \A t \in Tasks : allocs[t] \subseteq Allocs
  BY <1>1 DEF TypeOK
<1>4. QED BY <1>1, <1>2, <1>3, SettledFrame

\* A client only pages in what it pins, and that is alive.
LEMMA ClientSettled ==
  ASSUME CountsInv, AliveOK, SettledOK, NEW c \in Clients,
         MarkUnpagable(c) \/ PrepareOne(c) \/ MarkPagable(c)
  PROVE  SettledOK'
<1>1. /\ TypeOK /\ PagerOK
      /\ UNCHANGED <<life, seg, coming, leaving, st, allocs>>
  BY DEF CountsInv, MarkUnpagable, PrepareOne, MarkPagable, allocVars, taskVars, pagerVars
<1>2. CASE UNCHANGED todo
  BY <1>1, <1>2 DEF SettledOK
<1>3. CASE PrepareOne(c) /\ todo' # todo
  <2>1. /\ client[c] = "lock" /\ pager = Nobody
        /\ todo' = {PinOf[c]} /\ seg[PinOf[c]] = NoPlace
    BY <1>3 DEF PrepareOne
  <2>2. PinOf[c] \in Allocs /\ c \in Pinning(PinOf[c])
    BY <2>1, PagingAssumption DEF Pinning
  <2>3. life[PinOf[c]] = "live"
    BY <2>2 DEF AliveOK
  <2>4. \A t \in Tasks : st[t] # "paging"
    BY <1>1, <2>1, PagingAssumption DEF PagerOK
  <2>5. ASSUME NEW t \in Tasks, st[t] \in {"ready", "patch"} PROVE PinOf[c] \notin allocs[t]
    BY <2>1, <2>3, <2>5 DEF SettledOK
  <2>6. QED BY <1>1, <2>1, <2>4, <2>5 DEF SettledOK
<1>4. QED BY <1>2, <1>3 DEF MarkUnpagable, MarkPagable, pagerVars

LEMMA PagerSettled ==
  ASSUME CountsInv, FencesOK, SettledOK, PagerStep PROVE SettledOK'
<1>1. TypeOK /\ PlacesInv /\ PagerOK /\ \A t \in Tasks : allocs[t] \subseteq Allocs
  BY DEF CountsInv, TypeOK
<1>2. ASSUME NEW a \in Allocs, NEW p \in Places, ResidentOne(a, p) PROVE SettledOK'
  <2>1. /\ a \in todo /\ todo' = todo \ {a} /\ p # NoPlace /\ coming'[a] = p
        /\ \A b \in Allocs : b # a => coming'[b] = coming[b]
        /\ UNCHANGED <<life, seg, leaving, st, allocs>>
    BY <1>1, <1>2, PagingAssumption DEF ResidentOne, TypeOK, taskVars
  <2>2. QED BY <1>1, <2>1, SettledFrame
<1>3. ASSUME NEW S \in SUBSET Allocs, Unresident(S) PROVE SettledOK'
  <2>1. /\ seg' = [a \in Allocs |-> IF a \in S THEN NoPlace ELSE seg[a]]
        /\ leaving' = [a \in Allocs |-> IF a \in S THEN seg[a] ELSE NoPlace]
        /\ \A a \in S : CanPageOut(a)
        /\ UNCHANGED <<life, coming, todo, st, allocs>>
    BY <1>3 DEF Unresident, taskVars
  <2>2. ASSUME NEW t \in Tasks, st[t] \in {"ready", "patch", "paging"}
        PROVE  \A a \in allocs[t] : a \notin S
    <3>1. CASE st[t] = "patch"
      BY <1>1, <2>1, <3>1, PatchBusy DEF CanPageOut
    <3>2. CASE st[t] # "patch"
      BY <2>1, <2>2, <3>2, PageOutFree DEF Claiming
    <3>3. QED BY <3>1, <3>2
  <2>3. \A a \in Allocs : a \notin S => seg'[a] = seg[a] /\ leaving'[a] = NoPlace
    BY <2>1
  <2>4. QED BY <1>1, <2>1, <2>2, <2>3, SettledFrame
<1>4. ASSUME NEW F \in SUBSET Allocs, PagingOut(F) PROVE SettledOK'
  <2>1. /\ seg' = [a \in Allocs |-> IF a \in F THEN leaving[a] ELSE seg[a]]
        /\ leaving' = [a \in Allocs |-> IF a \in F THEN NoPlace ELSE leaving[a]]
        /\ \A a \in F : leaving[a] # NoPlace
        /\ UNCHANGED <<life, coming, todo, st, allocs>>
    BY <1>4 DEF PagingOut, In, taskVars
  <2>2. QED BY <1>1, <2>1, SettledFrame
<1>5. CASE \/ \E r \in {"again", "nomem"} : PagingInFails(r)
           \/ NoCandidate \/ SubmitOut \/ SubmitIn
  <2>1. UNCHANGED <<life, seg, coming, leaving, todo, st, allocs>>
    BY <1>5 DEF PagingInFails, NoCandidate, SubmitOut, SubmitIn, taskVars, allocVars
  <2>2. QED BY <2>1 DEF SettledOK
<1>6. CASE ReleaseVideoMemory
  <2>1. leaving' = Nowhere /\ UNCHANGED <<life, seg, coming, todo, st, allocs>>
    BY <1>6 DEF ReleaseVideoMemory, taskVars
  <2>2. QED BY <1>1, <2>1, SettledFrame DEF Nowhere
<1>7. CASE (\E t \in Tasks : TaskResident(t)) \/ \E c \in Clients : ClientResident(c)
  <2>1. /\ pg = "set" /\ UNCHANGED <<life, leaving, allocs>>
        /\ seg' = [a \in Allocs |-> IF coming[a] # NoPlace THEN coming[a] ELSE seg[a]]
        /\ coming' = Nowhere /\ todo' = {}
    BY <1>7 DEF TaskResident, ClientResident, Resident
  <2>2. \A t \in Tasks :
          /\ st'[t] # "paging"
          /\ st'[t] = "patch" => st[t] = "patch"
          /\ st'[t] = "ready" => st[t] = "ready" \/ (st[t] = "paging" /\ result = "ok")
    BY <1>1, <1>7, PagingAssumption DEF TaskResident, ClientResident, PagerOK, TypeOK
  <2>3. result = "ok" => todo = {}
    BY <1>1, <2>1 DEF PagerOK
  <2>4. \A a \in Allocs :
          /\ coming'[a] = NoPlace /\ leaving'[a] = NoPlace
          /\ seg[a] # NoPlace \/ coming[a] # NoPlace => seg'[a] # NoPlace
    BY <1>1, <2>1 DEF PlacesInv, OnlyPaged, Nowhere
  <2>5. QED BY <1>1, <2>1, <2>2, <2>3, <2>4 DEF SettledOK
<1>8. QED BY <1>2, <1>3, <1>4, <1>5, <1>6, <1>7 DEF PagerStep

LEMMA NextSettled ==
  ASSUME CountsInv, FencesOK, AliveOK, OneTask, NotShared, SettledOK, [Next]_vars
  PROVE  SettledOK'
<1>1. CASE (\E e \in Engines : GpuFinish(e)) \/ UNCHANGED vars
  <2>1. UNCHANGED <<life, seg, coming, leaving, todo, st, allocs>>
    BY <1>1 DEF GpuFinish, vars, allocVars, taskVars, pagerVars
  <2>2. QED BY <2>1 DEF SettledOK
<1>2. QED
  BY <1>1, TaskSettled, LifeSettled, ClientSettled, PagerSettled DEF Next

\* Steps that submit no copy and end none.
LEMMA CoveredFrame ==
  ASSUME TypeOK, CoveredOK, UNCHANGED <<last_paging, allocs, pager, pgfence>>,
         \A t \in Tasks : seen'[t] = seen[t],
         \A f \in Nat : Back(PagingEngine, f) => Back(PagingEngine, f)',
         pg \in {"outwait", "set"} => pg' = pg,
         pg' = "set" => pg = "set" \/ pg \notin {"outwait", "set"},
         \A t \in Tasks :
           /\ st'[t] \in {"lock", "paging"} => st[t] \in {"lock", "paging"}
           /\ st'[t] = "ready" => st[t] = "ready"
           /\ st'[t] = "patch" => st[t] = "patch"
  PROVE  CoveredOK'
<1> SUFFICES ASSUME NEW t \in Tasks, NEW a \in allocs[t]
             PROVE  /\ st'[t] \in {"lock", "paging"} =>
                         \/ Covered(t, a)'
                         \/ /\ pg' \in {"outwait", "set"} /\ last_paging'[a] <= pgfence'
                            /\ pg' = "set" => pager' = t \/ pager' \in Clients
                    /\ st'[t] = "ready" => Covered(t, a)'
                    /\ st'[t] = "patch" /\ EngineOf[t] # PagingEngine =>
                         Back(PagingEngine, last_paging[a])'
  BY DEF CoveredOK
<1>1. last_paging[a] \in Nat
  BY DEF TypeOK
<1>2. Covered(t, a) => Covered(t, a)'
  BY <1>1 DEF Covered
<1>3. st[t] = "patch" /\ EngineOf[t] # PagingEngine => Back(PagingEngine, last_paging[a])'
  BY <1>1 DEF CoveredOK
<1>4. QED BY <1>2, <1>3 DEF CoveredOK

\* A copy of an allocation that tasks of one engine use is known to its task,
\* or is waited for under paging_lock.
LEMMA SubmitPagingCovered ==
  ASSUME CountsInv, OneTask, CopiesOK, NotShared, SettledOK, CoveredOK,
         NEW where \in [Allocs -> Places \cup {NoPlace}], SubmitPaging(where),
         UNCHANGED <<st, seen, allocs, back, pager>>, pg \notin {"none", "outwait", "set"},
         \/ pg' = "outwait" /\ where = leaving
         \/ pg' = "set" /\ where = coming
  PROVE  CoveredOK'
<1>1. TypeOK /\ PagerOK /\ PlacesInv /\ \A t \in Tasks : allocs[t] \subseteq Allocs
  BY DEF CountsInv, TypeOK
<1>2. /\ \A a \in Allocs : where[a] = NoPlace => last_paging'[a] = last_paging[a]
      /\ \A a \in Allocs : last_paging'[a] <= pgfence'
  <2>1. /\ pgfence' = send[PagingEngine] + 1 /\ send[PagingEngine] \in Nat
        /\ \A a \in Allocs : last_paging[a] \in Nat /\ last_paging[a] <= send[PagingEngine]
    BY <1>1, PagingAssumption DEF SubmitPaging, TypeOK, CopiesOK
  <2>2. \A a \in Allocs : last_paging'[a] = IF where[a] # NoPlace THEN send[PagingEngine] + 1
                                            ELSE last_paging[a]
    BY DEF SubmitPaging, In
  <2>3. QED BY <2>1, <2>2
<1>3. ASSUME NEW t \in Tasks, NEW a \in allocs[t], where[a] = NoPlace
      PROVE  /\ Covered(t, a) => Covered(t, a)'
             /\ Back(PagingEngine, last_paging[a]) => Back(PagingEngine, last_paging[a])'
  BY <1>1, <1>2, <1>3 DEF Covered, Back
<1>4. ASSUME NEW t \in Tasks, NEW a \in allocs[t], st[t] \in {"lock", "paging"}
      PROVE  \/ Covered(t, a)'
             \/ /\ pg' \in {"outwait", "set"} /\ last_paging'[a] <= pgfence'
                /\ pg' = "set" => pager' = t \/ pager' \in Clients
  <2>1. CASE pg' = "outwait"
    BY <1>1, <1>2, <2>1
  <2>2. CASE where[a] = NoPlace
    <3>1. Covered(t, a)
      BY <1>4 DEF CoveredOK
    <3>2. QED BY <1>3, <2>2, <3>1
  <2>3. CASE pg' = "set" /\ coming[a] # NoPlace
    <3>1. pager # Nobody
      BY <1>1 DEF PlacesInv, OnlyPaged
    <3>2. ASSUME pager \in Tasks PROVE pager = t
      <4>1. st[pager] = "paging" /\ a \in allocs[pager]
        BY <1>1, <2>3, <3>2 DEF PagerOK, In
      <4>2. EngineOf[pager] = EngineOf[t]
        BY <3>2, <4>1 DEF NotShared
      <4>3. InWorker(pager) /\ InWorker(t)
        BY <1>4, <4>1 DEF InWorker
      <4>4. QED BY <3>2, <4>2, <4>3 DEF OneTask
    <3>3. pager = t \/ pager \in Clients
      BY <1>1, <3>1, <3>2 DEF TypeOK
    <3>4. QED BY <1>1, <1>2, <2>3, <3>3
  <2>4. QED BY <2>1, <2>2, <2>3
<1>5. ASSUME NEW t \in Tasks, NEW a \in allocs[t], st[t] \in {"ready", "patch"}
      PROVE  /\ st[t] = "ready" => Covered(t, a)'
             /\ st[t] = "patch" /\ EngineOf[t] # PagingEngine =>
                  Back(PagingEngine, last_paging[a])'
  <2>1. where[a] = NoPlace
    BY <1>5 DEF SettledOK
  <2>2. QED BY <1>3, <1>5, <2>1 DEF CoveredOK
<1>6. QED BY <1>4, <1>5 DEF CoveredOK

\* A task knows the copies that were sent before it was marked, and waits for
\* them before it takes its fence.
LEMMA TaskCovered ==
  ASSUME CountsInv, CopiesOK, CoveredOK, NEW t \in Tasks,
         WorkerStep(t) \/ \E S \in SUBSET Allocs : Render(t, S)
  PROVE  CoveredOK'
<1>1. /\ TypeOK /\ PagerOK /\ UNCHANGED <<last_paging, back>>
      /\ \A u \in Tasks : u # t => /\ st'[u] = st[u] /\ allocs'[u] = allocs[u]
                                   /\ seen'[u] = seen[u]
  BY DEF CountsInv, TypeOK, WorkerStep, Render, Mark, LockPaging, SubmitDma, KickOff,
         FakeSubmit, fenceVars
<1>2. \A f \in Nat : Back(PagingEngine, f)' <=> Back(PagingEngine, f)
  BY <1>1 DEF Back
<1>3. \A a \in Allocs : last_paging[a] \in Nat
  BY <1>1 DEF TypeOK
<1>4. CASE Mark(t)
  <2>1. /\ st[t] # "new" /\ st'[t] \in {"lock", "ready"}
        /\ UNCHANGED <<allocs, pager, pg, pgfence>>
        /\ seen'[t] = Max({last_paging[a] : a \in allocs[t]})
    BY <1>1, <1>4 DEF Mark, TypeOK, pagerVars
  <2>2. \A a \in allocs[t] : last_paging[a] <= seen'[t]
    <3>1. allocs[t] \in SUBSET Allocs /\ allocs[t] # {} /\ last_paging \in [Allocs -> Nat]
      BY <1>1, <2>1 DEF TypeOK, PagerOK
    <3>2. QED BY <2>1, <3>1, SeenIsNat
  <2>3. \A a \in allocs[t] : Covered(t, a)'
    BY <1>1, <2>1, <2>2 DEF Covered
  <2>4. \A u \in Tasks : u # t => \A a \in allocs[u] : Covered(u, a)' <=> Covered(u, a)
    BY <1>1 DEF Covered, Back
  <2>5. QED BY <1>1, <2>1, <2>3, <2>4 DEF CoveredOK, Back
<1>5. CASE LockPaging(t)
  <2>1. /\ st[t] = "lock" /\ st'[t] = "paging" /\ UNCHANGED <<allocs, seen>>
        /\ pager = Nobody /\ pg' = "in"
    BY <1>1, <1>5 DEF LockPaging, TypeOK
  <2>2. pg = "none"
    BY <2>1 DEF CountsInv, PlacesInv, OnlyPaged
  <2>3. \A u \in Tasks : \A a \in allocs[u] : Covered(u, a)' <=> Covered(u, a)
    BY <1>1, <2>1 DEF Covered, Back
  <2>4. QED BY <1>1, <2>1, <2>2, <2>3 DEF CoveredOK, Back
<1>6. CASE SubmitDma(t)
  <2>1. /\ st[t] = "ready" /\ st'[t] = "patch" /\ UNCHANGED <<allocs, seen, pager, pg, pgfence>>
        /\ EngineOf[t] # PagingEngine => Back(PagingEngine, seen[t])
    BY <1>1, <1>6 DEF SubmitDma, TypeOK, pagerVars
  <2>2. ASSUME NEW a \in allocs[t], EngineOf[t] # PagingEngine
        PROVE  Back(PagingEngine, last_paging[a])'
    <3>1. /\ Covered(t, a) /\ a \in Allocs
          /\ back[PagingEngine] \in Nat /\ seen[t] \in Nat
      BY <1>1, <2>1, PagingAssumption DEF CoveredOK, TypeOK
    <3>2. last_paging[a] <= back[PagingEngine]
      BY <1>3, <2>1, <2>2, <3>1 DEF Covered, Back
    <3>3. QED BY <1>1, <3>2 DEF Back
  <2>3. \A u \in Tasks : \A a \in allocs[u] : Covered(u, a)' <=> Covered(u, a)
    BY <1>1, <2>1 DEF Covered, Back
  <2>4. QED BY <1>1, <2>1, <2>2, <2>3 DEF CoveredOK, Back
<1>7. CASE KickOff(t) \/ FakeSubmit(t)
  <2>1. /\ st'[t] \in {"hw", "dropped"} /\ UNCHANGED <<allocs, seen, pager, pg, pgfence>>
    BY <1>1, <1>7 DEF KickOff, FakeSubmit, TypeOK, pagerVars
  <2>2. QED BY <1>1, <1>2, <2>1, CoveredFrame
<1>8. ASSUME NEW S \in SUBSET Allocs, Render(t, S) PROVE CoveredOK'
  <2>1. st'[t] = "pending" /\ UNCHANGED <<seen, pager, pg, pgfence>>
    BY <1>1, <1>8 DEF Render, TypeOK, pagerVars
  <2>2. \A u \in Tasks : \A a \in allocs[u] : Covered(u, a)' <=> Covered(u, a)
    BY <1>1, <2>1 DEF Covered, Back
  <2>3. QED BY <1>1, <2>1, <2>2 DEF CoveredOK, Back
<1>9. QED BY <1>4, <1>5, <1>6, <1>7, <1>8 DEF WorkerStep

LEMMA PagerCovered ==
  ASSUME CountsInv, OneTask, CopiesOK, NotShared, SettledOK, CoveredOK, PagerStep
  PROVE  CoveredOK'
<1>1. /\ TypeOK /\ PagerOK /\ PlacesInv
      /\ \A t \in Tasks : \A a \in allocs[t] : a \in Allocs /\ last_paging[a] \in Nat
  BY DEF CountsInv, TypeOK
<1>2. CASE SubmitOut
  <2>1. /\ SubmitPaging(leaving) /\ UNCHANGED <<st, seen, allocs, back, pager>>
        /\ pg = "outsub" /\ pg' = "outwait" /\ leaving \in [Allocs -> Places \cup {NoPlace}]
    BY <1>1, <1>2 DEF SubmitOut, TypeOK, taskVars
  <2>2. QED BY <2>1, SubmitPagingCovered
<1>3. CASE SubmitIn
  <2>1. /\ UNCHANGED <<st, seen, allocs, back, pager>> /\ pg \in {"in", "submit"} /\ pg' = "set"
        /\ coming \in [Allocs -> Places \cup {NoPlace}]
        /\ SubmitPaging(coming) \/ UNCHANGED <<last_paging, pgfence>>
    BY <1>1, <1>3 DEF SubmitIn, TypeOK, taskVars, fenceVars
  <2>2. CASE SubmitPaging(coming)
    BY <2>1, <2>2, SubmitPagingCovered
  <2>3. CASE UNCHANGED <<last_paging, pgfence>>
    BY <1>1, <2>1, <2>3, CoveredFrame DEF Back
  <2>4. QED BY <2>1, <2>2, <2>3
<1>4. CASE \/ \E a \in Allocs, p \in Places : ResidentOne(a, p)
           \/ \E r \in {"again", "nomem"} : PagingInFails(r)
           \/ \E S \in SUBSET Allocs : Unresident(S) \/ PagingOut(S)
           \/ NoCandidate
  <2>1. /\ UNCHANGED <<last_paging, back, st, seen, allocs, pager, pgfence>>
        /\ pg \in {"in", "build"} /\ pg' # "set"
    BY <1>4
    DEF ResidentOne, PagingInFails, Unresident, PagingOut, NoCandidate, fenceVars, taskVars
  <2>2. QED BY <1>1, <2>1, CoveredFrame DEF Back
<1>5. CASE ReleaseVideoMemory
  <2>1. /\ pg = "outwait" /\ pg' = "in" /\ Back(PagingEngine, pgfence)
        /\ UNCHANGED <<last_paging, back, st, seen, allocs>>
    BY <1>5 DEF ReleaseVideoMemory, CopyDone, fenceVars, taskVars
  <2>2. ASSUME NEW t \in Tasks, NEW a \in allocs[t], last_paging[a] <= pgfence
        PROVE  Covered(t, a)
    BY <1>1, <2>1, <2>2, PagingAssumption DEF Covered, Back, TypeOK
  <2>3. \A t \in Tasks : \A a \in allocs[t] : Covered(t, a)' <=> Covered(t, a)
    BY <2>1 DEF Covered, Back
  <2>4. QED BY <2>1, <2>2, <2>3 DEF CoveredOK, Back
<1>6. ASSUME NEW t \in Tasks, TaskResident(t) PROVE CoveredOK'
  <2>1. /\ pager = t /\ pg = "set" /\ pg' = "none" /\ st[t] = "paging"
        /\ UNCHANGED <<last_paging, back, allocs>>
        /\ \A u \in Tasks : u # t => st'[u] = st[u] /\ seen'[u] = seen[u] /\ st[u] # "paging"
        /\ st'[t] \in {"ready", "retry", "drop"}
        /\ seen'[t] = IF pgfence > 0 THEN pgfence ELSE seen[t]
    BY <1>1, <1>6 DEF TaskResident, Resident, PagerOK, TypeOK, fenceVars
  <2>2. ASSUME NEW a \in allocs[t] PROVE Covered(t, a)'
    <3>1. Covered(t, a) \/ last_paging[a] <= pgfence
      BY <2>1 DEF CoveredOK
    <3>2. seen[t] \in Nat /\ pgfence \in Nat
      BY <1>1 DEF TypeOK
    <3>3. CASE pgfence > 0
      BY <1>1, <2>1, <3>3 DEF CopiesOK, Covered
    <3>4. CASE pgfence = 0
      BY <1>1, <2>1, <3>1, <3>2, <3>4 DEF Covered, Back
    <3>5. QED BY <3>2, <3>3, <3>4
  <2>3. \A u \in Tasks : u # t => \A a \in allocs[u] : Covered(u, a)' <=> Covered(u, a)
    BY <2>1 DEF Covered, Back
  <2>4. ASSUME NEW u \in Tasks, u # t, NEW a \in allocs[u], st[u] = "lock" PROVE Covered(u, a)
    BY <2>1, <2>4, PagingAssumption DEF CoveredOK
  <2>5. QED BY <2>1, <2>2, <2>3, <2>4 DEF CoveredOK, Back
<1>7. ASSUME NEW c \in Clients, ClientResident(c) PROVE CoveredOK'
  <2>1. /\ pg = "set" /\ pg' = "none" /\ Back(PagingEngine, pgfence)
        /\ UNCHANGED <<last_paging, back, st, seen, allocs>>
    BY <1>7 DEF ClientResident, Resident, CopyDone, fenceVars
  <2>2. ASSUME NEW t \in Tasks, NEW a \in allocs[t], last_paging[a] <= pgfence
        PROVE  Covered(t, a)
    BY <1>1, <2>1, <2>2, PagingAssumption DEF Covered, Back, TypeOK
  <2>3. \A t \in Tasks : \A a \in allocs[t] : Covered(t, a)' <=> Covered(t, a)
    BY <2>1 DEF Covered, Back
  <2>4. QED BY <2>1, <2>2, <2>3 DEF CoveredOK, Back
<1>8. QED BY <1>2, <1>3, <1>4, <1>5, <1>6, <1>7 DEF PagerStep

LEMMA NextCovered ==
  ASSUME CountsInv, OneTask, CopiesOK, NotShared, SettledOK, CoveredOK, [Next]_vars
  PROVE  CoveredOK'
<1>1. TypeOK /\ PlacesInv
  BY DEF CountsInv
<1>2. ASSUME NEW e \in Engines, GpuFinish(e) PROVE CoveredOK'
  <2>1. /\ UNCHANGED <<last_paging, st, seen, allocs, pager, pg, pgfence>>
        /\ back[PagingEngine] <= back'[PagingEngine]
        /\ back[PagingEngine] \in Nat /\ back'[PagingEngine] \in Nat
    BY <1>1, <1>2, PagingAssumption DEF GpuFinish, TypeOK, taskVars, pagerVars
  <2>2. \A f \in Nat : Back(PagingEngine, f) => Back(PagingEngine, f)'
    BY <2>1 DEF Back
  <2>3. QED BY <1>1, <2>1, <2>2, CoveredFrame
<1>3. ASSUME NEW c \in Clients, PrepareOne(c) PROVE CoveredOK'
  <2>1. /\ pg = "none" /\ pg' \in {"none", "in"}
        /\ UNCHANGED <<last_paging, back, st, seen, allocs>>
    BY <1>1, <1>3 DEF PrepareOne, PlacesInv, OnlyPaged, fenceVars, taskVars
  <2>2. \A t \in Tasks : \A a \in allocs[t] : Covered(t, a)' <=> Covered(t, a)
    BY <2>1 DEF Covered, Back
  <2>3. QED BY <2>1, <2>2 DEF CoveredOK, Back
<1>4. CASE \/ \E a \in Allocs : \/ CreateAllocation(a) \/ Unreference(a)
                                \/ DestroyDefer(a) \/ DestroyAllocation(a)
           \/ \E c \in Clients : MarkUnpagable(c) \/ MarkPagable(c)
           \/ UNCHANGED vars
  <2>1. UNCHANGED <<last_paging, back, st, seen, allocs, pager, pg, pgfence>>
    BY <1>4
    DEF CreateAllocation, Unreference, DestroyDefer, DestroyAllocation, MarkUnpagable,
        MarkPagable, vars, fenceVars, taskVars, pagerVars
  <2>2. QED BY <1>1, <2>1, CoveredFrame DEF Back
<1>5. QED BY <1>2, <1>3, <1>4, TaskCovered, PagerCovered DEF Next

\* When no allocation is used by tasks of two engines, a task of another engine
\* than the paging engine only gets its fence when the copies of its allocations
\* are done ("multi-engine sync: wait paging back"): the fence it noted when it
\* was marked, or was given when it was made resident, is the last one.
THEOREM UnsharedPagedIn == Spec => [](NotShared => PagedInBeforeUse)
<1>1. Init => UseInv /\ WaitInv
  BY PagingAssumption
  DEF Init, UseInv, FencesOK, JobsOK, AliveOK, ResidentOK, StaysOK, Pinning, Needed, InQueue,
      InWorker, InHwQueue, Back, Nowhere, Zero, WaitInv, OneTask, CopiesOK, SettledOK, CoveredOK
<1>2. CountsInv /\ UseInv /\ [Next]_vars => UseInv'
  BY NextFences, NextJobs, NextAlive, NextResident, NextStays DEF UseInv
<1>3. CountsInv /\ UseInv /\ WaitInv /\ [Next]_vars => WaitInv'
  BY NextOneTask, NextCopies, SharedOnce, NextSettled, NextCovered DEF UseInv, WaitInv
<1>4. WaitInv => (NotShared => PagedInBeforeUse)
  BY DEF WaitInv, CoveredOK, PagedInBeforeUse
<1>5. QED BY <1>1, <1>2, <1>3, <1>4, InitCounts, NextCountsInv, PTL DEF Spec
=============================================================================
