-------------------------- MODULE RingBufferProofs --------------------------
(***************************************************************************)
(* Theorems about RingBuffer for a ring and requests of every size, in any *)
(* order, with a GPU that reads at any speed.                              *)
(***************************************************************************)
EXTENDS RingBuffer, TLAPS

USE RingAssumption

-----------------------------------------------------------------------------
(* Offsets.                                                                *)

\* The GPU reads one offset on.
LEMMA NextOffset ==
  ASSUME NEW a \in Offsets, NEW c, c = (a + 1) % RingSize
  PROVE  c \in Offsets /\ c = IF a + 1 = RingSize THEN 0 ELSE a + 1
BY DEF Offsets

\* The stretch behind the GPU without the offset it reads.
LEMMA StretchRead ==
  ASSUME NEW a \in Offsets, NEW b \in Offsets, a # b, NEW c, c = (a + 1) % RingSize
  PROVE  Stretch(c, b) = Stretch(a, b) \ {a}
<1>1. a \in Nat /\ b \in Nat /\ RingSize \in Nat /\ a < RingSize /\ b < RingSize
  BY DEF Offsets
<1>2. c = IF a + 1 = RingSize THEN 0 ELSE a + 1
  BY NextOffset
<1>3. CASE a + 1 = RingSize
  BY <1>1, <1>2, <1>3 DEF Stretch
<1>4. CASE a + 1 # RingSize
  BY <1>1, <1>2, <1>4 DEF Stretch
<1>5. QED BY <1>3, <1>4

\* The stretch grows by what is taken at its end.
LEMMA StretchTake ==
  ASSUME NEW a \in Offsets, NEW b \in Offsets, NEW q \in Nat, b + q < RingSize,
         a <= b \/ b + q < a
  PROVE  Stretch(a, b + q) = Stretch(a, b) \cup (b..(b + q - 1))
<1>1. a \in Nat /\ b \in Nat /\ a < RingSize /\ b < RingSize
  BY DEF Offsets
<1>2. CASE a <= b
  BY <1>1, <1>2 DEF Stretch
<1>3. CASE b + q < a
  BY <1>1, <1>3 DEF Stretch
<1>4. QED BY <1>2, <1>3

\* The stretch grows by the end of the ring when the tail goes back.
LEMMA StretchWrap ==
  ASSUME NEW a \in Offsets, NEW b \in Offsets, 0 < a, a <= b
  PROVE  Stretch(a, 0) = Stretch(a, b) \cup (b..(RingSize - 1))
BY DEF Stretch, Offsets

-----------------------------------------------------------------------------
(* The offsets stay inside the ring, whatever is asked for.                *)

\* What the types say of the numbers.
LEMMA Numbers ==
  ASSUME RingTypeOK
  PROVE  /\ head \in Nat /\ head < RingSize /\ tail \in Nat /\ tail < RingSize
         /\ left_size \in Nat /\ left_size <= 2 * RingSize
         /\ hw_head \in Nat /\ hw_head < RingSize
         /\ hw_tail \in Nat /\ hw_tail < RingSize
         /\ request \in Nat /\ RingSize \in Nat /\ RingSize > 0
         /\ \A r \in Requests : r \in Nat /\ r > 0
BY DEF RingTypeOK, Offsets

LEMMA InitRing == RingInit => RingInv
<1> SUFFICES ASSUME RingInit PROVE RingInv
  OBVIOUS
<1>1. RingTypeOK
  <2>1. 0 \in Offsets /\ RingSize \in 0..(2 * RingSize)
    BY DEF Offsets
  <2>2. QED BY <2>1 DEF RingInit, RingTypeOK
<1>2. SpaceOK
  BY DEF RingInit, SpaceOK, NeverRefused
<1>3. RoomOK /\ pc # "overrun"
  BY DEF RingInit, RoomOK
<1>4. unread = Stretch(hw_head, tail)
  BY DEF RingInit, Stretch
<1>5. QED BY <1>1, <1>2, <1>3, <1>4 DEF RingInv

LEMMA NextTypes == RingTypeOK /\ SpaceOK /\ [RingNext]_ringVars => RingTypeOK' /\ SpaceOK'
<1> SUFFICES ASSUME RingTypeOK, SpaceOK, [RingNext]_ringVars PROVE RingTypeOK' /\ SpaceOK'
  OBVIOUS
<1>2. CASE \E r \in Requests : GetSpace(r)
  <2>1. PICK r \in Requests : GetSpace(r)
    BY <1>2
  <2>2. RingTypeOK'
    BY <2>1 DEF RingTypeOK, GetSpace, driverVars, hwVars
  <2>3. SpaceOK'
    BY <2>1 DEF SpaceOK, NeverRefused, GetSpace
  <2>4. QED BY <2>2, <2>3
<1>3. CASE Wrap
  <2>1. pc = "wrap" /\ pc' = "update" /\ UNCHANGED <<request, hwVars, crowded>>
    BY <1>3 DEF Wrap
  <2>2. CASE NeedsWrap
    <3>1. /\ head' = hw_head /\ tail' = 0 /\ left_size' = hw_head
          /\ unread' = unread \cup (tail..(RingSize - 1))
      BY <1>3, <2>2 DEF Wrap
    <3>2. tail..(RingSize - 1) \subseteq Offsets
      BY Numbers DEF Offsets
    <3>3. RingTypeOK'
      BY <2>1, <3>1, <3>2, Numbers DEF RingTypeOK, hwVars, Offsets
    <3>4. SpaceOK'
      BY <2>1, <3>1, Numbers DEF SpaceOK, NeverRefused
    <3>5. QED BY <3>3, <3>4
  <2>3. CASE ~NeedsWrap
    <3>1. UNCHANGED <<driverVars, unread>>
      BY <1>3, <2>3 DEF Wrap
    <3>2. RingTypeOK'
      BY <2>1, <3>1 DEF RingTypeOK, hwVars, driverVars
    <3>3. SpaceOK'
      BY <2>1, <2>3, <3>1, Numbers DEF SpaceOK, NeverRefused, NeedsWrap, driverVars
    <3>4. QED BY <3>2, <3>3
  <2>4. QED BY <2>2, <2>3
<1>4. CASE UpdateLeft
  <2>1. /\ pc = "update" /\ pc' = "take"
        /\ UNCHANGED <<tail, request, hwVars, unread, crowded>>
        /\ IF left_size < request
           THEN head' = hw_head /\ left_size' = (RingSize + hw_head) - tail
           ELSE UNCHANGED <<head, left_size>>
    BY <1>4 DEF UpdateLeft, LeftSize
  <2>2. RingTypeOK'
    BY <2>1, Numbers DEF RingTypeOK, hwVars, Offsets
  <2>3. request < RingSize => tail + request < RingSize /\ left_size' >= request
    BY <2>1, Numbers DEF SpaceOK
  <2>4. SpaceOK'
    BY <2>1, <2>3 DEF SpaceOK, NeverRefused
  <2>5. QED BY <2>2, <2>4
<1>5. CASE Take
  <2>1. pc = "take" /\ left_size >= request /\ UNCHANGED <<head, request, hwVars, crowded>>
    BY <1>5 DEF Take
  <2>2. CASE tail + request < RingSize
    <3>1. /\ left_size' = left_size - request /\ tail' = tail + request /\ pc' = "kick"
          /\ unread' = unread \cup (tail..(tail + request - 1))
      BY <1>5, <2>2 DEF Take
    <3>2. tail..(tail + request - 1) \subseteq Offsets
      BY <2>2, Numbers DEF Offsets
    <3>3. RingTypeOK'
      BY <2>1, <2>2, <3>1, <3>2, Numbers DEF RingTypeOK, hwVars, Offsets
    <3>4. SpaceOK'
      BY <2>1, <2>2, <3>1, Numbers DEF SpaceOK, NeverRefused
    <3>5. QED BY <3>3, <3>4
  <2>3. CASE ~(tail + request < RingSize)
    <3>1. pc' = "overrun" /\ UNCHANGED <<left_size, tail, unread>>
      BY <1>5, <2>3 DEF Take
    <3>2. request >= RingSize
      BY <2>1, <2>3, Numbers DEF SpaceOK
    <3>3. RingTypeOK'
      BY <2>1, <3>1, <3>2 DEF RingTypeOK, hwVars
    <3>4. SpaceOK'
      BY <2>1, <3>1 DEF SpaceOK, NeverRefused
    <3>5. QED BY <3>3, <3>4
  <2>4. QED BY <2>2, <2>3
<1>6. CASE TryAgain \/ KickOffRing
  <2>1. RingTypeOK'
    BY <1>6 DEF TryAgain, KickOffRing, RingTypeOK, driverVars, hwVars
  <2>2. SpaceOK'
    BY <1>6 DEF TryAgain, KickOffRing, SpaceOK, NeverRefused
  <2>3. QED BY <2>1, <2>2
<1>7. CASE GpuRead
  <2>1. hw_head' \in Offsets
    BY <1>7, NextOffset DEF GpuRead, RingTypeOK
  <2>2. UNCHANGED <<driverVars, pc, request, hw_tail, crowded>> /\ unread' \subseteq unread
    BY <1>7 DEF GpuRead
  <2>3. RingTypeOK'
    BY <2>1, <2>2 DEF RingTypeOK, driverVars
  <2>4. SpaceOK'
    BY <2>2 DEF SpaceOK, NeverRefused, driverVars
  <2>5. QED BY <2>3, <2>4
<1>8. CASE Restart
  <2>1. RingTypeOK'
    BY <1>8, Numbers DEF Restart, RingTypeOK, Offsets
  <2>2. SpaceOK'
    BY <1>8, Numbers DEF Restart, SpaceOK, NeverRefused
  <2>3. QED BY <2>1, <2>2
<1>9. CASE UNCHANGED ringVars
  BY <1>9 DEF ringVars, driverVars, hwVars, RingTypeOK, SpaceOK, NeverRefused
<1>10. QED BY <1>2, <1>3, <1>4, <1>5, <1>6, <1>7, <1>8, <1>9 DEF RingNext

-----------------------------------------------------------------------------
(* While every request has room.                                           *)

\* What the ring holds while every request has room.
Kept == RoomOK /\ unread = Stretch(hw_head, tail) /\ pc # "overrun"

\* The steps of the driver.
LEMMA DriverKeeps ==
  ASSUME RingInv, ~crowded', \/ \E r \in Requests : GetSpace(r)
                             \/ Wrap \/ UpdateLeft \/ Take \/ TryAgain \/ KickOffRing
  PROVE  Kept'
<1>1. CASE \E r \in Requests : GetSpace(r)
  <2>1. PICK r \in Requests : GetSpace(r)
    BY <1>1
  <2>2. ~crowded /\ Room(r) /\ pc = "idle" /\ pc' = "wrap" /\ request' = r
    BY <2>1 DEF GetSpace, RingInv, RingTypeOK
  <2>3. UNCHANGED <<driverVars, hwVars, unread>>
    BY <2>1 DEF GetSpace
  <2>4. RoomOK'
    <3>1. r < RingSize
      BY <2>2, Numbers DEF Room, RingInv
    <3>2. QED BY <2>2, <2>3, <3>1 DEF RingInv, RoomOK, Room, driverVars, hwVars
  <2>5. QED BY <2>2, <2>3, <2>4 DEF Kept, RingInv, Stretch, driverVars, hwVars
<1>2. CASE Wrap
  <2>1. /\ ~crowded /\ pc = "wrap" /\ pc' = "update" /\ tail = hw_tail /\ Room(request)
        /\ UNCHANGED <<request, hw_head, hw_tail>> /\ unread = Stretch(hw_head, tail)
        /\ request < RingSize
    BY <1>2 DEF Wrap, RingInv, RoomOK, hwVars
  <2>2. CASE NeedsWrap
    <3>1. tail' = 0 /\ unread' = unread \cup (tail..(RingSize - 1))
      BY <1>2, <2>2 DEF Wrap
    <3>2. hw_head <= tail /\ request < hw_head
      BY <2>1, <2>2, Numbers DEF NeedsWrap, Room, RingInv
    <3>3. unread' = Stretch(hw_head, 0)
      <4>1. 0 < hw_head /\ hw_head \in Offsets /\ tail \in Offsets
        BY <3>2, Numbers DEF RingInv, RingTypeOK
      <4>2. QED BY <2>1, <3>1, <3>2, <4>1, StretchWrap
    <3>4. RoomOK'
      BY <2>1, <3>1, <3>2 DEF RoomOK
    <3>5. QED BY <2>1, <3>1, <3>3, <3>4 DEF Kept, Stretch
  <2>3. CASE ~NeedsWrap
    <3>1. UNCHANGED <<driverVars, unread>>
      BY <1>2, <2>3 DEF Wrap
    <3>2. Clear(tail, tail + request)
      BY <2>1 DEF Room, Clear
    <3>3. RoomOK'
      BY <2>1, <3>1, <3>2 DEF RoomOK, Clear, driverVars
    <3>4. QED BY <2>1, <3>1, <3>3 DEF Kept, Stretch, driverVars
  <2>4. QED BY <2>2, <2>3
<1>3. CASE UpdateLeft
  <2>1. /\ ~crowded /\ pc = "update" /\ pc' = "take"
        /\ UNCHANGED <<tail, request, hw_head, hw_tail, unread>>
    BY <1>3 DEF UpdateLeft, hwVars
  <2>2. QED BY <2>1 DEF RingInv, RoomOK, Clear, Kept, Stretch
<1>4. CASE Take
  <2>1. /\ ~crowded /\ pc = "take" /\ UNCHANGED <<request, hw_head, hw_tail>>
        /\ unread = Stretch(hw_head, tail) /\ request < RingSize
        /\ \/ tail = hw_tail /\ Clear(tail, tail + request)
           \/ tail = 0 /\ hw_head <= hw_tail /\ request < hw_head
    BY <1>4 DEF Take, RingInv, RoomOK, hwVars
  <2>2. CASE tail + request < RingSize
    <3>1. /\ tail' = tail + request /\ pc' = "kick"
          /\ unread' = unread \cup (tail..(tail + request - 1))
      BY <1>4, <2>2 DEF Take
    <3>2. hw_head <= tail \/ tail + request < hw_head
      BY <2>1, Numbers DEF Clear, RingInv
    <3>3. unread' = Stretch(hw_head, tail')
      <4>1. hw_head \in Offsets /\ tail \in Offsets /\ request \in Nat
        BY Numbers DEF RingInv, RingTypeOK
      <4>2. QED BY <2>1, <2>2, <3>1, <3>2, <4>1, StretchTake
    <3>4. RoomOK'
      BY <2>1, <3>1, Numbers DEF RoomOK, Clear, RingInv
    <3>5. QED BY <2>1, <3>1, <3>3, <3>4 DEF Kept, Stretch
  <2>3. CASE ~(tail + request < RingSize)
    <3>1. request < RingSize
      BY <2>1 DEF RingInv, RoomOK
    <3>2. QED BY <2>1, <2>3, <3>1 DEF RingInv, SpaceOK
  <2>4. QED BY <2>2, <2>3
<1>5. CASE TryAgain
  <2>1. pc = "take" /\ left_size < request /\ ~crowded
    BY <1>5 DEF TryAgain
  <2>2. request < RingSize /\ left_size >= request
    BY <2>1, Numbers DEF RingInv, SpaceOK, NeverRefused, RoomOK
  <2>3. QED BY <2>1, <2>2, Numbers DEF RingInv
<1>6. CASE KickOffRing
  <2>1. /\ ~crowded /\ pc = "kick" /\ pc' = "idle" /\ hw_tail' = tail
        /\ UNCHANGED <<tail, request, hw_head, unread>>
    BY <1>6 DEF KickOffRing, driverVars
  <2>2. QED BY <2>1 DEF RingInv, RoomOK, Kept, Stretch
<1>7. QED BY <1>1, <1>2, <1>3, <1>4, <1>5, <1>6

\* The steps of the GPU and of a reset.
LEMMA OthersKeep == ASSUME RingInv, ~crowded', GpuRead \/ Restart PROVE Kept'
<1>1. CASE GpuRead
  <2>1. /\ ~crowded /\ hw_head # hw_tail /\ hw_head' = (hw_head + 1) % RingSize
        /\ unread' = unread \ {hw_head}
        /\ UNCHANGED <<tail, pc, request, hw_tail>>
    BY <1>1 DEF GpuRead, driverVars
  <2>2. RoomOK /\ unread = Stretch(hw_head, tail) /\ pc # "overrun"
    BY <2>1 DEF RingInv
  <2>3. hw_head' = IF hw_head + 1 = RingSize THEN 0 ELSE hw_head + 1
    BY <2>1, NextOffset DEF RingInv, RingTypeOK
  <2>4. pc \in {"idle", "wrap", "update", "take", "kick"}
    BY <2>2 DEF RingInv, RingTypeOK
  <2>5. hw_head # tail
    BY <2>1, <2>2, <2>4, Numbers DEF RingInv, RoomOK, Clear, SpaceOK
  <2>6. unread' = Stretch(hw_head', tail)
    BY <2>1, <2>2, <2>5, StretchRead DEF RingInv, RingTypeOK
  <2>7. RoomOK'
    <3>1. CASE pc = "idle"
      BY <2>1, <2>2, <3>1 DEF RoomOK
    <3>2. CASE pc = "wrap"
      BY <2>1, <2>2, <2>3, <2>5, <3>2, Numbers DEF RoomOK, Room, RingInv
    <3>3. CASE pc \in {"update", "take"}
      BY <2>1, <2>2, <2>3, <2>5, <3>3, Numbers DEF RoomOK, Clear, RingInv
    <3>4. CASE pc = "kick"
      BY <2>1, <2>2, <2>3, <2>5, <3>4, Numbers DEF RoomOK, Clear, RingInv
    <3>5. QED BY <2>4, <3>1, <3>2, <3>3, <3>4
  <2>8. QED BY <2>1, <2>2, <2>6, <2>7 DEF Kept, Stretch
<1>2. CASE Restart
  <2>1. /\ tail' = 0 /\ hw_head' = 0 /\ hw_tail' = 0 /\ unread' = {}
        /\ pc' = pc /\ request' = request /\ crowded' = (request >= RingSize)
    BY <1>2 DEF Restart
  <2>0. request < RingSize
    <3>1. ~(request >= RingSize)
      BY <2>1
    <3>2. QED BY <3>1, Numbers DEF RingInv
  <2>2. RoomOK'
    BY <2>0, <2>1, Numbers DEF RoomOK, Room, Clear, RingInv
  <2>3. unread' = Stretch(0, 0)
    BY <2>1 DEF Stretch
  <2>4. pc # "overrun"
    BY <2>0, <2>1, Numbers DEF RingInv, RingTypeOK
  <2>5. QED BY <2>1, <2>2, <2>3, <2>4 DEF Kept, Stretch
<1>3. QED BY <1>1, <1>2

LEMMA NextRing == RingInv /\ [RingNext]_ringVars => RingInv'
<1> SUFFICES ASSUME RingInv, [RingNext]_ringVars PROVE RingInv'
  OBVIOUS
<1>1. RingTypeOK' /\ SpaceOK'
  BY NextTypes DEF RingInv
<1>2. ASSUME ~crowded' PROVE Kept'
  <2>1. CASE UNCHANGED ringVars
    BY <1>2, <2>1
    DEF RingInv, Kept, RoomOK, Room, Clear, Stretch, ringVars, driverVars, hwVars
  <2>2. CASE RingNext
    BY <1>2, <2>2, DriverKeeps, OthersKeep DEF RingNext
  <2>3. QED BY <2>1, <2>2
<1>3. QED BY <1>1, <1>2 DEF RingInv, Kept

-----------------------------------------------------------------------------
(* The theorems.                                                           *)

LEMMA RingInvariant == RingSpec => []RingInv
BY InitRing, NextRing, PTL DEF RingSpec

\* Neither the driver's nor the GPU's offsets leave the ring, and only a request as
\* large as the ring is written over its end: ring_buffer_get_space goes back to
\* offset 0 in time.
THEOREM RingTypes == RingSpec => []RingTypeOK
<1>1. RingInv => RingTypeOK
  BY DEF RingInv
<1>2. QED BY <1>1, RingInvariant, PTL

\* No request smaller than the ring is ever refused, however full the ring is: the
\* loop of enginei_get_ring_buffer_space_e3k does not go round, and what keeps unread
\* commands is only what is asked for.
THEOREM SpaceNeverRefused == RingSpec => []NeverRefused
<1>1. RingInv => NeverRefused
  BY DEF RingInv, SpaceOK
<1>2. QED BY <1>1, RingInvariant, PTL

\* As long as every request found room, what the driver is about to write is clear of
\* what the GPU has still to read, and a ring with unread commands does not look empty.
THEOREM UnreadKept == RingSpec => []UnreadStays
<1>1. RingInv => UnreadStays
  <2> SUFFICES ASSUME RingInv, ~crowded
               PROVE  /\ WillWrite \cap unread = {}
                      /\ pc = "idle" /\ unread # {} => hw_head # hw_tail
    BY DEF UnreadStays
  <2>1. RoomOK /\ unread = Stretch(hw_head, tail)
    BY DEF RingInv
  <2>2. ASSUME pc = "idle", unread # {} PROVE hw_head # hw_tail
    BY <2>1, <2>2, Numbers DEF RingInv, RoomOK, Stretch
  <2>3. CASE pc = "wrap" /\ NeedsWrap
    <3>1. hw_head <= tail
      BY <2>1, <2>3, Numbers DEF RingInv, RoomOK, Room, NeedsWrap
    <3>2. QED BY <2>1, <2>2, <2>3, <3>1, Numbers DEF RingInv, Stretch, WillWrite
  <2>4. CASE pc = "take" /\ left_size >= request
    <3>1. hw_head <= tail \/ tail + request < hw_head
      BY <2>1, <2>4, Numbers DEF RingInv, RoomOK, Clear
    <3>2. WillWrite = tail..(tail + request - 1)
      BY <2>4 DEF WillWrite
    <3>3. QED BY <2>1, <2>2, <3>1, <3>2, Numbers DEF RingInv, Stretch
  <2>5. CASE ~(pc = "wrap" /\ NeedsWrap) /\ ~(pc = "take" /\ left_size >= request)
    BY <2>2, <2>5 DEF WillWrite
  <2>6. QED BY <2>3, <2>4, <2>5
<1>2. QED BY <1>1, RingInvariant, PTL
=============================================================================
