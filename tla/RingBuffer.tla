----------------------------- MODULE RingBuffer -----------------------------
(***************************************************************************)
(* The ring buffer of an engine: the driver takes space for the commands   *)
(* of one task at a time (under engine_lock) and kicks them off; the GPU   *)
(* reads the ring concurrently, and a reset starts the ring again without  *)
(* the lock.  ring_buffer_get_space never learns about completed tasks: it *)
(* has its own idea of the space left, refreshed from the GPU's head       *)
(* register when it wraps or when space seems short.                       *)
(*                                                                         *)
(* Nothing bounds what is asked for: renders wait for a hardware queue     *)
(* slot, paging tasks do not, and a video engine copies whole DMA buffers  *)
(* into its ring.  No engine reserves space (reserved_size is 0).          *)
(***************************************************************************)
EXTENDS Naturals

CONSTANTS
  RingSize,    \* RING_BUFFER_SIZE_E3K
  Requests     \* sizes of the commands of a task

ASSUME RingAssumption == RingSize \in Nat \ {0} /\ Requests \subseteq Nat \ {0}

Offsets == 0..(RingSize - 1)

VARIABLES
  head, tail, left_size,  \* ring_buffer_t
  pc, request,            \* progress of enginei_get_ring_buffer_space_e3k
  hw_head, hw_tail,       \* the GPU's ring registers
  unread,                 \* history: offsets written that the GPU has not read
  crowded                 \* history: more was asked for than the ring had free

driverVars == <<head, tail, left_size>>
hwVars == <<hw_head, hw_tail>>
ringVars == <<driverVars, pc, request, hwVars, unread, crowded>>

\* ring_buffer_init and the ring registers.
RingInit ==
  /\ head = 0 /\ tail = 0 /\ left_size = RingSize
  /\ hw_head = 0 /\ hw_tail = 0 /\ unread = {}
  /\ pc = "idle" /\ request = 0 /\ crowded = FALSE

\* The free part of the ring holds the request, at the tail or, if it does not fit
\* before the end of the ring, from offset 0 on.
Room(r) ==
  IF hw_head <= tail THEN tail + r < RingSize \/ r < hw_head
  ELSE tail + r < hw_head

\* Any task may come at any time.
GetSpace(r) ==
  /\ pc = "idle"
  /\ request' = r /\ pc' = "wrap"
  /\ crowded' = (crowded \/ ~Room(r))
  /\ UNCHANGED <<driverVars, hwVars, unread>>

\* Plausible bugs: off by one at the end of the ring; a wrap some space too early.
BugNeedsWrap == tail + request > RingSize
BugWrapEarly == tail + 3 * request > RingSize

NeedsWrap == tail + request >= RingSize

\* The tail end of the ring is zeroed and skipped; the space before the head is
\* what is left.
Wrap ==
  /\ pc = "wrap"
  /\ IF NeedsWrap
     THEN /\ head' = hw_head /\ tail' = 0
          /\ left_size' = hw_head
          /\ unread' = unread \cup (tail..(RingSize - 1))
     ELSE UNCHANGED <<driverVars, unread>>
  /\ pc' = "update"
  /\ UNCHANGED <<request, hwVars, crowded>>

\* Plausible bug: the space before the head, as when it wraps.
BugLeftSize == IF hw_head > tail THEN hw_head - tail ELSE 0

\* "if left size not enough, update left size", as if the head were behind the
\* tail, also when it is in front of it.
LeftSize == (RingSize + hw_head) - tail

UpdateLeft ==
  /\ pc = "update"
  /\ IF left_size < request
     THEN head' = hw_head /\ left_size' = LeftSize
     ELSE UNCHANGED <<head, left_size>>
  /\ pc' = "take"
  /\ UNCHANGED <<tail, request, hwVars, unread, crowded>>

\* The space is taken and filled.  A request as large as the ring is written over
\* its end, and what follows is not modelled.
Take ==
  /\ pc = "take" /\ left_size >= request
  /\ IF tail + request < RingSize
     THEN /\ left_size' = left_size - request
          /\ tail' = tail + request
          /\ unread' = unread \cup (tail..(tail + request - 1))
          /\ pc' = "kick"
     ELSE pc' = "overrun" /\ UNCHANGED <<left_size, tail, unread>>
  /\ UNCHANGED <<head, request, hwVars, crowded>>

\* Without enough space enginei_get_ring_buffer_space_e3k spins.
TryAgain ==
  /\ pc = "take" /\ left_size < request
  /\ pc' = "wrap"
  /\ UNCHANGED <<driverVars, request, hwVars, unread, crowded>>

\* enginei_do_kickoff_cmd_e3k
KickOffRing ==
  /\ pc = "kick"
  /\ hw_tail' = tail /\ pc' = "idle"
  /\ UNCHANGED <<driverVars, request, hw_head, unread, crowded>>

\* The GPU (external) reads on until its head meets its tail.
GpuRead ==
  /\ hw_head # hw_tail
  /\ hw_head' = (hw_head + 1) % RingSize
  /\ unread' = unread \ {hw_head}
  /\ UNCHANGED <<driverVars, pc, request, hw_tail, crowded>>

\* enginei_enable_ring_buffer_e3k after a reset, between any two steps of a request.
Restart ==
  /\ head' = 0 /\ tail' = 0 /\ left_size' = RingSize
  /\ hw_head' = 0 /\ hw_tail' = 0 /\ unread' = {}
  /\ crowded' = (request >= RingSize)
  /\ UNCHANGED <<pc, request>>

RingNext ==
  \/ \E r \in Requests : GetSpace(r)
  \/ Wrap \/ UpdateLeft \/ Take \/ TryAgain \/ KickOffRing
  \/ GpuRead \/ Restart

RingSpec == RingInit /\ [][RingNext]_ringVars

-----------------------------------------------------------------------------
(* Properties.                                                             *)

\* The driver's and the GPU's offsets stay inside the ring, the tail never reaches
\* its end, and only a request as large as the ring is written over it.
RingTypeOK ==
  /\ head \in Offsets /\ tail \in Offsets /\ left_size \in 0..(2 * RingSize)
  /\ pc \in {"idle", "wrap", "update", "take", "kick", "overrun"}
  /\ request \in Requests \cup {0} /\ crowded \in BOOLEAN
  /\ hw_head \in Offsets /\ hw_tail \in Offsets /\ unread \subseteq Offsets
  /\ pc = "overrun" => request >= RingSize

\* ring_buffer_get_space never refuses a request smaller than the ring, whatever the
\* GPU has still to read: the caller, who holds engine_lock, does not spin, and
\* nothing but the size of what is asked for keeps unread commands.
NeverRefused == pc = "take" /\ request < RingSize => left_size >= request

\* The offsets the next step of the driver writes.
WillWrite ==
  IF pc = "wrap" /\ NeedsWrap THEN tail..(RingSize - 1)
  ELSE IF pc = "take" /\ left_size >= request THEN tail..(tail + request - 1)
  ELSE {}

\* As long as every request found the ring with that much free, the space
\* ring_buffer_get_space hands out, and the end a wrap clears, hold nothing the GPU
\* has still to read, and a ring with unread commands does not look empty to the GPU
\* (head = tail), although the space left is computed from a stale head.
UnreadStays ==
  ~crowded => /\ WillWrite \cap unread = {}
              /\ pc = "idle" /\ unread # {} => hw_head # hw_tail

-----------------------------------------------------------------------------
(* The inductive invariant.                                                *)

\* From offset a up to, not including, offset b.
Stretch(a, b) ==
  IF a <= b THEN a..(b - 1) ELSE (a..(RingSize - 1)) \cup (0..(b - 1))

\* The next request will not be refused, nor leave the ring.
SpaceOK ==
  /\ pc # "idle" => request \in Requests
  /\ pc \in {"update", "take"} /\ request < RingSize => tail + request < RingSize
  /\ pc = "kick" => request < RingSize
  /\ NeverRefused

\* The GPU is not past t and the driver stays clear of it up to e.
Clear(t, e) == hw_head <= t \/ e < hw_head

\* Where the tail is, seen from the GPU's registers, while the request has room.
RoomOK ==
  /\ request < RingSize
  /\ pc = "idle" => tail = hw_tail
  /\ pc = "wrap" => tail = hw_tail /\ Room(request)
  /\ pc \in {"update", "take"} =>
       \/ tail = hw_tail /\ Clear(tail, tail + request)
       \/ tail = 0 /\ hw_head <= hw_tail /\ request < hw_head
  /\ pc = "kick" =>
       \/ tail = hw_tail + request /\ Clear(hw_tail, tail)
       \/ tail = request /\ hw_head <= hw_tail /\ tail < hw_head
       \/ tail = 0 /\ hw_tail = 0 /\ hw_head = 0

RingInv ==
  /\ RingTypeOK /\ SpaceOK
  /\ ~crowded => RoomOK /\ unread = Stretch(hw_head, tail) /\ (pc # "overrun")
=============================================================================
