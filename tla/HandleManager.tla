---------------------------- MODULE HandleManager ----------------------------
(***************************************************************************)
(* The handle table through which user space names the driver's objects:   *)
(* a bitmap of used slots searched round robin from free_start, and a      *)
(* table of pointers.  Slot 0 is never given out; handle 0 means failure.  *)
(* The type bits a handle also carries decide nothing here.                *)
(*                                                                         *)
(* add_handle and remove_handle run under bitmap_lock.  Lookups take no    *)
(* lock.  The owner of an object removes its handle once, when it destroys *)
(* the object; the object may be created again.                            *)
(***************************************************************************)
EXTENDS Naturals, FiniteSets

CONSTANTS
  MaxHandle,   \* MAX_HANDLE
  Objects,
  Null

ASSUME HandleAssumption ==
  MaxHandle \in Nat /\ MaxHandle > 1 /\ Null \notin Objects

Slots == 0..(MaxHandle - 1)

VARIABLES
  bitmap, table, left_num, free_start,   \* handle_mgr_t
  handle,      \* the slot of a live object's handle, 0 for the others
  refused      \* add_handle has reported "no enough handle"

handleVars == <<bitmap, table, left_num, free_start, handle, refused>>

\* handle_mgr_create
HandleInit ==
  /\ bitmap = {0} /\ table = [i \in Slots |-> Null]
  /\ left_num = MaxHandle - 1
  /\ free_start = 1
  /\ handle = [o \in Objects |-> 0]
  /\ refused = FALSE

\* i is the first zero bit at or after s.
FirstZeroBit(s, i) ==
  /\ i \in Slots \ bitmap /\ s <= i
  /\ \A j \in Slots : s <= j /\ j < i => j \in bitmap

\* Plausible bug: the search does not start again at the bottom.
BugNoSecondPass(s, i) ==
  FirstZeroBit(s, i) \/ ((\A j \in Slots : s <= j => j \in bitmap) /\ i = MaxHandle)

\* gf_find_next_zero_bit: from s to the end, then from the bottom; MaxHandle
\* when every bit is set.
gf_find_next_zero_bit(s, i) ==
  \/ FirstZeroBit(s, i)
  \/ /\ \A j \in Slots : s <= j => j \in bitmap
     /\ \/ FirstZeroBit(0, i)
        \/ Slots \subseteq bitmap /\ i = MaxHandle

\* The round robin goes on behind the slot that was taken.
FreeStart(i) == (i + 1) % MaxHandle

\* Plausible bug: the bit is tested but not set.
BugSetBit(i) == UNCHANGED bitmap

SetBit(i) == bitmap' = bitmap \cup {i}

add_handle(o) ==
  /\ handle[o] = 0
  /\ \E i \in 0..MaxHandle :
       /\ gf_find_next_zero_bit(free_start, i)
       /\ \/ /\ i < MaxHandle
             /\ SetBit(i)
             /\ left_num' = left_num - 1
             /\ free_start' = FreeStart(i)
             /\ table' = [table EXCEPT ![i] = o]
             /\ handle' = [handle EXCEPT ![o] = i]
             /\ UNCHANGED refused
          \/ /\ i = MaxHandle
             /\ refused' = TRUE
             /\ UNCHANGED <<bitmap, table, left_num, free_start, handle>>

\* get_from_handle: a pointer, or NULL for an unknown handle.
get_from_handle(i) == IF i > 0 /\ i < MaxHandle THEN table[i] ELSE Null

\* Plausible bug: a freed slot is not counted.
BugCountFreed == UNCHANGED left_num

CountFreed == left_num' = left_num + 1

remove_handle(o) ==
  /\ handle[o] # 0
  /\ CountFreed
  /\ bitmap' = bitmap \ {handle[o]}
  /\ table' = [table EXCEPT ![handle[o]] = Null]
  /\ handle' = [handle EXCEPT ![o] = 0]
  /\ UNCHANGED <<free_start, refused>>

HandleNext == \E o \in Objects : add_handle(o) \/ remove_handle(o)

HandleSpec == HandleInit /\ [][HandleNext]_handleVars

-----------------------------------------------------------------------------
(* Properties.                                                             *)

\* The table and the counters keep their types; free_start is inside the table.
HandleTypeOK ==
  /\ bitmap \subseteq Slots /\ table \in [Slots -> Objects \cup {Null}]
  /\ left_num \in Nat /\ free_start \in Slots
  /\ handle \in [Objects -> Slots] /\ refused \in BOOLEAN

\* A live handle leads to the object it was created for, however often slots
\* are freed and used again: no two live objects ever share a slot.
HandlesResolve ==
  \A o \in Objects : handle[o] # 0 => get_from_handle(handle[o]) = o

\* left_num is the number of slots that add_handle can still give out.
LeftNumAccounts == left_num + Cardinality(bitmap) = MaxHandle

\* add_handle asserts "no enough handle" only when every slot is in use.
RefusedOnlyWhenFull ==
  [][refused' # refused => \A i \in Slots : i \in bitmap]_handleVars

-----------------------------------------------------------------------------
(* The inductive invariant behind HandlesResolve.                          *)

\* The bitmap, the table and the live handles describe the same slots.
SlotsAgree ==
  /\ 0 \in bitmap
  /\ \A o \in Objects : handle[o] # 0 =>
       handle[o] \in bitmap /\ table[handle[o]] = o

HandleInv == HandleTypeOK /\ SlotsAgree /\ LeftNumAccounts
=============================================================================
