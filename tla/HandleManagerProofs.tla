------------------------ MODULE HandleManagerProofs ------------------------
(* Proofs about HandleManager, for every size of the table and any objects. *)
EXTENDS HandleManager, FiniteSetTheorems, TLAPS

\* The table has MaxHandle slots and every set of slots is finite.
LEMMA SlotsFinite ==
  /\ IsFiniteSet(Slots) /\ Cardinality(Slots) = MaxHandle
  /\ \A S \in SUBSET Slots : IsFiniteSet(S) /\ Cardinality(S) \in Nat
<1>1. MaxHandle \in Nat /\ MaxHandle - 1 \in Int /\ 0 \in Int
  BY HandleAssumption
<1>2. IsFiniteSet(0..(MaxHandle - 1))
  BY <1>1, FS_Interval
<1>3. Cardinality(0..(MaxHandle - 1)) =
        IF 0 > MaxHandle - 1 THEN 0 ELSE (MaxHandle - 1) - 0 + 1
  BY <1>1, FS_Interval
<1>4. Cardinality(Slots) = MaxHandle
  BY <1>3, HandleAssumption DEF Slots
<1>5. ASSUME NEW S \in SUBSET Slots
      PROVE  IsFiniteSet(S) /\ Cardinality(S) \in Nat
  BY <1>2, FS_Subset, FS_CardinalityType DEF Slots
<1> QED BY <1>2, <1>4, <1>5 DEF Slots

\* handle_mgr_create establishes the invariant.
LEMMA InitHandles == HandleInit => HandleInv
<1> SUFFICES ASSUME HandleInit PROVE HandleInv
  OBVIOUS
<1>1. 0 \in Slots /\ 1 \in Slots
  BY HandleAssumption DEF Slots
<1>2. Cardinality({0}) = 1
  BY FS_Singleton
<1>3. HandleTypeOK
  <2>1. left_num \in Nat
    BY HandleAssumption DEF HandleInit
  <2>2. refused \in BOOLEAN
    BY DEF HandleInit
  <2> QED BY <1>1, <2>1, <2>2, Zenon DEF HandleInit, HandleTypeOK
<1>4. SlotsAgree
  BY DEF HandleInit, SlotsAgree
<1>5. LeftNumAccounts
  BY <1>2, HandleAssumption DEF HandleInit, LeftNumAccounts
<1> QED BY <1>3, <1>4, <1>5 DEF HandleInv

\* A free slot is not the failure slot, nor that of a live handle, and while
\* there is one left_num is positive.
LEMMA FreeSlot ==
  ASSUME HandleInv, NEW i \in Slots \ bitmap
  PROVE  /\ i # 0 /\ \A o \in Objects : handle[o] # i
         /\ left_num - 1 \in Nat
         /\ Cardinality(bitmap \cup {i}) = Cardinality(bitmap) + 1
<1>1. i # 0 /\ \A o \in Objects : handle[o] # i
  BY DEF HandleInv, SlotsAgree
<1>2. IsFiniteSet(bitmap) /\ Cardinality(bitmap) \in Nat
  BY SlotsFinite DEF HandleInv, HandleTypeOK
<1>3. Cardinality(bitmap \cup {i}) = Cardinality(bitmap) + 1
  BY <1>2, FS_AddElement
<1>4. bitmap \cup {i} \subseteq Slots
  BY DEF HandleInv, HandleTypeOK
<1>5. Cardinality(bitmap \cup {i}) <= MaxHandle
  BY <1>4, SlotsFinite, FS_Subset
<1>6. left_num - 1 \in Nat
  BY <1>2, <1>3, <1>5, HandleAssumption DEF HandleInv, HandleTypeOK, LeftNumAccounts
<1> QED BY <1>1, <1>3, <1>6

\* add_handle preserves the invariant, whether it finds a slot or not.
LEMMA AddPreserves ==
  ASSUME HandleInv, NEW o \in Objects, add_handle(o)
  PROVE  HandleInv'
<1>1. PICK i \in 0..MaxHandle :
        /\ gf_find_next_zero_bit(free_start, i)
        /\ \/ /\ i < MaxHandle
              /\ SetBit(i)
              /\ left_num' = left_num - 1
              /\ free_start' = FreeStart(i)
              /\ table' = [table EXCEPT ![i] = o]
              /\ handle' = [handle EXCEPT ![o] = i]
              /\ UNCHANGED refused
           \/ /\ i = MaxHandle
              /\ refused' = TRUE
              /\ UNCHANGED <<bitmap, table, left_num, free_start, handle>>
  BY DEF add_handle
<1>2. CASE i = MaxHandle
  <2>1. UNCHANGED <<bitmap, table, left_num, free_start, handle>> /\ refused' = TRUE
    BY <1>1, <1>2, HandleAssumption
  <2> QED BY <2>1 DEF HandleInv, HandleTypeOK, SlotsAgree, LeftNumAccounts
<1>3. CASE i < MaxHandle
  <2>1. /\ bitmap' = bitmap \cup {i} /\ left_num' = left_num - 1
        /\ free_start' = (i + 1) % MaxHandle
        /\ table' = [table EXCEPT ![i] = o] /\ handle' = [handle EXCEPT ![o] = i]
        /\ refused' = refused
    BY <1>1, <1>3, HandleAssumption DEF SetBit, FreeStart
  <2>2. i \in Slots \ bitmap
    BY <1>1, <1>3, HandleAssumption DEF gf_find_next_zero_bit, FirstZeroBit
  <2>3. /\ i # 0 /\ \A p \in Objects : handle[p] # i
        /\ left_num - 1 \in Nat
        /\ Cardinality(bitmap \cup {i}) = Cardinality(bitmap) + 1
    BY <2>2, FreeSlot
  <2>4. (i + 1) % MaxHandle \in Slots
    BY <2>2, HandleAssumption DEF Slots
  <2>5. HandleTypeOK'
    BY <2>1, <2>2, <2>3, <2>4 DEF HandleInv, HandleTypeOK
  <2>6. SlotsAgree'
    BY <2>1, <2>2, <2>3 DEF HandleInv, HandleTypeOK, SlotsAgree
  <2>7. Cardinality(bitmap) \in Nat /\ left_num \in Nat
    BY SlotsFinite DEF HandleInv, HandleTypeOK
  <2>8. LeftNumAccounts'
    BY <2>1, <2>3, <2>7, HandleAssumption DEF HandleInv, LeftNumAccounts
  <2> QED BY <2>5, <2>6, <2>8 DEF HandleInv
<1> QED BY <1>1, <1>2, <1>3, HandleAssumption

\* remove_handle preserves the invariant.
LEMMA RemovePreserves ==
  ASSUME HandleInv, NEW o \in Objects, remove_handle(o)
  PROVE  HandleInv'
<1>1. /\ handle[o] # 0 /\ handle[o] \in bitmap /\ handle[o] \in Slots
      /\ table[handle[o]] = o
  BY DEF HandleInv, HandleTypeOK, SlotsAgree, remove_handle
<1>2. /\ left_num' = left_num + 1 /\ bitmap' = bitmap \ {handle[o]}
      /\ table' = [table EXCEPT ![handle[o]] = Null]
      /\ handle' = [handle EXCEPT ![o] = 0]
      /\ free_start' = free_start /\ refused' = refused
  BY DEF remove_handle, CountFreed
<1>3. IsFiniteSet(bitmap) /\ Cardinality(bitmap) \in Nat
  BY SlotsFinite DEF HandleInv, HandleTypeOK
<1>4. Cardinality(bitmap \ {handle[o]}) = Cardinality(bitmap) - 1
  BY <1>1, <1>3, FS_RemoveElement
<1>5. HandleTypeOK'
  <2>1. left_num' \in Nat /\ free_start' \in Slots
    BY <1>2 DEF HandleInv, HandleTypeOK
  <2>2. bitmap' \subseteq Slots /\ table' \in [Slots -> Objects \cup {Null}]
    BY <1>1, <1>2 DEF HandleInv, HandleTypeOK
  <2>3. 0 \in Slots /\ handle' \in [Objects -> Slots]
    BY <1>2, HandleAssumption DEF HandleInv, HandleTypeOK, Slots
  <2>4. refused' \in BOOLEAN
    BY <1>2 DEF HandleInv, HandleTypeOK
  <2> QED BY <2>1, <2>2, <2>3, <2>4 DEF HandleTypeOK
<1>6. SlotsAgree'
  <2>1. \A p \in Objects : p # o /\ handle[p] # 0 => handle[p] # handle[o]
    BY <1>1 DEF HandleInv, SlotsAgree
  <2> QED BY <1>1, <1>2, <2>1 DEF HandleInv, HandleTypeOK, SlotsAgree
<1>7. LeftNumAccounts'
  BY <1>2, <1>3, <1>4 DEF HandleInv, HandleTypeOK, LeftNumAccounts
<1> QED BY <1>5, <1>6, <1>7 DEF HandleInv

\* The bitmap, the table, the live handles and left_num always agree.
THEOREM HandleInvariant == HandleSpec => []HandleInv
<1>1. HandleInit => HandleInv
  BY InitHandles
<1>2. HandleInv /\ [HandleNext]_handleVars => HandleInv'
  <2> SUFFICES ASSUME HandleInv, [HandleNext]_handleVars PROVE HandleInv'
    OBVIOUS
  <2>1. CASE HandleNext
    BY <2>1, AddPreserves, RemovePreserves DEF HandleNext
  <2>2. CASE UNCHANGED handleVars
    BY <2>2 DEF handleVars, HandleInv, HandleTypeOK, SlotsAgree, LeftNumAccounts
  <2> QED BY <2>1, <2>2
<1> QED BY <1>1, <1>2, PTL DEF HandleSpec

\* A live handle always resolves to the object it was created for.
THEOREM HandlesCorrect == HandleSpec => []HandlesResolve
<1>1. HandleInv => HandlesResolve
  BY HandleAssumption DEF HandleInv, HandleTypeOK, SlotsAgree, HandlesResolve, get_from_handle, Slots
<1> QED BY <1>1, HandleInvariant, PTL

\* left_num counts exactly the slots that can still be given out.
THEOREM LeftNumCorrect == HandleSpec => []LeftNumAccounts
<1>1. HandleInv => LeftNumAccounts
  BY DEF HandleInv
<1> QED BY <1>1, HandleInvariant, PTL

\* add_handle refuses only when every slot is in use, wherever free_start is.
THEOREM RefusalCorrect == HandleSpec => RefusedOnlyWhenFull
<1>1. HandleInv /\ [HandleNext]_handleVars =>
        [refused' # refused => \A i \in Slots : i \in bitmap]_handleVars
  <2> SUFFICES ASSUME HandleInv, HandleNext, refused' # refused
               PROVE  \A i \in Slots : i \in bitmap
    BY DEF handleVars
  <2>1. PICK o \in Objects : add_handle(o)
    BY DEF HandleNext, remove_handle
  <2>2. gf_find_next_zero_bit(free_start, MaxHandle)
    BY <2>1 DEF add_handle
  <2>3. MaxHandle \notin Slots
    BY HandleAssumption DEF Slots
  <2> QED BY <2>2, <2>3 DEF gf_find_next_zero_bit, FirstZeroBit
<1> QED BY <1>1, HandleInvariant, PTL DEF HandleSpec, RefusedOnlyWhenFull
=============================================================================
