---------------------------- MODULE MCUtilities ----------------------------
(***************************************************************************)
(* The data structures the components share nothing of but use as they     *)
(* are: the handle table, a heap and a ring buffer, each on its own.  One  *)
(* of them moves, the other two stay as they were created.                 *)
(***************************************************************************)
EXTENDS HandleManager, HeapManager, RingBuffer

Init == HandleInit /\ HeapInit /\ RingInit

Next ==
  \/ HandleNext /\ HeapInit /\ RingInit /\ UNCHANGED <<heapVars, ringVars>>
  \/ HeapNext /\ HandleInit /\ RingInit /\ UNCHANGED <<handleVars, ringVars>>
  \/ RingNext /\ HandleInit /\ HeapInit /\ UNCHANGED <<handleVars, heapVars>>

Spec == Init /\ [][Next]_<<handleVars, heapVars, ringVars>>
=============================================================================
