---------------------------- MODULE MCVidMmPaging ----------------------------
(* Instances of VidMmPaging for TLC.                                       *)
EXTENDS VidMmPaging, TLC

CONSTANTS t1, t2, e0, e1, a1, c1

\* One task on the paging engine and one on another.
BothEngines == t1 :> e0 @@ t2 :> e1

PinFirst == c1 :> a1
=============================================================================
