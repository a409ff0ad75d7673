----------------------------- MODULE MCDmaFence -----------------------------
(* Instances of DmaFence: the sync object waits for fences of one engine.  *)
EXTENDS DmaFence

CONSTANTS f1, f2, e1, e2

OneEngine == [f \in {f1, f2} |-> e1]
=============================================================================
