---------------------------- MODULE MCVidSchQueue ----------------------------
(* Instances of VidSchQueue for TLC.                                       *)
EXTENDS VidSchQueue

CONSTANTS t1, t2, t3, t4, th1, th2, c1, c2

TwoEach == t1 :> th1 @@ t2 :> th1 @@ t3 :> th2 @@ t4 :> th2
OwnContexts == th1 :> c1 @@ th2 :> c2
OneContext == th1 :> c1 @@ th2 :> c1

Mixed == t1 :> "wait" @@ t2 :> "signal" @@ t3 :> "render" @@ t4 :> "client"
Renders == [t \in Tasks |-> "render"]

\* vidschi_init_engine_schedule_profile_e3k sets schedule_serialize for every
\* engine that is in use.
Serialized(kinds) == {[kind |-> k, serialize |-> TRUE] : k \in kinds}

MixedOrRenders == Serialized({Mixed, Renders})
OnlyMixed == Serialized({Mixed})
OnlyRenders == Serialized({Renders})
=============================================================================
