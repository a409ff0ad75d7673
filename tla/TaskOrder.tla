------------------------------ MODULE TaskOrder ------------------------------
(***************************************************************************)
(* What the pending queue of an engine promises its clients: a task that   *)
(* was accepted goes through exactly once, after every task that its       *)
(* context had accepted before it.  There are no ids, pools, semaphores or *)
(* threads here; VidSchQueue implements this with them.                    *)
(***************************************************************************)
CONSTANTS Tasks, CtxOfTask(_)

VARIABLES
  accepted,   \* tasks a client handed over
  before,     \* the accepted tasks of the same context each of them follows
  through     \* tasks that were submitted, signaled or waited for

vars == <<accepted, before, through>>

Init ==
  /\ accepted = {} /\ through = {}
  /\ before = [t \in Tasks |-> {}]

Accept(t) ==
  /\ t \notin accepted
  /\ accepted' = accepted \cup {t}
  /\ before' = [before EXCEPT
                  ![t] = {u \in accepted : CtxOfTask(u) = CtxOfTask(t)}]
  /\ UNCHANGED through

Submit(t) ==
  /\ t \in accepted \ through
  /\ before[t] \subseteq through
  /\ through' = through \cup {t}
  /\ UNCHANGED <<accepted, before>>

Next == \E t \in Tasks : Accept(t) \/ Submit(t)

Spec == Init /\ [][Next]_vars
=============================================================================
