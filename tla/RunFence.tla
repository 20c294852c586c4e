------------------------------ MODULE RunFence ------------------------------
(***************************************************************************)
(* What the driver of one session promises to everything that is fenced by *)
(* it (assert_run_fence_locked): generations only grow, at most the newest *)
(* one is live, and a generation that stopped being live stays so.         *)
(* AgentDriver implements this specification for each of its sessions;     *)
(* the ledgers that are fenced by a run are composed with it.              *)
(***************************************************************************)
EXTENDS Naturals

CONSTANT MaxGeneration   \* bound on generations of one session

VARIABLES
  generation,  \* agent_driver_state.generation
  live         \* phase # idle and the lease has not expired

Init == generation = 0 /\ live = FALSE

\* A reservation: the next generation, only over a row that is not live.
Begin ==
  /\ ~live
  /\ generation < MaxGeneration
  /\ generation' = generation + 1
  /\ live' = TRUE

\* Release, preservation for recovery, or the lease running out.
End ==
  /\ live
  /\ live' = FALSE
  /\ UNCHANGED generation

Next == Begin \/ End

Spec == Init /\ [][Next]_<<generation, live>>

\* assert_run_fence_locked for generation g.
Holds(g) == live /\ generation = g
=============================================================================
