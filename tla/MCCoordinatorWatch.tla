------------------------- MODULE MCCoordinatorWatch -------------------------
(* Every class of planner decision, two of the wakes.                      *)
EXTENDS CoordinatorWatch

const_Plan == {"AUDIT_REVIEW", "STALE_WORKER", "WAIT_EXTERNAL", "RESUME_WORKER",
               "BLOCK_HUMAN", "RETRY", "NOOP_COMPLETE"}
=============================================================================
