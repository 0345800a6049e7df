----------------------------- MODULE MCWatchHost -----------------------------
(* A wake, a notice, a quiet decision and a complete packet: one plan for   *)
(* each kind of result the evaluator can hand the host.                     *)
EXTENDS WatchHost, TLC

const_Plan == {"ADMIT_IMPLEMENTATION", "BLOCK_HUMAN", "WAIT_EXTERNAL", "NOOP_COMPLETE"}

Interchangeable == Permutations(Run)
=============================================================================
