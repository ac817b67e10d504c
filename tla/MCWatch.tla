------------------------------ MODULE MCWatch ------------------------------
(***************************************************************************)
(* Watch for TLC: the sender of a MinerManager and two workers, the second *)
(* one's handle cloned from the first's.  Three versions let a receiver    *)
(* miss one, be handed one twice and still have a newest one to reach.     *)
(***************************************************************************)
EXTENDS Watch

CONSTANTS r1, r2
=============================================================================
