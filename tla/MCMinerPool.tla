---------------------------- MODULE MCMinerPool ----------------------------
(***************************************************************************)
(* MinerPool for TLC: one CPU and one GPU worker compete for the one place *)
(* in the block channel, a poll comes every second nonce, and two commands *)
(* are sent before the Close (a job and a None, or two jobs).              *)
(***************************************************************************)
EXTENDS MinerPool

CONSTANTS cpu, gpu
MCLaunched == <<cpu, gpu>>
=============================================================================
