------------------------------- MODULE MCGrpc -------------------------------
(***************************************************************************)
(* Grpc for TLC: two connections, a node that finds two more blocks, and a *)
(* devfund cycle of three templates.                                       *)
(***************************************************************************)
EXTENDS Grpc
=============================================================================
