----------------------------- MODULE MCStratum -----------------------------
(***************************************************************************)
(* Stratum for TLC: two connections, three shares each, and a devfund      *)
(* cycle of three templates the first of which is the devfund's.           *)
(***************************************************************************)
EXTENDS Stratum
=============================================================================
