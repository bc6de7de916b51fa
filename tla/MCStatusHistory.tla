--------------------------- MODULE MCStatusHistory ---------------------------
(***************************************************************************)
(* StatusHistory with bounded numbers of reconciles, writes and faults.    *)
(***************************************************************************)
EXTENDS StatusHistory
=============================================================================
