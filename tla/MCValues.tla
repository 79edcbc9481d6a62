------------------------------- MODULE MCValues -------------------------------
(***************************************************************************)
(* Values on words of four bits: every pair of operands, every table of up *)
(* to three keys and every key.                                            *)
(***************************************************************************)
EXTENDS Values
=============================================================================
