---------------------------- MODULE MCInterpreter ----------------------------
(***************************************************************************)
(* The instance of Interpreter for TLC is in its configuration.            *)
(***************************************************************************)
EXTENDS Interpreter
=============================================================================
