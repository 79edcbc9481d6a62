------------------------------- MODULE MCJLock -------------------------------
(***************************************************************************)
(* The instance of JLock for TLC is in its configuration.                  *)
(***************************************************************************)
EXTENDS JLock
=============================================================================
