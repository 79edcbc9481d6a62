---------------------------- MODULE MCClassInitGC -----------------------------
(***************************************************************************)
(* Instances of ClassInitGC for TLC, with one class that has an            *)
(* initialiser and the exception's class.                                  *)
(***************************************************************************)
EXTENDS ClassInitGC, TLC

CONSTANTS cls, error

MCClasses == {cls, error}
MCSuper == cls :> NoClass @@ error :> NoClass
MCWithClinit == {cls}
MCWithStrings == {cls}
MCTriggers == cls :> {} @@ error :> {} @@ NoClass :> {cls}
=============================================================================
