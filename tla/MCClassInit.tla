----------------------------- MODULE MCClassInit ------------------------------
(***************************************************************************)
(* Instances of ClassInit for TLC.  The classes: a superclass, a subclass  *)
(* with an initialiser and a constant string, and the exception's class.   *)
(***************************************************************************)
EXTENDS ClassInit, TLC

CONSTANTS super, sub, error

MCClasses == {super, sub, error}
MCSuper == super :> NoClass @@ sub :> super @@ error :> NoClass
MCWithClinit == {super, sub}
MCWithStrings == {sub}

\* What each initialiser needs; those of the two classes need each other.
MCTriggers == super :> {sub} @@ sub :> {error} @@ error :> {} @@ NoClass :> {super, sub}
=============================================================================
