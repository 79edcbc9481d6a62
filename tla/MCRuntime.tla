------------------------------ MODULE MCRuntime ------------------------------
(***************************************************************************)
(* Instances of Runtime for TLC, and what the comments of the code say of  *)
(* the allocator.                                                          *)
(***************************************************************************)
EXTENDS Runtime

(***************************************************************************)
(* heap.c:53, on asking for a collection: "try a minor gc".  The launcher, *)
(* which makes the arguments of main (main.c:196) before there is a Java   *)
(* thread, gets the collection it asked for, or the process ends.          *)
(***************************************************************************)
MinorIsTried ==
    (activity[Launcher] = "fit" /\ requestedMode = S!MINOR_ONLY /\ gcPc = "lock")
        ~> (gcPc = "collect" \/ ~S!Alive)
=============================================================================
