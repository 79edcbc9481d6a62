----------------------------- MODULE MCSafepoint -----------------------------
(***************************************************************************)
(* Instances of Safepoint for TLC, and what the comments of the code say   *)
(* of it.                                                                  *)
(***************************************************************************)
EXTENDS Safepoint


(***************************************************************************)
(* main.c:214, of the loop before main returns: "Now we're done, so this   *)
(* thread can pause until all threads are done".  The process does not end *)
(* by the end of main while a thread that was started has not ended.       *)
(***************************************************************************)
MainWaitsForThreads ==
    pc[Launcher] = "exited" => \A t \in Threads : pc[t] \in {"new", "done"}
=============================================================================
