------------------------------- MODULE Monitor -------------------------------
(***************************************************************************)
(* A re-entrant lock as its users see it: depth[t] is how many more times  *)
(* thread t has entered than left, and only one thread is inside.          *)
(***************************************************************************)
EXTENDS Naturals

CONSTANT Threads

VARIABLE depth

Init == depth = [t \in Threads |-> 0]

Enter(t) == /\ \A u \in Threads \ {t} : depth[u] = 0
            /\ depth' = [depth EXCEPT ![t] = @ + 1]

Leave(t) == /\ depth[t] > 0
            /\ depth' = [depth EXCEPT ![t] = @ - 1]

Next == \E t \in Threads : Enter(t) \/ Leave(t)

Spec == Init /\ [][Next]_depth
=============================================================================
