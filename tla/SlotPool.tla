------------------------------ MODULE SlotPool -------------------------------
(***************************************************************************)
(* What the address table promises its users: a slot that was handed out   *)
(* belongs to the thread that got it until that thread gives it back, and  *)
(* slot 0 (the null reference) is never handed out.                        *)
(***************************************************************************)
EXTENDS Integers

CONSTANTS Threads, Slots

VARIABLE mine       \* the slots each thread holds

Init == mine = [t \in Threads |-> {}]

Held == UNION {mine[t] : t \in Threads}

Allocate(t) ==
    \E s \in Slots \ (Held \cup {0}) :
        mine' = [mine EXCEPT ![t] = @ \cup {s}]

Free(t) ==
    \E s \in mine[t] : mine' = [mine EXCEPT ![t] = @ \ {s}]

Next == \E t \in Threads : Allocate(t) \/ Free(t)

Spec == Init /\ [][Next]_mine
=============================================================================
