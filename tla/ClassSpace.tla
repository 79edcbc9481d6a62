------------------------------ MODULE ClassSpace ------------------------------
(***************************************************************************)
(* What a class loader promises: a class is there for good, after its      *)
(* superclass and interfaces, and who asks for one gets a class that is    *)
(* there, or nothing while it is not kept.                                 *)
(***************************************************************************)
EXTENDS Naturals

CONSTANTS Threads, Names, Null, NoAnswer

VARIABLES parents,    \* superclass and interfaces of each class
          usable,     \* classes that are there
          kept,       \* those of them that are found again
          asked, answer

vars == <<parents, usable, kept, asked, answer>>

Init == /\ parents \in [Names -> SUBSET Names]
        /\ usable = {}
        /\ kept = {}
        /\ asked = [t \in Threads |-> NoAnswer]    \* nothing yet
        /\ answer = [t \in Threads |-> Null]

Ask(t, n) == /\ answer[t] # NoAnswer
             /\ asked' = [asked EXCEPT ![t] = n]
             /\ answer' = [answer EXCEPT ![t] = NoAnswer]
             /\ UNCHANGED <<parents, usable, kept>>

\* Short of memory, what is defined may not be kept.
Define(n) == /\ parents[n] \subseteq usable
             /\ usable' = usable \cup {n}
             /\ kept' \in {kept, kept \cup {n}}
             /\ UNCHANGED <<parents, asked, answer>>

Give(t) == /\ answer[t] = NoAnswer /\ asked[t] \in usable
           /\ answer' = [answer EXCEPT ![t] = asked[t]]
           /\ UNCHANGED <<parents, usable, kept, asked>>

Refuse(t) == /\ answer[t] = NoAnswer /\ asked[t] \notin kept
             /\ answer' = [answer EXCEPT ![t] = Null]
             /\ UNCHANGED <<parents, usable, kept, asked>>

Next == \/ \E t \in Threads : Give(t) \/ Refuse(t) \/ \E n \in Names : Ask(t, n)
        \/ \E n \in Names : Define(n)

Spec == Init /\ [][Next]_vars
=============================================================================
