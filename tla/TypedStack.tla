----------------------------- MODULE TypedStack -----------------------------
(***************************************************************************)
(* One frame of verified code as the instruction set describes it: every   *)
(* instruction replaces the values it takes by those it leaves, or is not  *)
(* executed at all.  Once an instruction of Excluded has gone wrong        *)
(* nothing is promised any more.                                           *)
(***************************************************************************)
EXTENDS Instructions

CONSTANTS NoCell,       \* a local variable nothing was written to
          Excluded      \* instructions that may go wrong

VARIABLES cells,        \* the operand stack, bottom first
          locals,       \* the local variables
          wrong         \* the instruction that went wrong, or <<>>

vars == <<cells, locals, wrong>>

Init == /\ cells = <<>>
        /\ locals = [n \in 0 .. NumLocals - 1 |-> NoCell]
        /\ wrong = <<>>

Execute == \E op \in Shapes :
    /\ wrong = <<>> /\ wrong' = <<>>
    /\ CanRun(op, cells, locals)
    /\ cells' = CellsAfter(op, cells)
    /\ locals' = LocalsAfter(op, locals)

\* Whatever it left on the stack and in the local variables.
GoWrong == wrong = <<>> /\ wrong' \in Excluded

Spec == Init /\ [][GoWrong \/ Execute]_vars
=============================================================================
