----------------------------- MODULE Interpreter -----------------------------
(***************************************************************************)
(* The handlers of bytecode_interpreter.c, and the operand stack and local *)
(* variables of jthread.c they work on, for one frame of verified code,    *)
(* the frame of a <clinit> that initializeClass makes.  The frame of main  *)
(* is left out: createThread gives it the size of a pointer, so that its   *)
(* tags and operands lie over the fields of the frame itself.              *)
(*                                                                         *)
(* Of a cell the model keeps what it holds (a value of a type, or one half *)
(* of it, or Junk) and whether the tag beside it is one of the two that    *)
(* tell a wide value: the handlers ask nothing else of a tag.  The code of *)
(* the method is any verified code: the next instruction is any that the   *)
(* verifier would accept here, the same one when the handler returned 0    *)
(* without moving the pc.  Values, and with them which of the possible     *)
(* exceptions is thrown, are not modelled.                                 *)
(*                                                                         *)
(* lost records the first step that did not do what the instruction set    *)
(* says; verified code promises nothing from there on and the model ends.  *)
(* Frames that <clinit> nests are in ClassInit; the typed returns need a   *)
(* caller, and no handler makes one.                                       *)
(***************************************************************************)
EXTENDS Instructions

CONSTANTS NoCell,       \* a local variable nothing was written to
          None,         \* no instruction
          Room          \* bound: instructions that push run up to this depth

ASSUME RoomAssumption == Room \in Nat

VARIABLES stack,        \* operandStackBase and operandStackTypeBase, bottom first
          locals,       \* localVariableBase
          retry,        \* the instruction the pc was left at, or None
          exception,    \* interpreter->exception was set
          result,       \* what run() returned, or "running"
          lost          \* <<>>, or <<how, name, type>> of the instruction

vars == <<stack, locals, retry, exception, result, lost>>

Junk == <<"junk", 1>>
Contents(s) == [k \in DOMAIN s |-> s[k].v]
\* initializeClass enters the frame of a <clinit>, which has no parameters.
Init == /\ stack = <<>>
        /\ locals = [n \in 0 .. NumLocals - 1 |-> NoCell]
        /\ retry = None
        /\ exception = FALSE
        /\ result = "running"
        /\ lost = <<>>

-----------------------------------------------------------------------------
(* The operand stack.                                                      *)

Push(s, t) == s \o [k \in 1 .. Width(t) |-> [v |-> Value(t)[k], wide |-> t \in Wide]]
Pop(n) == SubSeq(stack, 1, Len(stack) - n)
Top(k) == stack[Len(stack) - k]

\* peekOperandType: below the first operand it reads the bytes that lie
\* before the types of this frame.
TellsWide(k) == IF k < Len(stack) THEN {Top(k).wide} ELSE BOOLEAN

\* peekOperand reads the value from below the base of the stack, where no
\* operand lies; its callers pass the tag on as the next argument, which may be
\* evaluated before it is set.
Peeked == [v : {Junk}, wide : BOOLEAN]

-----------------------------------------------------------------------------
(* One turn of the loop in run().                                          *)

Grows(op) == Len(CellsAfter(op, Contents(stack))) > Len(stack)

\* The next instruction of the code, or once more the one at the pc.
Fetch(op) == /\ lost = <<>>
             /\ result = "running"
             /\ retry \in {None, op}
             /\ CanRun(op, Contents(stack), locals)
             /\ Grows(op) => \/ Len(stack) <= Room
                             \/ op \in Moving /\ Len(stack) = Taken(Moves[op.name])

AsPromised(op, s, l) ==
    /\ Contents(s) = CellsAfter(op, Contents(stack))
    /\ \A k \in DOMAIN s : s[k].wide <=> s[k].v[1] \in Wide
    /\ l = LocalsAfter(op, locals)

\* The handler leaves the stack as s and the local variables as l, and the pc
\* moves by len.
Ran(op, s, l, len) ==
    /\ stack' = s
    /\ locals' = l
    /\ retry' = None
    /\ lost' = IF AsPromised(op, s, l) /\ len = op.len THEN <<>>
               ELSE <<"wrong", op.name, op.t>>
    /\ UNCHANGED <<exception, result>>

\* The handler does something else than the instruction: a value is taken for
\* another one, a call is not made, the pc ends up elsewhere.
Misdone(op, s, e) == /\ stack' = s
                     /\ exception' = e
                     /\ lost' = <<"wrong", op.name, op.t>>
                     /\ retry' = None
                     /\ UNCHANGED <<locals, result>>
Strayed(op, s) == Misdone(op, s, exception)

\* The handler sets the exception and returns 0: the same instruction is next,
\* on a stack from which its operands are gone if it had popped them.
Threw(op, popped) == /\ stack' = Pop(popped)
                     /\ exception' = TRUE
                     /\ retry' = op
                     /\ lost' = IF popped = 0 THEN <<>> ELSE <<"threw", op.name, op.t>>
                     /\ UNCHANGED <<locals, result>>

\* Reached through the wide prefix, whose handler passes wide on.
WideForm(op) == op.name \in {"wide_load", "wide_store", "wide_iinc"}

-----------------------------------------------------------------------------
(* Constants and local variables.                                          *)

Nop == \E op \in Named["nop"] : Fetch(op) /\ Ran(op, stack, locals, 1)

PushConstant == \E op \in Named["const"] \cup Named["bipush"] \cup Named["sipush"] :
    /\ Fetch(op)
    /\ CASE op.name = "const"  -> Ran(op, Push(stack, op.t), locals, 1)
         [] op.name = "bipush" -> Ran(op, Push(stack, "i"), locals, 2)
         [] op.name = "sipush" -> Ran(op, Push(stack, "i"), locals, 3)

\* A string is made anew each time and may not fit.
Ldc == \E op \in Named["ldc"] \cup Named["ldc_w"] \cup Named["ldc2_w"] :
    /\ Fetch(op)
    /\ \/ Ran(op, Push(stack, op.t), locals, IF op.name = "ldc" THEN 2 ELSE 3)
       \/ op.t = "a" /\ Threw(op, 0)

PushLocal(n, t) ==
    stack \o [k \in 1 .. Width(t) |-> [v |-> locals[n + k - 1], wide |-> t \in Wide]]

XLoad == \E op \in Named["load"] \cup Named["wide_load"] :
    /\ Fetch(op)
    /\ Ran(op, PushLocal(op.n, op.t), locals, IF WideForm(op) THEN 4 ELSE 2)

XLoadN == \E op \in Named["load_n"] : Fetch(op) /\ Ran(op, PushLocal(op.n, op.t), locals, 1)

\* writeLocal, or writeLocal2 for the two cells of a wide value; a write past
\* the last local variable falls on the types of the operands.
WriteLocal(n, wide) ==
    [m \in DOMAIN locals |-> IF m = n THEN (IF wide THEN Top(1).v ELSE Top(0).v)
                             ELSE IF m = n + 1 /\ wide THEN Top(0).v ELSE locals[m]]

StoreTop(op, wide, len) ==
    IF wide /\ Len(stack) < 2 THEN Strayed(op, stack)
    ELSE Ran(op, Pop(IF wide THEN 2 ELSE 1), WriteLocal(op.n, wide), len)

\* Mutant: the type is looked up below the value, as xstore_n does.
XStoreBelow == \E op \in Named["store"] \cup Named["wide_store"] : \E wide \in TellsWide(1) :
    Fetch(op) /\ StoreTop(op, wide, IF WideForm(op) THEN 4 ELSE 2)

XStore == \E op \in Named["store"] \cup Named["wide_store"] : \E wide \in TellsWide(0) :
    Fetch(op) /\ StoreTop(op, wide, IF WideForm(op) THEN 4 ELSE 2)

\* The type is looked up as many cells below the top as the index says.
XStoreN == \E op \in Named["store_n"] : \E wide \in TellsWide(op.n) :
    Fetch(op) /\ StoreTop(op, wide, 1)

Iinc == \E op \in Named["iinc"] \cup Named["wide_iinc"] :
    /\ Fetch(op)
    /\ Ran(op, stack, [locals EXCEPT ![op.n] = <<"i", 1>>],
           IF WideForm(op) THEN 6 ELSE 3)

-----------------------------------------------------------------------------
(* Arrays.  The handlers go by the name of the array's class.              *)

\* What newarray makes of the array types of the class file, which it takes
\* for its own type numbers, and what multianewarray puts inside its arrays.
ElementOf(t) ==
    CASE t = "c" -> {"J", "["}
      [] t = "f" -> {"F", "["}
      [] t = "d" -> {"D", "["}
      [] t \in {"b", "i", "l"} -> {"I", "["}
      [] t = "a" -> {"L", "["}

PushElement(s, t, e) ==
    LET two == e \in {"J", "D"}
        right == two <=> t \in Wide
    IN  s \o [k \in 1 .. (IF two THEN 2 ELSE 1) |->
                 [v |-> IF right THEN Value(OnStack(t))[k] ELSE Junk, wide |-> two]]

XALoad == \E op \in Named["xaload"] :
    /\ Fetch(op)
    /\ \/ Threw(op, 2)
       \/ \E e \in ElementOf(op.t) : Ran(op, PushElement(Pop(2), op.t, e), locals, 1)

XAStore == \E op \in Named["xastore"] : \E wide \in TellsWide(0) :
    /\ Fetch(op)
    /\ LET popped == IF wide THEN 4 ELSE 3
       IN  Threw(op, popped) \/ Ran(op, Pop(popped), locals, 1)

\* The class may not load, the array may not fit.
NewArray == \E op \in Named["newarray"] :
    /\ Fetch(op)
    /\ Threw(op, 0) \/ Threw(op, 1) \/ Ran(op, Push(Pop(1), "a"), locals, 2)

\* The index of the class is cut to eight bits.
ANewArray == \E op \in Named["anewarray"] :
    /\ Fetch(op)
    /\ \/ Threw(op, 0) \/ Threw(op, 1) \/ Ran(op, Push(Pop(1), "a"), locals, 3)
       \/ Strayed(op, Push(Pop(1), "a"))

MultiANewArray == \E op \in Named["multianewarray"] :
    Fetch(op) /\ (Threw(op, 0) \/ Ran(op, Push(Pop(2), "a"), locals, 4))

\* Nothing is returned after the length was pushed.
ArrayLength == \E op \in Named["arraylength"] :
    /\ Fetch(op)
    /\ \/ Threw(op, 1)
       \/ Ran(op, Push(Pop(1), "i"), locals, 1)
       \/ Strayed(op, Push(Pop(1), "i"))

-----------------------------------------------------------------------------
(* Moving operands.                                                        *)

\* Mutant: dup2_x2 pushes the top once more.
ShuffleOneMore == [dup_x1  |-> [m |-> 2, out |-> <<0, 1, 0>>],
                   dup_x2  |-> [m |-> 3, out |-> <<0, 2, 1, 0>>],
                   dup2_x1 |-> [m |-> 3, out |-> <<1, 0, 2, 1, 0>>],
                   dup2_x2 |-> [m |-> 4, out |-> <<1, 0, 3, 2, 1, 0, 0>>],
                   swap    |-> [m |-> 2, out |-> <<0, 1>>]]

\* What is pushed back after m cells were popped, by how deep each was.
Shuffle == [dup_x1  |-> [m |-> 2, out |-> <<0, 1, 0>>],
            dup_x2  |-> [m |-> 3, out |-> <<0, 2, 1, 0>>],
            dup2_x1 |-> [m |-> 3, out |-> <<1, 0, 2, 1, 0>>],
            dup2_x2 |-> [m |-> 4, out |-> <<1, 0, 3, 2, 1, 0>>],
            swap    |-> [m |-> 2, out |-> <<0, 1>>]]

Discard == \E op \in Named["pop"] \cup Named["pop2"] :
    Fetch(op) /\ Ran(op, Pop(IF op.name = "pop" THEN 1 ELSE 2), locals, 1)

Dup == \E op \in Named["dup"] : \E copy \in Peeked :
    Fetch(op) /\ Ran(op, Append(stack, copy), locals, 1)

Dup2 == \E op \in Named["dup2"] : \E next, copy \in Peeked :
    Fetch(op) /\ Ran(op, stack \o <<next, copy>>, locals, 1)

Reorder == \E name \in DOMAIN Shuffle : \E op \in Named[name] :
    /\ Fetch(op)
    /\ LET h == Shuffle[name]
       IN  Ran(op, Pop(h.m) \o [k \in DOMAIN h.out |-> Top(h.out[k])], locals, 1)

-----------------------------------------------------------------------------
(* Arithmetic, by what is popped and pushed; Values has the results.       *)

AddSubMul == \E name \in {"add", "sub", "mul"} : \E op \in Named[name] :
    Fetch(op) /\ Ran(op, Push(Pop(2 * Width(op.t)), op.t), locals, 1)

DivRem == \E name \in {"div", "rem"} : \E op \in Named[name] :
    /\ Fetch(op)
    /\ \/ Ran(op, Push(Pop(2 * Width(op.t)), op.t), locals, 1)
       \/ op.t \in {"i", "l"} /\ Threw(op, 2 * Width(op.t))

Negate == \E op \in Named["neg"] : Fetch(op) /\ Ran(op, Push(Pop(Width(op.t)), op.t), locals, 1)

Shift == \E name \in {"shl", "shr", "ushr"} : \E op \in Named[name] :
    Fetch(op) /\ Ran(op, Push(Pop(1 + Width(op.t)), op.t), locals, 1)

Bitwise == \E name \in {"and", "or", "xor"} : \E op \in Named[name] :
    Fetch(op) /\ Ran(op, Push(Pop(2 * Width(op.t)), op.t), locals, 1)

Compare == \E op \in Named["cmp"] :
    Fetch(op) /\ Ran(op, Push(Pop(2 * Width(op.t)), "i"), locals, 1)

\* The tags that follow the value: TYPE_INT beside a double after l2d.
Tagged(name) == IF name = "l2d" THEN "i" ELSE Conversions[name][2]

Convert == \E name \in DOMAIN Conversions : \E op \in Named[name] :
    /\ Fetch(op)
    /\ LET to == Conversions[name][2]
       IN  Ran(op, Pop(Width(Conversions[name][1])) \o
                   [k \in 1 .. Width(to) |-> [v |-> Value(to)[k], wide |-> Tagged(name) \in Wide]],
               locals, 1)

-----------------------------------------------------------------------------
(* Control.                                                                *)

\* A branch adds its offset to the pc, or falls through.
If == \E op \in Named["if"] : Fetch(op) /\ Ran(op, Pop(1), locals, 3)
IfNull == \E op \in Named["ifnull"] : Fetch(op) /\ Ran(op, Pop(1), locals, 3)
IfCmp == \E op \in Named["if_icmp"] \cup Named["if_acmp"] : Fetch(op) /\ Ran(op, Pop(2), locals, 3)
Goto == \E op \in Named["goto"] : Fetch(op) /\ Ran(op, stack, locals, 3)
GotoW == \E op \in Named["goto_w"] : Fetch(op) /\ Ran(op, stack, locals, 5)

\* The address pushed is that of the operand of the jsr.
Jsr == \E op \in Named["jsr"] \cup Named["jsr_w"] :
    Fetch(op) /\ Strayed(op, Append(stack, [v |-> Junk, wide |-> FALSE]))

\* tableswitch reads offsets one byte apart, lookupswitch may never find an
\* end: see Values.  Otherwise the pc is where it should be.
Switch == \E op \in Named["switch"] :
    Fetch(op) /\ (Ran(op, Pop(1), locals, 0) \/ Strayed(op, Pop(1)))

Return == /\ lost = <<>> /\ result = "running" /\ retry = None
          /\ result' = "returned"
          /\ UNCHANGED <<stack, locals, retry, exception, lost>>

-----------------------------------------------------------------------------
(* Fields, calls and objects.                                              *)

\* Of a cell that holds a boolean, byte, char or short only that many bytes
\* are written.
Field(t) == {Push(<<>>, OnStack(t))} \cup
            (IF t = OnStack(t) THEN {} ELSE {<<[v |-> Junk, wide |-> FALSE]>>})

\* The field, or the exception.  For a field of an object every interface is
\* searched before the super class, and raises the exception when it does not
\* have the field, wherever it is found then.
ResolveField(isStatic) ==
    {[found |-> FALSE, exception |-> TRUE], [found |-> TRUE, exception |-> exception]}
    \cup (IF isStatic THEN {} ELSE {[found |-> TRUE, exception |-> TRUE]})

GetStatic == \E op \in Named["getstatic"] : \E field \in ResolveField(TRUE) :
    /\ Fetch(op)
    /\ IF ~field.found THEN Threw(op, 0) ELSE \E value \in Field(op.t) : Ran(op, stack \o value, locals, 3)

PutStatic == \E op \in Named["putstatic"] : \E field \in ResolveField(TRUE) :
    /\ Fetch(op)
    /\ IF ~field.found THEN Threw(op, 0) ELSE Ran(op, Pop(Width(op.t)), locals, 3)

\* The offset is counted in headers of objects instead of bytes.
GetField == \E op \in Named["getfield"] : \E field \in ResolveField(FALSE) :
    /\ Fetch(op)
    /\ LET elsewhere == [k \in 1 .. Width(op.t) |-> [v |-> Junk, wide |-> op.t \in Wide]]
       IN  Threw(op, 1) \/ (field.found /\ Misdone(op, Pop(1) \o elsewhere, field.exception))

\* The objectref is popped first, which is the value.
PutField == \E op \in Named["putfield"] : \E field \in ResolveField(FALSE) :
    /\ Fetch(op)
    /\ Threw(op, 1) \/ (field.found /\ Misdone(op, Pop(1 + Width(op.t)), field.exception))

\* The object whose class is asked for the method is peeked from below the
\* operands, and the method found is not called.
InvokeVirtual == \E op \in Named["invokevirtual"] :
    Fetch(op) /\ \E e \in {exception, TRUE} : Misdone(op, stack, e)

\* Nothing is called.
Invoke == \E name \in {"invokespecial", "invokestatic", "invokeinterface"} :
    \E op \in Named[name] : Fetch(op) /\ Strayed(op, stack)

\* The index of the class is cut to eight bits.
New == \E op \in Named["new"] :
    /\ Fetch(op)
    /\ Threw(op, 0) \/ Ran(op, Push(stack, "a"), locals, 3) \/ Strayed(op, Push(stack, "a"))

AThrow == \E op \in Named["athrow"] : Fetch(op) /\ Threw(op, 1)

Unimplemented == \E name \in {"checkcast", "instanceof", "invokedynamic"} :
    \E op \in Named[name] : Fetch(op) /\ Threw(op, 0)

MonitorEnter == \E op \in Named["monitorenter"] :
    Fetch(op) /\ (Threw(op, 1) \/ Ran(op, Pop(1), locals, 1))

MonitorExit == \E op \in Named["monitorexit"] :
    Fetch(op) /\ (Threw(op, 1) \/ Ran(op, Pop(1), locals, 1))

-----------------------------------------------------------------------------
Next == \/ Nop \/ PushConstant \/ Ldc \/ XLoad \/ XLoadN \/ XStore \/ XStoreN \/ Iinc
        \/ XALoad \/ XAStore \/ NewArray \/ ANewArray \/ MultiANewArray \/ ArrayLength
        \/ Discard \/ Dup \/ Dup2 \/ Reorder
        \/ AddSubMul \/ DivRem \/ Negate \/ Shift \/ Bitwise \/ Compare \/ Convert
        \/ If \/ IfNull \/ IfCmp \/ Goto \/ GotoW \/ Jsr \/ Switch \/ Return
        \/ GetStatic \/ PutStatic \/ GetField \/ PutField \/ InvokeVirtual \/ Invoke
        \/ New \/ AThrow \/ Unimplemented \/ MonitorEnter \/ MonitorExit

Spec == Init /\ [][Next]_vars /\ WF_vars(Next)

-----------------------------------------------------------------------------
Cells == {Junk, NoCell} \cup UNION {{<<t, 1>>, <<t, 2>>} : t \in Types}

\* The state of a frame: what the operand stack (never deeper than two cells
\* past the bound, or six), the local variables and run() hold.
TypeOK == /\ stack \in Seq([v : Cells, wide : BOOLEAN]) /\ Len(stack) <= 2 + (IF Room > 4 THEN Room ELSE 4)
          /\ locals \in [0 .. NumLocals - 1 -> Cells]
          /\ retry \in Instrs \cup {None}
          /\ exception \in BOOLEAN
          /\ result \in {"running", "returned", "failed"}
          /\ \/ lost = <<>>
             \/ lost \in {"wrong", "threw"} \X (DOMAIN Named) \X (ElementTypes \cup {"none", "()V", "(I)I"})

(***************************************************************************)
(* The instructions that do not always do what the instruction set says:   *)
(* those whose handler is wrong or unfinished, and those that throw after  *)
(* they popped their operands, and are then executed again without them.   *)
(***************************************************************************)
Wrong(names, types) == {<<"wrong", name, t>> : name \in names, t \in types}
Thrown(names, types) == {<<"threw", name, t>> : name \in names, t \in types}
KnownToFail ==
    Wrong({"dup", "dup2", "l2d", "jsr", "jsr_w", "switch", "arraylength", "new", "anewarray"},
          {"none"})
    \cup Wrong({"invokevirtual", "invokespecial", "invokestatic", "invokeinterface"},
               {"()V", "(I)I"})
    \cup Wrong({"store_n"}, LocalTypes) \cup Wrong({"xaload"}, {"c", "l", "d"})
    \cup Wrong({"getstatic"}, {"b"}) \cup Wrong({"getfield", "putfield"}, FieldTypes)
    \cup Thrown({"xaload", "xastore", "getfield", "putfield"}, ElementTypes)
    \cup Thrown({"div", "rem"}, {"i", "l"})
    \cup Thrown({"newarray", "anewarray", "arraylength", "athrow", "monitorenter", "monitorexit"},
                {"none"})

TS == INSTANCE TypedStack
        WITH cells <- Contents(stack), wrong <- lost, Excluded <- KnownToFail

(***************************************************************************)
(* Whatever verified code runs, and whatever is thrown and tried again on  *)
(* the way, every instruction that is not known to fail takes its operands *)
(* and leaves its results as the instruction set says, so that what runs   *)
(* next finds the values and, in the tags, the widths it expects.          *)
(***************************************************************************)
InstructionSet == TS!Spec
=============================================================================
