---------------------------- MODULE Instructions ----------------------------
(***************************************************************************)
(* The instructions by what their mnemonics promise: the values taken off  *)
(* the operand stack and put on it, each by its type, the local variable   *)
(* used and the length of the instruction.  Types are the letters of the   *)
(* mnemonics (i, l, f, d, a) and r for a return address; the value of a    *)
(* long or a double fills two cells of the stack.                          *)
(***************************************************************************)
EXTENDS Integers, Sequences

CONSTANTS NumLocals,    \* max_locals of the method
          LocalTypes    \* the types of the local variables it uses

Narrow == {"i", "f", "a"}
Wide == {"l", "d"}
Types == Narrow \cup Wide

ASSUME LocalsAssumption == NumLocals \in Nat /\ LocalTypes \subseteq Types

Numeric == {"i", "l", "f", "d"}
\* The small types are ints on the stack; b stands for z and s as well, and
\* in fields for c.
ElementTypes == Types \cup {"b", "c"}
FieldTypes == Types \cup {"b"}

Width(t) == IF t \in Wide THEN 2 ELSE 1
OnStack(t) == IF t \in {"b", "c"} THEN "i" ELSE t

\* The cells one value fills, and those of several values, bottom first.
Value(t) == IF t \in Wide THEN <<<<t, 1>>, <<t, 2>>>> ELSE <<<<t, 1>>>>
Values(t, u) == Value(t) \o Value(u)

\* The values taken (in) and left (out), as the cells they fill.
Op(name, t, in, out, len) ==
    [name |-> name, t |-> t, n |-> 0, in |-> in, out |-> out, len |-> len]
At(op, n) == [op EXCEPT !.n = n]

Constant ==
       {Op("const", t, <<>>, Value(t), 1) : t \in Types}
  \cup {Op("nop", "none", <<>>, <<>>, 1), Op("bipush", "none", <<>>, Value("i"), 2),
        Op("sipush", "none", <<>>, Value("i"), 3)}
  \cup {Op("ldc", t, <<>>, Value(t), 2) : t \in Narrow}
  \cup {Op("ldc_w", t, <<>>, Value(t), 3) : t \in Narrow}
  \cup {Op("ldc2_w", t, <<>>, Value(t), 3) : t \in Wide}

\* Both forms of a local variable: the index in the operand (also after the
\* wide prefix) or in the opcode.
LocalOps ==
    {At(op, n) : n \in 0 .. NumLocals - 1, op \in
           (UNION {{Op("load", t, <<>>, Value(t), 2), Op("load_n", t, <<>>, Value(t), 1),
                    Op("wide_load", t, <<>>, Value(t), 4),
                    Op("store", t, Value(t), <<>>, 2), Op("store_n", t, Value(t), <<>>, 1),
                    Op("wide_store", t, Value(t), <<>>, 4)} : t \in LocalTypes})
      \cup {Op("iinc", "i", <<>>, <<>>, 3), Op("wide_iinc", "i", <<>>, <<>>, 6)}}

ArrayOps ==
       {Op("xaload", t, Values("a", "i"), Value(OnStack(t)), 1) : t \in ElementTypes}
  \cup {Op("xastore", t, Values("a", "i") \o Value(OnStack(t)), <<>>, 1) : t \in ElementTypes}
  \cup {Op("newarray", "none", Value("i"), Value("a"), 2), Op("anewarray", "none", Value("i"), Value("a"), 3),
        Op("arraylength", "none", Value("a"), Value("i"), 1),
        Op("multianewarray", "none", Values("i", "i"), Value("a"), 4)}

Conversions ==
    [i2l |-> <<"i", "l">>, i2f |-> <<"i", "f">>, i2d |-> <<"i", "d">>, l2i |-> <<"l", "i">>,
     l2f |-> <<"l", "f">>, l2d |-> <<"l", "d">>, f2i |-> <<"f", "i">>, f2l |-> <<"f", "l">>,
     f2d |-> <<"f", "d">>, d2i |-> <<"d", "i">>, d2l |-> <<"d", "l">>, d2f |-> <<"d", "f">>,
     i2b |-> <<"i", "i">>, i2c |-> <<"i", "i">>, i2s |-> <<"i", "i">>]

Arithmetic ==
       {Op(o, t, Values(t, t), Value(t), 1) : o \in {"add", "sub", "mul", "div", "rem"}, t \in Numeric}
  \cup {Op("neg", t, Value(t), Value(t), 1) : t \in Numeric}
  \cup {Op(o, t, Values(t, "i"), Value(t), 1) : o \in {"shl", "shr", "ushr"}, t \in {"i", "l"}}
  \cup {Op(o, t, Values(t, t), Value(t), 1) : o \in {"and", "or", "xor"}, t \in {"i", "l"}}
  \cup {Op("cmp", t, Values(t, t), Value("i"), 1) : t \in {"l", "f", "d"}}
  \cup {Op(o, "none", Value(Conversions[o][1]), Value(Conversions[o][2]), 1) : o \in DOMAIN Conversions}

Control ==
       {Op("if", "none", Value("i"), <<>>, 3), Op("if_icmp", "none", Values("i", "i"), <<>>, 3),
        Op("if_acmp", "none", Values("a", "a"), <<>>, 3), Op("ifnull", "none", Value("a"), <<>>, 3),
        Op("goto", "none", <<>>, <<>>, 3), Op("goto_w", "none", <<>>, <<>>, 5),
        Op("jsr", "none", <<>>, Value("r"), 3), Op("jsr_w", "none", <<>>, Value("r"), 5),
        Op("switch", "none", Value("i"), <<>>, 0)}

Objects ==
       {Op("getstatic", t, <<>>, Value(OnStack(t)), 3) : t \in FieldTypes}
  \cup {Op("putstatic", t, Value(OnStack(t)), <<>>, 3) : t \in FieldTypes}
  \cup {Op("getfield", t, Value("a"), Value(OnStack(t)), 3) : t \in FieldTypes}
  \cup {Op("putfield", t, Values("a", OnStack(t)), <<>>, 3) : t \in FieldTypes}
  \cup {Op("new", "none", <<>>, Value("a"), 3), Op("athrow", "none", Value("a"), <<>>, 1),
        Op("checkcast", "none", Value("a"), Value("a"), 3), Op("instanceof", "none", Value("a"), Value("i"), 3),
        Op("monitorenter", "none", Value("a"), <<>>, 1), Op("monitorexit", "none", Value("a"), <<>>, 1)}

\* A call of a method without parameters or result, and of one with both.
Calls ==
       {Op("invokestatic", "()V", <<>>, <<>>, 3), Op("invokestatic", "(I)I", Value("i"), Value("i"), 3),
        Op("invokespecial", "()V", Value("a"), <<>>, 3), Op("invokevirtual", "()V", Value("a"), <<>>, 3),
        Op("invokeinterface", "()V", Value("a"), <<>>, 5),
        Op("invokedynamic", "()V", <<>>, <<>>, 5)}

\* Instructions that move cells whatever is in them: the groups of cells they
\* take, bottom first, none of which may hold half a value, and what they
\* leave, as positions in what they took.
Moves ==
    [pop     |-> [groups |-> <<1>>,    out |-> <<>>],
     pop2    |-> [groups |-> <<2>>,    out |-> <<>>],
     dup     |-> [groups |-> <<1>>,    out |-> <<1, 1>>],
     dup_x1  |-> [groups |-> <<1, 1>>, out |-> <<2, 1, 2>>],
     dup_x2  |-> [groups |-> <<2, 1>>, out |-> <<3, 1, 2, 3>>],
     dup2    |-> [groups |-> <<2>>,    out |-> <<1, 2, 1, 2>>],
     dup2_x1 |-> [groups |-> <<1, 2>>, out |-> <<2, 3, 1, 2, 3>>],
     dup2_x2 |-> [groups |-> <<2, 2>>, out |-> <<3, 4, 1, 2, 3, 4>>],
     swap    |-> [groups |-> <<1, 1>>, out |-> <<2, 1>>]]
Taken(m) == IF Len(m.groups) = 1 THEN m.groups[1] ELSE m.groups[1] + m.groups[2]

Typed == Constant \cup LocalOps \cup ArrayOps \cup Arithmetic \cup Control \cup Objects \cup Calls
Moving == {Op(o, "none", <<>>, <<>>, 1) : o \in DOMAIN Moves}
Instrs == Typed \cup Moving

LocalHolds(l, n, t) == /\ n + Width(t) <= NumLocals
                       /\ \A k \in 1 .. Width(t) : l[n + k - 1] = Value(t)[k]

Reads == {"load", "load_n", "wide_load", "iinc", "wide_iinc"}
Writes == {"store", "store_n", "wide_store"}

\* By name; of Reads and Writes there are none in a method without variables.
Named == [name \in {op.name : op \in Instrs} \cup Reads \cup Writes |->
             {op \in Instrs : op.name = name}]

\* What of an instruction CanRun, CellsAfter and LocalsAfter depend on.
Shape(op) ==
    LET kind == CASE op.name \in Reads -> "load" [] op.name \in Writes -> "store"
                  [] op.name \in DOMAIN Moves -> op.name [] OTHER -> "nop"
    IN  [op EXCEPT !.name = kind, !.len = 0, !.t = IF kind \in {"load", "store"} THEN @ ELSE "none"]
Shapes == {Shape(op) : op \in Instrs}

\* Verified code contains instruction op at a point where the stack is c and
\* the local variables are l.
CanRun(op, c, l) ==
    IF op.name \in DOMAIN Moves
    THEN LET m == Moves[op.name]
             base == Len(c) - Taken(m)
         IN  /\ base >= 0
             /\ \A k \in {1, m.groups[1] + 1} : base + k <= Len(c) => c[base + k][2] = 1
    ELSE /\ Len(op.in) <= Len(c)
         /\ SubSeq(c, Len(c) - Len(op.in) + 1, Len(c)) = op.in
         /\ op.name \in Reads => LocalHolds(l, op.n, op.t)
         /\ op.name \in Writes => op.n + Width(op.t) <= NumLocals

\* What it leaves there.
CellsAfter(op, c) ==
    IF op.name \in DOMAIN Moves
    THEN LET m == Moves[op.name]
             base == Len(c) - Taken(m)
         IN  SubSeq(c, 1, base) \o [k \in DOMAIN m.out |-> c[base + m.out[k]]]
    ELSE SubSeq(c, 1, Len(c) - Len(op.in)) \o op.out

LocalsAfter(op, l) ==
    IF op.name \in Writes
    THEN [n \in DOMAIN l |-> IF n - op.n \in 0 .. Width(op.t) - 1
                             THEN Value(op.t)[n - op.n + 1] ELSE l[n]]
    ELSE l
=============================================================================
