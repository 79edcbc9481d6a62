--------------------------- MODULE InterpreterProofs ---------------------------
(***************************************************************************)
(* The handlers of Interpreter do what the instruction set says, in every  *)
(* frame verified code can build: however many local variables there are,  *)
(* and however deep the stack is.                                          *)
(***************************************************************************)
EXTENDS Interpreter, TLAPS

-----------------------------------------------------------------------------
(* The instructions by name.                                               *)

ConstantNames == {"const", "nop", "bipush", "sipush", "ldc", "ldc_w", "ldc2_w"}
LocalNames == Reads \cup Writes
ArrayNames == {"xaload", "xastore", "newarray", "anewarray", "arraylength", "multianewarray"}
ConversionNames == {"i2l", "i2f", "i2d", "l2i", "l2f", "l2d", "f2i", "f2l", "f2d",
                    "d2i", "d2l", "d2f", "i2b", "i2c", "i2s"}
ArithmeticNames == {"add", "sub", "mul", "div", "rem", "neg", "shl", "shr", "ushr",
                    "and", "or", "xor", "cmp"} \cup ConversionNames
ControlNames == {"if", "if_icmp", "if_acmp", "ifnull", "goto", "goto_w", "jsr", "jsr_w", "switch"}
ObjectNames == {"getstatic", "putstatic", "getfield", "putfield", "new", "athrow",
                "checkcast", "instanceof", "monitorenter", "monitorexit"}
CallNames == {"invokestatic", "invokespecial", "invokevirtual", "invokeinterface", "invokedynamic"}
MoveNames == {"pop", "pop2", "dup", "dup_x1", "dup_x2", "dup2", "dup2_x1", "dup2_x2", "swap"}

LEMMA OpFields ==
    \A name, t, in, out, len :
        /\ Op(name, t, in, out, len).name = name /\ Op(name, t, in, out, len).t = t
        /\ Op(name, t, in, out, len).in = in /\ Op(name, t, in, out, len).out = out
        /\ Op(name, t, in, out, len).len = len /\ Op(name, t, in, out, len).n = 0
BY DEF Op

LEMMA MovesByName == DOMAIN Moves = MoveNames
BY DEF Moves, MoveNames

LEMMA ConversionsByName == DOMAIN Conversions = ConversionNames
BY DEF Conversions, ConversionNames

LEMMA ConstantsNamed == \A op \in Constant : op.name \in ConstantNames
BY OpFields DEF Constant, ConstantNames

\* The instructions of a local variable, one by one.
LocalOp(op, n) ==
    \/ \E t \in LocalTypes :
           op \in {At(Op("load", t, <<>>, Value(t), 2), n), At(Op("load_n", t, <<>>, Value(t), 1), n),
                  At(Op("wide_load", t, <<>>, Value(t), 4), n),
                  At(Op("store", t, Value(t), <<>>, 2), n), At(Op("store_n", t, Value(t), <<>>, 1), n),
                  At(Op("wide_store", t, Value(t), <<>>, 4), n)}
    \/ op \in {At(Op("iinc", "i", <<>>, <<>>, 3), n), At(Op("wide_iinc", "i", <<>>, <<>>, 6), n)}

LEMMA LocalShapes == ASSUME NEW op \in LocalOps PROVE \E n \in 0 .. NumLocals - 1 : LocalOp(op, n)
<1> DEFINE Plain ==
           (UNION {{Op("load", t, <<>>, Value(t), 2), Op("load_n", t, <<>>, Value(t), 1),
                   Op("wide_load", t, <<>>, Value(t), 4),
                   Op("store", t, Value(t), <<>>, 2), Op("store_n", t, Value(t), <<>>, 1),
                   Op("wide_store", t, Value(t), <<>>, 4)} : t \in LocalTypes})
      \cup {Op("iinc", "i", <<>>, <<>>, 3), Op("wide_iinc", "i", <<>>, <<>>, 6)}
<1>1. PICK n \in 0 .. NumLocals - 1, p \in Plain : op = At(p, n)
  BY DEF LocalOps
<1>2. \/ \E t \in LocalTypes :
           p \in {Op("load", t, <<>>, Value(t), 2), Op("load_n", t, <<>>, Value(t), 1),
                  Op("wide_load", t, <<>>, Value(t), 4),
                  Op("store", t, Value(t), <<>>, 2), Op("store_n", t, Value(t), <<>>, 1),
                  Op("wide_store", t, Value(t), <<>>, 4)}
      \/ p \in {Op("iinc", "i", <<>>, <<>>, 3), Op("wide_iinc", "i", <<>>, <<>>, 6)}
  <2> DEFINE Forms(t) == {Op("load", t, <<>>, Value(t), 2), Op("load_n", t, <<>>, Value(t), 1),
                          Op("wide_load", t, <<>>, Value(t), 4),
                          Op("store", t, Value(t), <<>>, 2), Op("store_n", t, Value(t), <<>>, 1),
                          Op("wide_store", t, Value(t), <<>>, 4)}
  <2>1. Plain = (UNION {Forms(t) : t \in LocalTypes})
                  \cup {Op("iinc", "i", <<>>, <<>>, 3), Op("wide_iinc", "i", <<>>, <<>>, 6)}
    OBVIOUS
  <2> HIDE DEF Plain, Forms
  <2>2. \/ \E t \in LocalTypes : p \in Forms(t)
        \/ p \in {Op("iinc", "i", <<>>, <<>>, 3), Op("wide_iinc", "i", <<>>, <<>>, 6)}
    BY <1>1, <2>1
  <2> QED
    BY <2>2 DEF Forms
<1> QED
  BY <1>1, <1>2 DEF LocalOp

LEMMA AtFields ==
    ASSUME NEW name, NEW t, NEW in, NEW out, NEW len, NEW n
    PROVE  LET op == At(Op(name, t, in, out, len), n)
           IN  /\ op.name = name /\ op.t = t /\ op.n = n /\ op.in = in /\ op.out = out /\ op.len = len
               /\ DOMAIN op = {"name", "t", "n", "in", "out", "len"}
BY DEF At, Op

LEMMA LocalsNamed == \A op \in LocalOps : op.name \in LocalNames
<1> TAKE op \in LocalOps
<1>1. PICK n \in 0 .. NumLocals - 1 : LocalOp(op, n)
  BY LocalShapes
<1> QED
  BY <1>1, AtFields DEF LocalOp, LocalNames, Reads, Writes

LEMMA ArraysNamed == \A op \in ArrayOps : op.name \in ArrayNames
BY OpFields DEF ArrayOps, ArrayNames

LEMMA ArithmeticNamed == \A op \in Arithmetic : op.name \in ArithmeticNames
BY OpFields, ConversionsByName DEF Arithmetic, ArithmeticNames

LEMMA ControlNamed == \A op \in Control : op.name \in ControlNames
BY OpFields DEF Control, ControlNames

LEMMA ObjectsNamed == \A op \in Objects : op.name \in ObjectNames
BY OpFields DEF Objects, ObjectNames

LEMMA CallsNamed == \A op \in Calls : op.name \in CallNames
BY OpFields DEF Calls, CallNames

LEMMA MovingNamed == \A op \in Moving : op.name \in MoveNames
BY OpFields, MovesByName DEF Moving

LEMMA Categories ==
    ASSUME NEW op \in Instrs
    PROVE  \/ op \in Constant /\ op.name \in ConstantNames
           \/ op \in LocalOps /\ op.name \in LocalNames
           \/ op \in ArrayOps /\ op.name \in ArrayNames
           \/ op \in Arithmetic /\ op.name \in ArithmeticNames
           \/ op \in Control /\ op.name \in ControlNames
           \/ op \in Objects /\ op.name \in ObjectNames
           \/ op \in Calls /\ op.name \in CallNames
           \/ op \in Moving /\ op.name \in MoveNames
BY ConstantsNamed, LocalsNamed, ArraysNamed, ArithmeticNamed, ControlNamed, ObjectsNamed,
   CallsNamed, MovingNamed
   DEF Instrs, Typed

LEMMA ByName ==
    ASSUME NEW op \in Instrs
    PROVE  /\ op.name \in ConstantNames => op \in Constant
           /\ op.name \in LocalNames => op \in LocalOps
           /\ op.name \in ArrayNames => op \in ArrayOps
           /\ op.name \in ArithmeticNames => op \in Arithmetic
           /\ op.name \in ControlNames => op \in Control
           /\ op.name \in ObjectNames => op \in Objects
           /\ op.name \in CallNames => op \in Calls
           /\ op.name \in MoveNames => op \in Moving
BY Categories
   DEF ConstantNames, LocalNames, ArrayNames, ArithmeticNames, ControlNames, ObjectNames,
       CallNames, MoveNames, ConversionNames, Reads, Writes

AllNames == ConstantNames \cup LocalNames \cup ArrayNames \cup ArithmeticNames \cup ControlNames
            \cup ObjectNames \cup CallNames \cup MoveNames

LEMMA Witnesses ==
    /\ \A n \in ConstantNames : \E op \in Constant : op.name = n
    /\ \A n \in ArrayNames : \E op \in ArrayOps : op.name = n
    /\ \A n \in ArithmeticNames : \E op \in Arithmetic : op.name = n
    /\ \A n \in ControlNames : \E op \in Control : op.name = n
    /\ \A n \in ObjectNames : \E op \in Objects : op.name = n
    /\ \A n \in CallNames : \E op \in Calls : op.name = n
    /\ \A n \in MoveNames : \E op \in Moving : op.name = n
<1>1. "i" \in Narrow /\ "i" \in Types /\ "l" \in Wide /\ "i" \in ElementTypes /\ "i" \in FieldTypes /\ "i" \in Numeric
  BY DEF Narrow, Types, Wide, ElementTypes, FieldTypes, Numeric
<1>2. \A n \in ConstantNames : \E op \in Constant : op.name = n
  BY <1>1, OpFields DEF Constant, ConstantNames
<1>3. \A n \in ArrayNames : \E op \in ArrayOps : op.name = n
  BY <1>1, OpFields DEF ArrayOps, ArrayNames
<1>4. \A n \in ArithmeticNames : \E op \in Arithmetic : op.name = n
  <2> TAKE n \in ArithmeticNames
  <2>1. CASE n \in {"add", "sub", "mul", "div", "rem"}
    <3>1. Op(n, "i", Values("i", "i"), Value("i"), 1) \in Arithmetic
      BY <1>1, <2>1 DEF Arithmetic
    <3> QED
      BY <3>1, OpFields
  <2>2. CASE n = "neg"
    <3>1. Op(n, "i", Value("i"), Value("i"), 1) \in Arithmetic
      BY <1>1, <2>2 DEF Arithmetic
    <3> QED
      BY <3>1, OpFields
  <2>3. CASE n \in {"shl", "shr", "ushr"}
    <3>1. Op(n, "i", Values("i", "i"), Value("i"), 1) \in Arithmetic
      BY <2>3 DEF Arithmetic
    <3> QED
      BY <3>1, OpFields
  <2>4. CASE n \in {"and", "or", "xor"}
    <3>1. Op(n, "i", Values("i", "i"), Value("i"), 1) \in Arithmetic
      BY <2>4 DEF Arithmetic
    <3> QED
      BY <3>1, OpFields
  <2>5. CASE n = "cmp"
    <3>1. Op(n, "l", Values("l", "l"), Value("i"), 1) \in Arithmetic
      BY <2>5 DEF Arithmetic
    <3> QED
      BY <3>1, OpFields
  <2>6. CASE n \in ConversionNames
    <3>1. Op(n, "none", Value(Conversions[n][1]), Value(Conversions[n][2]), 1) \in Arithmetic
      BY <2>6, ConversionsByName DEF Arithmetic
    <3> QED
      BY <3>1, OpFields
  <2> QED
    BY <2>1, <2>2, <2>3, <2>4, <2>5, <2>6 DEF ArithmeticNames
<1>5. \A n \in ControlNames : \E op \in Control : op.name = n
  BY <1>1, OpFields DEF Control, ControlNames
<1>6. \A n \in ObjectNames : \E op \in Objects : op.name = n
  <2> TAKE n \in ObjectNames
  <2>1. /\ Op("getstatic", "i", <<>>, Value(OnStack("i")), 3) \in Objects
        /\ Op("putstatic", "i", Value(OnStack("i")), <<>>, 3) \in Objects
        /\ Op("getfield", "i", Value("a"), Value(OnStack("i")), 3) \in Objects
        /\ Op("putfield", "i", Values("a", OnStack("i")), <<>>, 3) \in Objects
    BY <1>1 DEF Objects
  <2>2. CASE n \in {"getstatic", "putstatic", "getfield", "putfield"}
    BY <2>1, <2>2, OpFields
  <2>3. CASE n \in {"new", "athrow", "checkcast", "instanceof", "monitorenter", "monitorexit"}
    BY <2>3, OpFields DEF Objects
  <2> QED
    BY <2>2, <2>3 DEF ObjectNames
<1>7. \A n \in CallNames : \E op \in Calls : op.name = n
  BY <1>1, OpFields DEF Calls, CallNames
<1>8. \A n \in MoveNames : \E op \in Moving : op.name = n
  <2> TAKE n \in MoveNames
  <2>1. Op(n, "none", <<>>, <<>>, 1) \in Moving
    BY MovesByName DEF Moving
  <2> QED
    BY <2>1, OpFields
<1> QED
  BY <1>2, <1>3, <1>4, <1>5, <1>6, <1>7, <1>8

LEMMA FromNamed ==
    ASSUME NEW name \in AllNames
    PROVE  /\ name \in DOMAIN Named
           /\ \A op \in Named[name] : op \in Instrs /\ op.name = name
<1>1. name \in {op.name : op \in Instrs} \cup Reads \cup Writes
  <2>1. CASE name \in LocalNames
    BY <2>1 DEF LocalNames
  <2>2. CASE name \notin LocalNames
    <3>1. \E op \in Typed \cup Moving : op.name = name
      BY <2>2, Witnesses DEF AllNames, Typed
    <3> QED
      BY <3>1 DEF Instrs
  <2> QED
    BY <2>1, <2>2
<1> QED
  BY <1>1 DEF Named

-----------------------------------------------------------------------------
(* Values and the cells they fill.                                         *)

Pairs(t) == {<<t, 1>>, <<t, 2>>}

LEMMA OneValue ==
    ASSUME NEW t
    PROVE  /\ Width(t) \in 1 .. 2
           /\ Value(t) \in Seq(Pairs(t)) /\ Len(Value(t)) = Width(t)
           /\ \A k \in 1 .. Width(t) : Value(t)[k] = <<t, k>>
<1>1. CASE t \in Wide
  <2>1. Value(t) = <<<<t, 1>>, <<t, 2>>>> /\ Width(t) = 2
    BY <1>1 DEF Value, Width
  <2>2. <<t, 1>> \in Pairs(t) /\ <<t, 2>> \in Pairs(t)
    BY DEF Pairs
  <2> QED
    BY <2>1, <2>2
<1>2. CASE t \notin Wide
  <2>1. Value(t) = <<<<t, 1>>>> /\ Width(t) = 1
    BY <1>2 DEF Value, Width
  <2>2. <<t, 1>> \in Pairs(t)
    BY DEF Pairs
  <2> QED
    BY <2>1, <2>2
<1> QED
  BY <1>1, <1>2

LEMMA TwoValues ==
    ASSUME NEW t, NEW u
    PROVE  /\ Values(t, u) \in Seq(Pairs(t) \cup Pairs(u)) /\ Len(Values(t, u)) = Width(t) + Width(u)
           /\ Width(u) = 1 => Values(t, u)[Len(Values(t, u))] = <<u, 1>>
<1>1. /\ Value(t) \in Seq(Pairs(t) \cup Pairs(u)) /\ Value(u) \in Seq(Pairs(t) \cup Pairs(u))
      /\ Len(Value(t)) = Width(t) /\ Len(Value(u)) = Width(u)
      /\ Width(t) \in 1 .. 2 /\ Width(u) \in 1 .. 2
      /\ Width(u) = 1 => Value(u)[1] = <<u, 1>>
  BY OneValue
<1> QED
  BY <1>1 DEF Values
-----------------------------------------------------------------------------
(* What the instructions of each name take, leave and are long.            *)

Is(op, in, out, len) == op.in = in /\ op.out = out /\ op.len = len
Fields == {"name", "t", "n", "in", "out", "len"}
Tags == ElementTypes \cup {"none", "()V", "(I)I"}

LEMMA ConstantForms ==
    ASSUME NEW op \in Constant
    PROVE  /\ op.name = "const" => op.t \in Types /\ Is(op, <<>>, Value(op.t), 1)
           /\ op.name = "nop" => Is(op, <<>>, <<>>, 1)
           /\ op.name = "bipush" => Is(op, <<>>, Value("i"), 2)
           /\ op.name = "sipush" => Is(op, <<>>, Value("i"), 3)
           /\ op.name = "ldc" => op.t \in Types /\ Is(op, <<>>, Value(op.t), 2)
           /\ op.name \in {"ldc_w", "ldc2_w"} => op.t \in Types /\ Is(op, <<>>, Value(op.t), 3)
           /\ op.t \in Types \cup {"none"} /\ DOMAIN op = Fields
BY DEF Constant, Is, Fields, Op, Types

LEMMA LocalForms ==
    ASSUME NEW op \in LocalOps
    PROVE  /\ op.n \in 0 .. NumLocals - 1 /\ op.t \in Types /\ DOMAIN op = Fields
           /\ op.name \in Writes => op.t \in LocalTypes
           /\ op.name \in {"iinc", "wide_iinc"} => op.t = "i"
           /\ op.name = "load" => Is(op, <<>>, Value(op.t), 2)
           /\ op.name = "load_n" => Is(op, <<>>, Value(op.t), 1)
           /\ op.name = "wide_load" => Is(op, <<>>, Value(op.t), 4)
           /\ op.name = "store" => Is(op, Value(op.t), <<>>, 2)
           /\ op.name = "store_n" => Is(op, Value(op.t), <<>>, 1)
           /\ op.name = "wide_store" => Is(op, Value(op.t), <<>>, 4)
           /\ op.name = "iinc" => Is(op, <<>>, <<>>, 3)
           /\ op.name = "wide_iinc" => Is(op, <<>>, <<>>, 6)
<1>1. PICK n \in 0 .. NumLocals - 1 : LocalOp(op, n)
  BY LocalShapes
<1>2. LocalTypes \subseteq Types /\ "i" \in Types
  BY LocalsAssumption DEF Types, Narrow
<1>3. ASSUME NEW t \in LocalTypes,
             op \in {At(Op("load", t, <<>>, Value(t), 2), n), At(Op("load_n", t, <<>>, Value(t), 1), n),
                    At(Op("wide_load", t, <<>>, Value(t), 4), n),
                    At(Op("store", t, Value(t), <<>>, 2), n), At(Op("store_n", t, Value(t), <<>>, 1), n),
                    At(Op("wide_store", t, Value(t), <<>>, 4), n)}
      PROVE  /\ op.n \in 0 .. NumLocals - 1 /\ op.t \in LocalTypes /\ op.t \in Types /\ DOMAIN op = Fields
             /\ op.name = "load" => Is(op, <<>>, Value(op.t), 2)
             /\ op.name = "load_n" => Is(op, <<>>, Value(op.t), 1)
             /\ op.name = "wide_load" => Is(op, <<>>, Value(op.t), 4)
             /\ op.name = "store" => Is(op, Value(op.t), <<>>, 2)
             /\ op.name = "store_n" => Is(op, Value(op.t), <<>>, 1)
             /\ op.name = "wide_store" => Is(op, Value(op.t), <<>>, 4)
             /\ op.name \notin {"iinc", "wide_iinc"}
  BY <1>1, <1>2, <1>3, AtFields DEF Is, Fields
<1>4. ASSUME op \in {At(Op("iinc", "i", <<>>, <<>>, 3), n), At(Op("wide_iinc", "i", <<>>, <<>>, 6), n)}
      PROVE  /\ op.n \in 0 .. NumLocals - 1 /\ op.t = "i" /\ DOMAIN op = Fields
             /\ op.name \in {"iinc", "wide_iinc"}
             /\ op.name = "iinc" => Is(op, <<>>, <<>>, 3)
             /\ op.name = "wide_iinc" => Is(op, <<>>, <<>>, 6)
  BY <1>1, <1>4, AtFields DEF Is, Fields
<1> QED
  BY <1>1, <1>2, <1>3, <1>4 DEF LocalOp, Writes

LEMMA ArrayForms ==
    ASSUME NEW op \in ArrayOps
    PROVE  /\ op.name = "xaload" => op.t \in ElementTypes /\ Is(op, Values("a", "i"), Value(OnStack(op.t)), 1)
           /\ op.name = "xastore" => op.t \in ElementTypes /\ Is(op, Values("a", "i") \o Value(OnStack(op.t)), <<>>, 1)
           /\ op.name \notin {"xaload", "xastore"} => op.t = "none"
           /\ op.name = "newarray" => Is(op, Value("i"), Value("a"), 2)
           /\ op.name = "anewarray" => Is(op, Value("i"), Value("a"), 3)
           /\ op.name = "arraylength" => Is(op, Value("a"), Value("i"), 1)
           /\ op.name = "multianewarray" => Is(op, Values("i", "i"), Value("a"), 4)
           /\ op.t \in Tags /\ DOMAIN op = Fields
BY DEF ArrayOps, Is, Fields, Op, Tags

LEMMA ArithmeticForms ==
    ASSUME NEW op \in Arithmetic
    PROVE  /\ op.name \in {"add", "sub", "mul", "div", "rem"} =>
                  op.t \in Numeric /\ Is(op, Values(op.t, op.t), Value(op.t), 1)
           /\ op.name = "neg" => op.t \in Numeric /\ Is(op, Value(op.t), Value(op.t), 1)
           /\ op.name \in {"shl", "shr", "ushr"} =>
                  op.t \in {"i", "l"} /\ Is(op, Values(op.t, "i"), Value(op.t), 1)
           /\ op.name \in {"and", "or", "xor"} =>
                  op.t \in {"i", "l"} /\ Is(op, Values(op.t, op.t), Value(op.t), 1)
           /\ op.name = "cmp" => op.t \in {"l", "f", "d"} /\ Is(op, Values(op.t, op.t), Value("i"), 1)
           /\ op.name \in ConversionNames =>
                  op.t = "none" /\ Is(op, Value(Conversions[op.name][1]), Value(Conversions[op.name][2]), 1)
           /\ op.t \in Tags /\ DOMAIN op = Fields
BY ConversionsByName DEF Arithmetic, Is, Fields, Op, Tags, Numeric, ElementTypes, Types, Narrow, Wide, ConversionNames

LEMMA ControlForms ==
    ASSUME NEW op \in Control
    PROVE  /\ op.name = "if" => Is(op, Value("i"), <<>>, 3)
           /\ op.name = "if_icmp" => Is(op, Values("i", "i"), <<>>, 3)
           /\ op.name = "if_acmp" => Is(op, Values("a", "a"), <<>>, 3)
           /\ op.name = "ifnull" => Is(op, Value("a"), <<>>, 3)
           /\ op.name = "goto" => Is(op, <<>>, <<>>, 3)
           /\ op.name = "goto_w" => Is(op, <<>>, <<>>, 5)
           /\ op.name = "jsr" => Is(op, <<>>, Value("r"), 3)
           /\ op.name = "jsr_w" => Is(op, <<>>, Value("r"), 5)
           /\ op.name = "switch" => Is(op, Value("i"), <<>>, 0)
           /\ op.t = "none" /\ DOMAIN op = Fields
BY DEF Control, Is, Fields, Op

LEMMA ObjectForms ==
    ASSUME NEW op \in Objects
    PROVE  /\ op.name = "getstatic" => op.t \in FieldTypes /\ Is(op, <<>>, Value(OnStack(op.t)), 3)
           /\ op.name = "putstatic" => op.t \in FieldTypes /\ Is(op, Value(OnStack(op.t)), <<>>, 3)
           /\ op.name = "getfield" => op.t \in FieldTypes /\ Is(op, Value("a"), Value(OnStack(op.t)), 3)
           /\ op.name = "putfield" => op.t \in FieldTypes /\ Is(op, Values("a", OnStack(op.t)), <<>>, 3)
           /\ op.name = "new" => Is(op, <<>>, Value("a"), 3)
           /\ op.name = "athrow" => Is(op, Value("a"), <<>>, 1)
           /\ op.name = "checkcast" => Is(op, Value("a"), Value("a"), 3)
           /\ op.name = "instanceof" => Is(op, Value("a"), Value("i"), 3)
           /\ op.name \in {"monitorenter", "monitorexit"} => Is(op, Value("a"), <<>>, 1)
           /\ op.name \notin {"getstatic", "putstatic", "getfield", "putfield"} => op.t = "none"
           /\ op.t \in Tags /\ DOMAIN op = Fields
BY DEF Objects, Is, Fields, Op, Tags, FieldTypes, ElementTypes

LEMMA CallForms ==
    ASSUME NEW op \in Calls
    PROVE  /\ op.in \in {<<>>, Value("i"), Value("a")} /\ op.out \in {<<>>, Value("i")}
           /\ op.t \in {"()V", "(I)I"} /\ DOMAIN op = Fields
BY DEF Calls, Fields, Op

LEMMA MovingForms ==
    ASSUME NEW op \in Moving
    PROVE  Is(op, <<>>, <<>>, 1) /\ op.t = "none" /\ DOMAIN op = Fields
BY DEF Moving, Is, Fields, Op

-----------------------------------------------------------------------------
(* The instructions of TypedStack are those of Interpreter.                *)

LEMMA SameMoves == TS!Moves = Moves /\ TS!Reads = Reads /\ TS!Writes = Writes
BY DEF TS!Moves, Moves, TS!Reads, Reads, TS!Writes, Writes

LEMMA SameValue == \A t : TS!Value(t) = Value(t) /\ TS!Width(t) = Width(t)
BY DEF TS!Value, Value, TS!Width, Width, TS!Wide, Wide

LEMMA SameInstrs == TS!Instrs = Instrs
<1>1. TS!Constant = Constant
  BY DEF TS!Constant, Constant, TS!Op, Op, TS!Value, Value, TS!Wide, Wide, TS!Narrow, Narrow, TS!Types, Types
<1>2. TS!LocalOps = LocalOps
  BY DEF TS!LocalOps, LocalOps, TS!At, At, TS!Op, Op, TS!Value, Value, TS!Wide, Wide
<1>3. TS!ArrayOps = ArrayOps
  BY DEF TS!ArrayOps, ArrayOps, TS!Op, Op, TS!Value, Value, TS!Values, Values, TS!Wide, Wide, TS!Narrow, Narrow,
         TS!Types, Types, TS!ElementTypes, ElementTypes, TS!OnStack, OnStack
<1>4. TS!Arithmetic = Arithmetic
  BY DEF TS!Arithmetic, Arithmetic, TS!Op, Op, TS!Value, Value, TS!Values, Values, TS!Wide, Wide, TS!Numeric, Numeric,
         TS!Conversions, Conversions
<1>5. TS!Control = Control
  BY DEF TS!Control, Control, TS!Op, Op, TS!Value, Value, TS!Values, Values, TS!Wide, Wide
<1>6. TS!Objects = Objects
  BY DEF TS!Objects, Objects, TS!Op, Op, TS!Value, Value, TS!Values, Values, TS!Wide, Wide, TS!Narrow, Narrow,
         TS!Types, Types, TS!FieldTypes, FieldTypes, TS!OnStack, OnStack
<1>7. TS!Calls = Calls
  BY DEF TS!Calls, Calls, TS!Op, Op, TS!Value, Value, TS!Wide, Wide
<1>8. TS!Moving = Moving
  BY DEF TS!Moving, Moving, TS!Op, Op, TS!Moves, Moves
<1> QED
  BY <1>1, <1>2, <1>3, <1>4, <1>5, <1>6, <1>7, <1>8 DEF TS!Instrs, Instrs, TS!Typed, Typed

\* A shape runs like its instruction.
LEMMA ShapeFields ==
    ASSUME NEW op \in Instrs
    PROVE  LET s == Shape(op)
           IN  /\ s.in = op.in /\ s.out = op.out /\ s.n = op.n
               /\ op.name \in Reads => s.name = "load" /\ s.t = op.t
               /\ op.name \in Writes => s.name = "store" /\ s.t = op.t
               /\ op.name \in MoveNames => s.name = op.name
               /\ op.name \notin Reads \cup Writes \cup MoveNames => s.name = "nop"
<1>1. DOMAIN op = Fields
  BY ConstantForms, LocalForms, ArrayForms, ArithmeticForms, ControlForms, ObjectForms, CallForms, MovingForms
     DEF Instrs, Typed
<1> DEFINE kind == CASE op.name \in Reads -> "load" [] op.name \in Writes -> "store"
                     [] op.name \in DOMAIN Moves -> op.name [] OTHER -> "nop"
<1>2. /\ op.name \in Reads => kind = "load"
      /\ op.name \in Writes => kind = "store"
      /\ op.name \in MoveNames => kind = op.name
      /\ op.name \notin Reads \cup Writes \cup MoveNames => kind = "nop"
  BY MovesByName DEF Reads, Writes, MoveNames
<1>3. Shape(op) = [op EXCEPT !.name = kind, !.len = 0, !.t = IF kind \in {"load", "store"} THEN @ ELSE "none"]
  BY DEF Shape
<1> HIDE DEF kind
<1>4. /\ Shape(op).in = op.in /\ Shape(op).out = op.out /\ Shape(op).n = op.n /\ Shape(op).name = kind
      /\ kind \in {"load", "store"} => Shape(op).t = op.t
  BY <1>1, <1>3 DEF Fields
<1> QED
  BY <1>2, <1>4

LEMMA ShapeRuns ==
    ASSUME NEW op \in Instrs, NEW c, NEW l
    PROVE  /\ CanRun(Shape(op), c, l) <=> CanRun(op, c, l)
           /\ CellsAfter(Shape(op), c) = CellsAfter(op, c)
           /\ LocalsAfter(Shape(op), l) = LocalsAfter(op, l)
<1> DEFINE s == Shape(op)
<1>1. /\ s.in = op.in /\ s.out = op.out /\ s.n = op.n
      /\ op.name \in Reads => s.name = "load" /\ s.t = op.t
      /\ op.name \in Writes => s.name = "store" /\ s.t = op.t
      /\ op.name \in MoveNames => s.name = op.name
      /\ op.name \notin Reads \cup Writes \cup MoveNames => s.name = "nop"
  BY ShapeFields
<1> HIDE DEF s
<1>2. /\ s.name \in MoveNames <=> op.name \in MoveNames
      /\ s.name \in Reads <=> op.name \in Reads
      /\ s.name \in Writes <=> op.name \in Writes
  BY <1>1 DEF Reads, Writes, MoveNames
<1>3. CanRun(s, c, l) <=> CanRun(op, c, l)
  BY <1>1, <1>2, MovesByName DEF CanRun
<1>4. CellsAfter(s, c) = CellsAfter(op, c)
  BY <1>1, <1>2, MovesByName DEF CellsAfter
<1>5. LocalsAfter(s, l) = LocalsAfter(op, l)
  BY <1>1, <1>2 DEF LocalsAfter
<1> QED
  BY <1>3, <1>4, <1>5 DEF s

LEMMA SameRun ==
    ASSUME NEW op, NEW c, NEW l
    PROVE  /\ TS!CanRun(op, c, l) <=> CanRun(op, c, l)
           /\ TS!CellsAfter(op, c) = CellsAfter(op, c)
           /\ TS!LocalsAfter(op, l) = LocalsAfter(op, l)
           /\ TS!Shape(op) = Shape(op)
<1>1. \A m : TS!Taken(m) = Taken(m)
  BY DEF TS!Taken, Taken
<1>2. \A n, t : TS!LocalHolds(l, n, t) <=> LocalHolds(l, n, t)
  BY SameValue DEF TS!LocalHolds, LocalHolds
<1>3. TS!CanRun(op, c, l) <=> CanRun(op, c, l)
  BY <1>1, <1>2, SameMoves, SameValue DEF TS!CanRun, CanRun
<1>4. TS!CellsAfter(op, c) = CellsAfter(op, c)
  BY <1>1, SameMoves DEF TS!CellsAfter, CellsAfter
<1>5. TS!LocalsAfter(op, l) = LocalsAfter(op, l)
  BY SameMoves, SameValue DEF TS!LocalsAfter, LocalsAfter
<1>6. TS!Shape(op) = Shape(op)
  BY SameMoves DEF TS!Shape, Shape
<1> QED
  BY <1>3, <1>4, <1>5, <1>6

-----------------------------------------------------------------------------
(* The invariant, and what a step of the loop owes.                        *)

StackCell == [v : Cells, wide : BOOLEAN]

\* Beside every cell lies the tag of its type.
Right(s) == \A k \in DOMAIN s : s[k].wide <=> s[k].v[1] \in Wide

\* As long as everything went right, the tags tell the truth.
IInv == TypeOK /\ (lost = <<>> => Right(stack))

StepOK == [TS!GoWrong \/ TS!Execute]_(TS!vars) /\ IInv'

\* A stack the bound of the model allows after op.
Fits(op, s) == Len(s) <= Len(stack) + 2 /\ (Len(s) > Len(stack) => Grows(op))

Excused(how, op) == <<how, op.name, op.t>> \in KnownToFail

LEMMA TagAndName == ASSUME NEW op \in Instrs PROVE op.t \in Tags /\ op.name \in DOMAIN Named
<1>1. op.t \in Tags
  BY ConstantForms, LocalForms, ArrayForms, ArithmeticForms, ControlForms, ObjectForms, CallForms, MovingForms
     DEF Instrs, Typed, Tags, ElementTypes
<1>2. op.name \in DOMAIN Named
  BY DEF Named
<1> QED
  BY <1>1, <1>2

LEMMA FewTaken == ASSUME NEW op \in Moving PROVE Taken(Moves[op.name]) \in 1 .. 4
<1>1. op.name \in MoveNames
  BY MovingNamed
<1> QED
  BY <1>1 DEF MoveNames, Moves, Taken

LEMMA Depth ==
    ASSUME TypeOK, NEW op \in Instrs, Fetch(op), NEW s \in Seq(StackCell), Fits(op, s)
    PROVE  Len(s) <= 2 + (IF Room > 4 THEN Room ELSE 4)
<1>1. Len(stack) \in Nat /\ Len(s) \in Nat /\ Room \in Nat
  BY RoomAssumption DEF TypeOK
<1>2. CASE Len(s) > Len(stack)
  <2>1. Len(stack) <= Room \/ Len(stack) \in 1 .. 4
    BY <1>2, FewTaken DEF Fetch, Fits
  <2>2. Len(s) <= Len(stack) + 2
    BY DEF Fits
  <2> DEFINE d == Len(stack) e == Len(s)
  <2>3. d \in Nat /\ e \in Nat /\ (d <= Room \/ d \in 1 .. 4) /\ e <= d + 2
    BY <1>1, <2>1, <2>2
  <2> HIDE DEF d, e
  <2>4. e <= 2 + (IF Room > 4 THEN Room ELSE 4)
    BY <1>1, <2>3
  <2> QED
    BY <2>4 DEF e
<1>3. CASE Len(s) <= Len(stack)
  BY <1>1, <1>3 DEF TypeOK
<1> QED
  BY <1>1, <1>2, <1>3

LEMMA ContentsOf ==
    ASSUME NEW s \in Seq(StackCell)
    PROVE  /\ Contents(s) \in Seq(Cells) /\ Len(Contents(s)) = Len(s)
           /\ \A k \in 1 .. Len(s) : Contents(s)[k] = s[k].v
<1> DEFINE n == Len(s)
<1>1. n \in Nat /\ DOMAIN s = 1 .. n /\ \A k \in 1 .. n : s[k].v \in Cells
  <2>1. n \in Nat /\ DOMAIN s = 1 .. n /\ \A k \in 1 .. n : s[k] \in StackCell
    OBVIOUS
  <2> QED
    BY <2>1 DEF StackCell
<1> HIDE DEF n
<1>2. Contents(s) = [k \in 1 .. n |-> s[k].v]
  BY <1>1 DEF Contents
<1> QED
  BY <1>1, <1>2 DEF n

\* It is executed as the instruction set says, or known to fail.
LEMMA RanOK ==
    ASSUME IInv, NEW op \in Instrs, Fetch(op), NEW len,
           NEW s \in Seq(StackCell), NEW l \in [0 .. NumLocals - 1 -> Cells], Fits(op, s),
           (AsPromised(op, s, l) /\ len = op.len) \/ Excused("wrong", op),
           Ran(op, s, l, len)
    PROVE  StepOK
<1>1. Len(s) <= 2 + (IF Room > 4 THEN Room ELSE 4)
  BY Depth DEF IInv
<1>2. TypeOK'
  <2>1. lost' = <<>> \/ lost' = <<"wrong", op.name, op.t>>
    BY DEF Ran
  <2>2. \/ lost' = <<>>
        \/ lost' \in {"wrong", "threw"} \X (DOMAIN Named) \X (ElementTypes \cup {"none", "()V", "(I)I"})
    BY <2>1, TagAndName DEF Tags
  <2>3. /\ stack' \in Seq([v : Cells, wide : BOOLEAN]) /\ locals' \in [0 .. NumLocals - 1 -> Cells]
        /\ Len(stack') <= 2 + (IF Room > 4 THEN Room ELSE 4)
        /\ retry' \in Instrs \cup {None} /\ exception' \in BOOLEAN
        /\ result' \in {"running", "returned", "failed"}
    BY <1>1 DEF Ran, StackCell, IInv, TypeOK
  <2> QED
    BY <2>2, <2>3 DEF TypeOK
<1>3. CASE AsPromised(op, s, l) /\ len = op.len
  <2>1. lost = <<>> /\ lost' = <<>> /\ stack' = s /\ locals' = l
    BY <1>3 DEF Ran, Fetch
  <2>2. Right(stack')
    BY <1>3, <2>1 DEF AsPromised, Right
  <2>3. TS!Execute
    <3>1. Shape(op) \in TS!Shapes
      BY SameInstrs, SameRun DEF TS!Shapes
    <3>2. CanRun(op, Contents(stack), locals)
      BY DEF Fetch
    <3>3. Contents(stack') = CellsAfter(op, Contents(stack)) /\ locals' = LocalsAfter(op, locals)
      BY <1>3, <2>1 DEF AsPromised
    <3>4. /\ TS!CanRun(Shape(op), Contents(stack), locals)
          /\ Contents(stack)' = TS!CellsAfter(Shape(op), Contents(stack))
          /\ locals' = TS!LocalsAfter(Shape(op), locals)
      BY <3>2, <3>3, ShapeRuns, SameRun DEF Contents
    <3> QED
      BY <2>1, <3>1, <3>4 DEF TS!Execute
  <2> QED
    BY <1>2, <2>1, <2>2, <2>3 DEF StepOK, IInv
<1>4. CASE ~(AsPromised(op, s, l) /\ len = op.len)
  <2>1. lost = <<>> /\ lost' = <<"wrong", op.name, op.t>> /\ lost' # <<>>
    BY <1>4 DEF Ran, Fetch
  <2>2. TS!GoWrong
    BY <1>4, <2>1 DEF Excused, TS!GoWrong
  <2> QED
    BY <1>2, <2>1, <2>2 DEF StepOK, IInv
<1> QED
  BY <1>3, <1>4

LEMMA MisdoneOK ==
    ASSUME IInv, NEW op \in Instrs, Fetch(op), NEW s \in Seq(StackCell), Fits(op, s),
           NEW e \in BOOLEAN, Excused("wrong", op), Misdone(op, s, e)
    PROVE  StepOK
<1>1. Len(s) <= 2 + (IF Room > 4 THEN Room ELSE 4)
  BY Depth DEF IInv
<1>2. lost = <<>> /\ lost' = <<"wrong", op.name, op.t>> /\ lost' # <<>>
  BY DEF Misdone, Fetch
<1>3. TypeOK'
  <2>1. lost' \in {"wrong", "threw"} \X (DOMAIN Named) \X (ElementTypes \cup {"none", "()V", "(I)I"})
    BY <1>2, TagAndName DEF Tags
  <2>2. /\ stack' \in Seq([v : Cells, wide : BOOLEAN]) /\ locals' \in [0 .. NumLocals - 1 -> Cells]
        /\ Len(stack') <= 2 + (IF Room > 4 THEN Room ELSE 4)
        /\ retry' \in Instrs \cup {None} /\ exception' \in BOOLEAN
        /\ result' \in {"running", "returned", "failed"}
    BY <1>1 DEF Misdone, StackCell, IInv, TypeOK
  <2> QED
    BY <2>1, <2>2 DEF TypeOK
<1>4. TS!GoWrong
  BY <1>2 DEF Excused, TS!GoWrong
<1> QED
  BY <1>2, <1>3, <1>4 DEF StepOK, IInv

LEMMA PopSome ==
    ASSUME NEW n \in Nat, stack \in Seq(StackCell)
    PROVE  /\ Pop(n) \in Seq(StackCell) /\ Len(Pop(n)) <= Len(stack)
           /\ n <= Len(stack) => Len(Pop(n)) = Len(stack) - n
           /\ \A k \in 1 .. Len(Pop(n)) : Pop(n)[k] = stack[k]
           /\ n = 0 => Pop(n) = stack
BY DEF Pop

LEMMA ThrewOK ==
    ASSUME IInv, NEW op \in Instrs, Fetch(op), NEW n \in Nat, n = 0 \/ Excused("threw", op), Threw(op, n)
    PROVE  StepOK
<1>1. Pop(n) \in Seq(StackCell) /\ Len(Pop(n)) <= Len(stack) /\ (n = 0 => Pop(n) = stack)
  BY PopSome DEF IInv, TypeOK, StackCell
<1>2. lost = <<>> /\ stack' = Pop(n) /\ locals' = locals
  BY DEF Threw, Fetch
<1>3. TypeOK'
  <2>1. lost' = <<>> \/ lost' = <<"threw", op.name, op.t>>
    BY DEF Threw
  <2>2. \/ lost' = <<>>
        \/ lost' \in {"wrong", "threw"} \X (DOMAIN Named) \X (ElementTypes \cup {"none", "()V", "(I)I"})
    BY <2>1, TagAndName DEF Tags
  <2>3. Len(stack') <= 2 + (IF Room > 4 THEN Room ELSE 4)
    BY <1>1, <1>2, RoomAssumption DEF IInv, TypeOK
  <2>4. /\ stack' \in Seq([v : Cells, wide : BOOLEAN]) /\ locals' \in [0 .. NumLocals - 1 -> Cells]
        /\ retry' \in Instrs \cup {None} /\ exception' \in BOOLEAN
        /\ result' \in {"running", "returned", "failed"}
    BY <1>1, <1>2 DEF Threw, StackCell, IInv, TypeOK
  <2> QED
    BY <2>2, <2>3, <2>4 DEF TypeOK
<1>4. CASE n = 0
  <2>1. lost' = lost /\ stack' = stack
    BY <1>1, <1>2, <1>4 DEF Threw
  <2> QED
    BY <1>2, <1>3, <2>1 DEF StepOK, IInv, TS!vars, Contents, Right
<1>5. CASE n # 0
  <2>1. lost' = <<"threw", op.name, op.t>> /\ lost' # <<>>
    BY <1>5 DEF Threw
  <2>2. TS!GoWrong
    BY <1>2, <1>5, <2>1 DEF Excused, TS!GoWrong
  <2> QED
    BY <1>2, <1>3, <2>1, <2>2 DEF StepOK, IInv
<1> QED
  BY <1>4, <1>5

-----------------------------------------------------------------------------
(* Handlers that replace what they take by what they leave.                *)

LEMMA SameCells ==
    ASSUME NEW a \in Seq(Cells), NEW b \in Seq(Cells), Len(a) = Len(b),
           \A k \in 1 .. Len(a) : a[k] = b[k]
    PROVE  a = b
OBVIOUS

LEMMA ListedCells == \A n \in Nat : \A f \in [1 .. n -> StackCell] : f \in Seq(StackCell) /\ Len(f) = n
OBVIOUS

LEMMA Joined ==
    ASSUME NEW A, NEW a \in Seq(A), NEW b \in Seq(A)
    PROVE  /\ a \o b \in Seq(A) /\ Len(a \o b) = Len(a) + Len(b)
           /\ \A k \in 1 .. Len(a) : (a \o b)[k] = a[k]
           /\ \A k \in Len(a) + 1 .. Len(a) + Len(b) : (a \o b)[k] = b[k - Len(a)]
OBVIOUS

\* Cells on top of a stack.
LEMMA Piled ==
    ASSUME NEW a \in Seq(StackCell), NEW p \in Seq(StackCell)
    PROVE  /\ a \o p \in Seq(StackCell) /\ Len(a \o p) = Len(a) + Len(p)
           /\ Contents(a \o p) = Contents(a) \o Contents(p)
           /\ Right(a) /\ Right(p) => Right(a \o p)
<1> DEFINE m == Len(a) n == Len(p)
<1>1. m \in Nat /\ n \in Nat /\ a \o p \in Seq(StackCell) /\ Len(a \o p) = m + n
  OBVIOUS
<1>2. \A k \in 1 .. m + n : (a \o p)[k] = IF k <= m THEN a[k] ELSE p[k - m]
  OBVIOUS
<1>3. /\ Contents(a) \in Seq(Cells) /\ Len(Contents(a)) = m /\ \A k \in 1 .. m : Contents(a)[k] = a[k].v
      /\ Contents(p) \in Seq(Cells) /\ Len(Contents(p)) = n /\ \A k \in 1 .. n : Contents(p)[k] = p[k].v
      /\ Contents(a \o p) \in Seq(Cells) /\ Len(Contents(a \o p)) = m + n
      /\ \A k \in 1 .. m + n : Contents(a \o p)[k] = (a \o p)[k].v
  BY <1>1, ContentsOf
<1>4. Contents(a \o p) = Contents(a) \o Contents(p)
  <2> DEFINE x == Contents(a) \o Contents(p)
  <2> HIDE DEF m, n
  <2>1. /\ x \in Seq(Cells) /\ Len(x) = m + n
        /\ \A k \in 1 .. m : x[k] = Contents(a)[k]
        /\ \A k \in m + 1 .. m + n : x[k] = Contents(p)[k - m]
    <3> DEFINE y == Contents(a) z == Contents(p)
    <3>1. y \in Seq(Cells) /\ z \in Seq(Cells) /\ Len(y) = m /\ Len(z) = n /\ x = y \o z
      BY <1>3
    <3> HIDE DEF x, y, z
    <3>2. /\ x \in Seq(Cells) /\ Len(x) = m + n
          /\ \A k \in 1 .. m : x[k] = y[k]
          /\ \A k \in m + 1 .. m + n : x[k] = z[k - m]
      BY <3>1, Joined
    <3> QED
      BY <3>2 DEF y, z
  <2> HIDE DEF x
  <2>2. ASSUME NEW k \in 1 .. m + n PROVE x[k] = (a \o p)[k].v
    <3>1. CASE k <= m
      <4>1. k \in 1 .. m
        BY <1>1, <3>1
      <4>2. x[k] = Contents(a)[k]
        BY <2>1, <4>1
      <4>3. Contents(a)[k] = a[k].v
        BY <1>3, <4>1
      <4>4. (a \o p)[k] = a[k]
        BY <1>2, <3>1
      <4> QED
        BY <4>2, <4>3, <4>4
    <3>2. CASE ~(k <= m)
      <4>1. k \in m + 1 .. m + n /\ k - m \in 1 .. n
        BY <1>1, <3>2
      <4>2. x[k] = Contents(p)[k - m]
        BY <2>1, <4>1
      <4>3. Contents(p)[k - m] = p[k - m].v
        BY <1>3, <4>1
      <4>4. (a \o p)[k] = p[k - m]
        BY <1>2, <3>2
      <4> QED
        BY <4>2, <4>3, <4>4
    <3> QED
      BY <3>1, <3>2
  <2>3. Contents(a \o p) = x
    <3> DEFINE y == Contents(a \o p)
    <3>1. y \in Seq(Cells) /\ Len(y) = m + n /\ \A k \in 1 .. m + n : y[k] = (a \o p)[k].v
      BY <1>3
    <3> HIDE DEF y
    <3>2. \A k \in 1 .. Len(y) : y[k] = x[k]
      BY <2>2, <3>1
    <3> QED
      BY <2>1, <3>1, <3>2, SameCells DEF y
  <2> QED
    BY <2>3 DEF x
<1>5. Right(a) /\ Right(p) => Right(a \o p)
  <2>1. DOMAIN a = 1 .. m /\ DOMAIN p = 1 .. n /\ DOMAIN (a \o p) = 1 .. m + n
    BY <1>1
  <2> HIDE DEF m, n
  <2> QED
    BY <1>1, <1>2, <2>1 DEF Right
<1> QED
  BY <1>1, <1>4, <1>5

LEMMA Popped ==
    ASSUME IInv, lost = <<>>, NEW n \in Nat, n <= Len(stack)
    PROVE  /\ Pop(n) \in Seq(StackCell) /\ Len(Pop(n)) = Len(stack) - n
           /\ Contents(Pop(n)) = SubSeq(Contents(stack), 1, Len(Contents(stack)) - n)
           /\ Right(Pop(n))
<1>1. stack \in Seq(StackCell) /\ Right(stack)
  BY DEF IInv, TypeOK, StackCell
<1>2. Pop(n) \in Seq(StackCell) /\ Len(Pop(n)) = Len(stack) - n /\ \A k \in 1 .. Len(Pop(n)) : Pop(n)[k] = stack[k]
  BY <1>1, PopSome
<1>3. /\ Contents(stack) \in Seq(Cells) /\ Len(Contents(stack)) = Len(stack)
      /\ \A k \in 1 .. Len(stack) : Contents(stack)[k] = stack[k].v
      /\ Contents(Pop(n)) \in Seq(Cells) /\ Len(Contents(Pop(n))) = Len(stack) - n
      /\ \A k \in 1 .. Len(stack) - n : Contents(Pop(n))[k] = Pop(n)[k].v
  BY <1>1, <1>2, ContentsOf
<1> DEFINE x == SubSeq(Contents(stack), 1, Len(Contents(stack)) - n) d == Len(stack)
<1>4. d \in Nat /\ n \in Nat /\ n <= d /\ x \in Seq(Cells) /\ Len(x) = d - n /\ \A k \in 1 .. d - n : x[k] = Contents(stack)[k]
  BY <1>1, <1>3
<1>5. DOMAIN Pop(n) = 1 .. d - n /\ DOMAIN stack = 1 .. d
  BY <1>1, <1>2
<1> HIDE DEF x, d
<1>6. \A k \in 1 .. d - n : k \in 1 .. d
  BY <1>4
<1>7. Contents(Pop(n)) = x
  <2>1. \A k \in 1 .. d - n : Contents(Pop(n))[k] = x[k]
    BY <1>2, <1>3, <1>4, <1>6 DEF d
  <2> QED
    BY <1>3, <1>4, <2>1, SameCells DEF d
<1>8. Right(Pop(n))
  BY <1>1, <1>2, <1>5, <1>6 DEF Right, d
<1> QED
  BY <1>2, <1>7, <1>8 DEF x

LEMMA Replaced ==
    ASSUME IInv, NEW op \in Instrs, Fetch(op), op.name \notin MoveNames,
           NEW n \in Nat, n = Len(op.in), NEW p \in Seq(StackCell), Len(p) <= 2,
           Contents(p) = op.out, Right(p),
           NEW l \in [0 .. NumLocals - 1 -> Cells], l = LocalsAfter(op, locals),
           Ran(op, Pop(n) \o p, l, op.len)
    PROVE  StepOK
<1>1. lost = <<>> /\ stack \in Seq(StackCell) /\ Len(Contents(stack)) = Len(stack)
  BY ContentsOf DEF Fetch, IInv, TypeOK, StackCell
<1>2. n <= Len(stack)
  BY <1>1, MovesByName DEF Fetch, CanRun
<1>3. /\ Pop(n) \in Seq(StackCell) /\ Len(Pop(n)) = Len(stack) - n /\ Right(Pop(n))
      /\ Contents(Pop(n)) = SubSeq(Contents(stack), 1, Len(Contents(stack)) - n)
  BY <1>1, <1>2, Popped
<1> DEFINE s == Pop(n) \o p
<1>4. s \in Seq(StackCell) /\ Len(s) = Len(Pop(n)) + Len(p) /\ Contents(s) = Contents(Pop(n)) \o Contents(p) /\ Right(s)
  BY <1>3, Piled
<1>5. Contents(s) = CellsAfter(op, Contents(stack))
  BY <1>3, <1>4, MovesByName DEF CellsAfter
<1>6. Len(Contents(s)) = Len(s)
  BY <1>4, ContentsOf
<1>7. AsPromised(op, s, l)
  BY <1>4, <1>5 DEF AsPromised, Right
<1>8. Fits(op, s)
  <2> DEFINE d == Len(stack) e == Len(s) f == Len(p) g == Len(Pop(n))
  <2>1. d \in Nat /\ f \in Nat /\ g \in Nat /\ g <= d /\ e = g + f /\ f <= 2
    BY <1>1, <1>2, <1>3, <1>4
  <2> HIDE DEF d, e, f, g, s
  <2>2. e <= d + 2
    BY <2>1
  <2> QED
    BY <1>5, <1>6, <2>2 DEF Fits, Grows, d, e
<1> HIDE DEF s
<1>9. Ran(op, s, l, op.len)
  BY DEF s
<1> QED
  BY <1>4, <1>7, <1>8, <1>9, RanOK

\* The local variables after an instruction that does not write one.
LEMMA Unwritten ==
    ASSUME IInv, NEW op, op.name \notin Writes
    PROVE  locals \in [0 .. NumLocals - 1 -> Cells] /\ locals = LocalsAfter(op, locals)
BY DEF LocalsAfter, IInv, TypeOK

Pushed(t) == [k \in 1 .. Width(t) |-> [v |-> Value(t)[k], wide |-> t \in Wide]]

LEMMA ValueCells ==
    ASSUME NEW t \in Types
    PROVE  /\ Value(t) \in Seq(Cells) /\ Len(Value(t)) = Width(t) /\ Width(t) \in 1 .. 2
           /\ \A k \in 1 .. Width(t) : Value(t)[k] = <<t, k>> /\ Value(t)[k] \in Cells
<1>1. Pairs(t) \subseteq Cells
  BY DEF Cells, Pairs
<1>2. /\ Width(t) \in 1 .. 2 /\ Value(t) \in Seq(Pairs(t)) /\ Len(Value(t)) = Width(t)
      /\ \A k \in 1 .. Width(t) : Value(t)[k] = <<t, k>>
  BY OneValue
<1>3. \A k \in 1 .. Width(t) : Value(t)[k] \in Cells
  BY <1>1, <1>2
<1> QED
  BY <1>1, <1>2, <1>3

LEMMA PushedCells ==
    ASSUME NEW t \in Types
    PROVE  /\ Pushed(t) \in Seq(StackCell) /\ Len(Pushed(t)) = Width(t) /\ Len(Pushed(t)) <= 2
           /\ Contents(Pushed(t)) = Value(t) /\ Right(Pushed(t))
<1> DEFINE n == Width(t) p == Pushed(t)
<1>1. /\ Value(t) \in Seq(Cells) /\ Len(Value(t)) = n /\ n \in 1 .. 2
      /\ \A k \in 1 .. n : Value(t)[k] = <<t, k>> /\ Value(t)[k] \in Cells
  BY ValueCells
<1> HIDE DEF n
<1> DEFINE two == t \in Wide
<1>2. p = [k \in 1 .. n |-> [v |-> Value(t)[k], wide |-> two]] /\ two \in BOOLEAN
  BY DEF Pushed, n
<1>0. two <=> t \in Wide
  OBVIOUS
<1> HIDE DEF p, two
<1>3. \A k \in 1 .. n : p[k] \in StackCell /\ p[k].v = Value(t)[k] /\ p[k].wide = two
  BY <1>1, <1>2 DEF StackCell
<1>4. p \in Seq(StackCell) /\ Len(p) = n /\ DOMAIN p = 1 .. n
  <2>1. p \in [1 .. n -> StackCell]
    BY <1>2, <1>3
  <2> QED
    BY <1>1, <2>1
<1>5. Contents(p) = Value(t)
  <2>1. Contents(p) \in Seq(Cells) /\ Len(Contents(p)) = n /\ \A k \in 1 .. n : Contents(p)[k] = p[k].v
    BY <1>4, ContentsOf
  <2> QED
    BY <1>1, <1>3, <2>1, SameCells
<1>6. Right(p)
  <2>1. \A k \in 1 .. n : p[k].v[1] = t
    BY <1>1, <1>3
  <2> QED
    BY <1>0, <1>3, <1>4, <2>1 DEF Right
<1> QED
  BY <1>1, <1>4, <1>5, <1>6 DEF p, n

LEMMA OnePushed ==
    ASSUME NEW t \in Types, Width(t) = 1
    PROVE  Pushed(t) \in Seq(StackCell) /\ Len(Pushed(t)) = 1 /\ Len(Pushed(t)) <= 1 /\ Len(Pushed(t)) <= 2
<1> DEFINE n == Len(Pushed(t))
<1>1. Pushed(t) \in Seq(StackCell) /\ n = 1
  BY PushedCells
<1> HIDE DEF n
<1>2. n <= 1 /\ n <= 2
  BY <1>1
<1> QED
  BY <1>1, <1>2 DEF n

LEMMA NothingPushed == <<>> \in Seq(StackCell) /\ Len(<<>>) = 0 /\ Contents(<<>>) = <<>> /\ Right(<<>>)
BY DEF Contents, Right

\* A typed instruction that leaves the local variables alone.
Plain(op) == op.name \notin MoveNames \cup Writes

LEMMA PushesValue ==
    ASSUME IInv, NEW op \in Instrs, Fetch(op), Plain(op), NEW n \in Nat, n = Len(op.in),
           NEW t \in Types, op.out = Value(t), Ran(op, Push(Pop(n), t), locals, op.len)
    PROVE  StepOK
<1>1. Push(Pop(n), t) = Pop(n) \o Pushed(t)
  BY DEF Push, Pushed
<1>2. Ran(op, Pop(n) \o Pushed(t), locals, op.len)
  BY <1>1
<1>3. locals \in [0 .. NumLocals - 1 -> Cells] /\ locals = LocalsAfter(op, locals)
  BY Unwritten DEF Plain
<1> QED
  BY <1>2, <1>3, PushedCells, Replaced DEF Plain

LEMMA PushesOnly ==
    ASSUME IInv, NEW op \in Instrs, Fetch(op), Plain(op), op.in = <<>>,
           NEW t \in Types, op.out = Value(t), Ran(op, Push(stack, t), locals, op.len)
    PROVE  StepOK
<1>1. Len(op.in) = 0
  OBVIOUS
<1>2. Pop(0) = stack
  BY PopSome DEF IInv, TypeOK, StackCell
<1>3. Ran(op, Push(Pop(0), t), locals, op.len)
  BY <1>2
<1> QED
  BY <1>1, <1>3, PushesValue

LEMMA Drops ==
    ASSUME IInv, NEW op \in Instrs, Fetch(op), Plain(op), NEW n \in Nat, n = Len(op.in),
           op.out = <<>>, Ran(op, Pop(n), locals, op.len)
    PROVE  StepOK
<1>1. Pop(n) \in Seq(StackCell)
  BY PopSome DEF IInv, TypeOK, StackCell
<1>2. Pop(n) \o <<>> = Pop(n)
  BY <1>1
<1>3. Ran(op, Pop(n) \o <<>>, locals, op.len)
  BY <1>2
<1>4. locals \in [0 .. NumLocals - 1 -> Cells] /\ locals = LocalsAfter(op, locals)
  BY Unwritten DEF Plain
<1> QED
  <2> DEFINE p == <<>>
  <2>1. p \in Seq(StackCell) /\ Len(p) <= 2 /\ Contents(p) = op.out /\ Right(p)
    BY NothingPushed
  <2>2. Ran(op, Pop(n) \o p, locals, op.len)
    BY <1>3
  <2> HIDE DEF p
  <2> QED
    BY <1>4, <2>1, <2>2, Replaced DEF Plain

LEMMA LeavesAlone ==
    ASSUME IInv, NEW op \in Instrs, Fetch(op), Plain(op), op.in = <<>>, op.out = <<>>,
           Ran(op, stack, locals, op.len)
    PROVE  StepOK
<1>1. Len(op.in) = 0
  OBVIOUS
<1>2. Pop(0) = stack
  BY PopSome DEF IInv, TypeOK, StackCell
<1>3. Ran(op, Pop(0), locals, op.len)
  BY <1>2
<1> QED
  BY <1>1, <1>3, Drops

LEMMA Widths ==
    /\ \A t, u : /\ Len(Value(t)) = Width(t) /\ Len(Values(t, u)) = Width(t) + Width(u)
                 /\ Width(t) \in 1 .. 2
    /\ Width("i") = 1 /\ Width("f") = 1 /\ Width("a") = 1 /\ Width("r") = 1
    /\ Width("l") = 2 /\ Width("d") = 2 /\ Width("b") = 1 /\ Width("c") = 1
    /\ Len(Values("i", "i")) = 2 /\ Len(Values("a", "a")) = 2 /\ Len(Values("a", "i")) = 2
<1>1. \A t, u : /\ Len(Value(t)) = Width(t) /\ Len(Values(t, u)) = Width(t) + Width(u)
                /\ Width(t) \in 1 .. 2
  BY OneValue, TwoValues
<1>2. /\ Width("i") = 1 /\ Width("f") = 1 /\ Width("a") = 1 /\ Width("r") = 1
      /\ Width("l") = 2 /\ Width("d") = 2 /\ Width("b") = 1 /\ Width("c") = 1
  BY DEF Width, Wide
<1>3. /\ Len(Values("i", "i")) = Width("i") + Width("i")
      /\ Len(Values("a", "a")) = Width("a") + Width("a")
      /\ Len(Values("a", "i")) = Width("a") + Width("i")
  BY <1>1
<1>4. Len(Values("i", "i")) = 2 /\ Len(Values("a", "a")) = 2 /\ Len(Values("a", "i")) = 2
  <2>1. Width("i") + Width("i") = 2 /\ Width("a") + Width("a") = 2 /\ Width("a") + Width("i") = 2
    BY <1>2
  <2> QED
    BY <1>3, <2>1
<1> QED
  BY <1>1, <1>2, <1>4

LEMMA OfName ==
    ASSUME NEW name \in AllNames, NEW op \in Named[name]
    PROVE  /\ op \in Instrs /\ op.name = name
           /\ name \in ConstantNames => op \in Constant /\ Plain(op)
           /\ name \in LocalNames => op \in LocalOps /\ name \notin MoveNames
           /\ name \in ArrayNames => op \in ArrayOps /\ Plain(op)
           /\ name \in ArithmeticNames => op \in Arithmetic /\ Plain(op)
           /\ name \in ControlNames => op \in Control /\ Plain(op)
           /\ name \in ObjectNames => op \in Objects /\ Plain(op)
           /\ name \in CallNames => op \in Calls /\ Plain(op)
           /\ name \in MoveNames => op \in Moving /\ name \notin Writes
<1>1. op \in Instrs /\ op.name = name
  BY FromNamed
<1> QED
  BY <1>1, ByName
     DEF Plain, ConstantNames, LocalNames, ArrayNames, ArithmeticNames, ControlNames, ObjectNames,
         CallNames, MoveNames, ConversionNames, Reads, Writes

\* An instruction that takes nothing makes the stack longer.
LEMMA OutGrows ==
    ASSUME stack \in Seq(StackCell), NEW op, Plain(op), op.in = <<>>, NEW t, op.out = Value(t)
    PROVE  Grows(op)
<1> DEFINE c == Contents(stack)
<1>1. c \in Seq(Cells) /\ Len(c) = Len(stack)
  BY ContentsOf
<1>2. op.out \in Seq(Pairs(t)) /\ Len(op.out) \in 1 .. 2
  BY OneValue
<1> HIDE DEF c
<1>3. CellsAfter(op, c) = c \o op.out
  <2>1. CellsAfter(op, c) = SubSeq(c, 1, Len(c) - Len(op.in)) \o op.out
    BY MovesByName DEF CellsAfter, Plain
  <2>2. Len(c) - Len(op.in) = Len(c) /\ SubSeq(c, 1, Len(c)) = c
    BY <1>1
  <2> QED
    BY <2>1, <2>2
<1>4. Len(c \o op.out) = Len(c) + Len(op.out)
  BY <1>1, <1>2
<1>5. Len(CellsAfter(op, c)) > Len(stack)
  <2> DEFINE d == Len(c) e == Len(op.out) g == Len(c \o op.out)
  <2>1. d \in Nat /\ e \in 1 .. 2 /\ g = d + e
    BY <1>1, <1>2, <1>4
  <2> HIDE DEF d, e, g
  <2>2. g > d
    BY <2>1
  <2> QED
    BY <1>1, <1>3, <2>2 DEF d, g
<1> QED
  BY <1>5 DEF Grows, c

LEMMA ExcusedWrong ==
    ASSUME NEW op
    PROVE  /\ op.name \in {"dup", "dup2", "l2d", "jsr", "jsr_w", "switch", "arraylength", "new", "anewarray"}
              /\ op.t = "none" => Excused("wrong", op)
           /\ op.name \in {"invokevirtual", "invokespecial", "invokestatic", "invokeinterface"}
              /\ op.t \in {"()V", "(I)I"} => Excused("wrong", op)
           /\ op.name = "store_n" /\ op.t \in LocalTypes => Excused("wrong", op)
           /\ op.name = "xaload" /\ op.t \in {"c", "l", "d"} => Excused("wrong", op)
           /\ op.name = "getstatic" /\ op.t = "b" => Excused("wrong", op)
           /\ op.name \in {"getfield", "putfield"} /\ op.t \in FieldTypes => Excused("wrong", op)
BY DEF Excused, KnownToFail, Wrong

LEMMA ExcusedThrow ==
    ASSUME NEW op
    PROVE  /\ op.name \in {"xaload", "xastore", "getfield", "putfield"} /\ op.t \in ElementTypes => Excused("threw", op)
           /\ op.name \in {"div", "rem"} /\ op.t \in {"i", "l"} => Excused("threw", op)
           /\ op.name \in {"newarray", "anewarray", "arraylength", "athrow", "monitorenter", "monitorexit"}
              /\ op.t = "none" => Excused("threw", op)
BY DEF Excused, KnownToFail, Thrown

-----------------------------------------------------------------------------
(* The handlers.                                                           *)

LEMMA ConstantsOK == ASSUME IInv, Nop \/ PushConstant \/ Ldc PROVE StepOK
<1>1. ConstantNames \subseteq AllNames /\ "i" \in Types /\ "a" \in Types
  BY DEF AllNames, Types, Narrow
<1>2. ASSUME NEW name \in ConstantNames, NEW op \in Named[name]
      PROVE  op \in Instrs /\ op.name = name /\ op \in Constant /\ Plain(op)
  BY <1>1, <1>2, OfName
<1>3. CASE Nop
  <2>1. PICK op \in Named["nop"] : Fetch(op) /\ Ran(op, stack, locals, 1)
    BY <1>3 DEF Nop
  <2>2. op \in Instrs /\ op.name = "nop" /\ op \in Constant /\ Plain(op)
    BY <1>2, <2>1 DEF ConstantNames
  <2>3. Is(op, <<>>, <<>>, 1)
    BY <2>2, ConstantForms
  <2> QED
    BY <2>1, <2>2, <2>3, LeavesAlone DEF Is
<1>4. CASE PushConstant
  <2>1. PICK op \in Named["const"] \cup Named["bipush"] \cup Named["sipush"] :
           /\ Fetch(op)
           /\ CASE op.name = "const"  -> Ran(op, Push(stack, op.t), locals, 1)
                [] op.name = "bipush" -> Ran(op, Push(stack, "i"), locals, 2)
                [] op.name = "sipush" -> Ran(op, Push(stack, "i"), locals, 3)
    BY <1>4 DEF PushConstant
  <2>2. op \in Instrs /\ op.name \in {"const", "bipush", "sipush"} /\ op \in Constant /\ Plain(op)
    BY <1>2, <2>1 DEF ConstantNames
  <2>3. /\ op.in = <<>>
        /\ \E t \in Types : op.out = Value(t) /\ Ran(op, Push(stack, t), locals, op.len)
    BY <1>1, <2>1, <2>2, ConstantForms DEF Is
  <2> QED
    BY <2>1, <2>2, <2>3, PushesOnly
<1>5. CASE Ldc
  <2>1. PICK op \in Named["ldc"] \cup Named["ldc_w"] \cup Named["ldc2_w"] :
           /\ Fetch(op)
           /\ \/ Ran(op, Push(stack, op.t), locals, IF op.name = "ldc" THEN 2 ELSE 3)
              \/ op.t = "a" /\ Threw(op, 0)
    BY <1>5 DEF Ldc
  <2>2. op \in Instrs /\ op.name \in {"ldc", "ldc_w", "ldc2_w"} /\ op \in Constant /\ Plain(op)
    BY <1>2, <2>1 DEF ConstantNames
  <2>3. op.t \in Types /\ Is(op, <<>>, Value(op.t), IF op.name = "ldc" THEN 2 ELSE 3)
    BY <2>2, ConstantForms
  <2>4. CASE Threw(op, 0)
    BY <2>1, <2>2, <2>4, ThrewOK
  <2>5. CASE Ran(op, Push(stack, op.t), locals, IF op.name = "ldc" THEN 2 ELSE 3)
    BY <2>1, <2>2, <2>3, <2>5, PushesOnly DEF Is
  <2> QED
    BY <2>1, <2>4, <2>5
<1> QED
  BY <1>3, <1>4, <1>5

LEMMA ControlOK ==
    ASSUME IInv, If \/ IfNull \/ IfCmp \/ Goto \/ GotoW \/ Jsr \/ Switch
    PROVE  StepOK
<1>1. ControlNames \subseteq AllNames
  BY DEF AllNames
<1>2. ASSUME NEW name \in ControlNames, NEW op \in Named[name]
      PROVE  op \in Instrs /\ op.name = name /\ op \in Control /\ Plain(op)
  BY <1>1, <1>2, OfName
<1>3. stack \in Seq(StackCell)
  BY DEF IInv, TypeOK, StackCell
<1>4. CASE If \/ IfNull
  <2>1. PICK op \in Named["if"] \cup Named["ifnull"] : Fetch(op) /\ Ran(op, Pop(1), locals, 3)
    BY <1>4 DEF If, IfNull
  <2>2. op \in Instrs /\ op.name \in {"if", "ifnull"} /\ op \in Control /\ Plain(op)
    BY <1>2, <2>1 DEF ControlNames
  <2>3. Len(op.in) = 1 /\ op.out = <<>> /\ op.len = 3
    BY <2>2, ControlForms, Widths DEF Is
  <2> QED
    BY <2>1, <2>2, <2>3, Drops
<1>5. CASE IfCmp
  <2>1. PICK op \in Named["if_icmp"] \cup Named["if_acmp"] : Fetch(op) /\ Ran(op, Pop(2), locals, 3)
    BY <1>5 DEF IfCmp
  <2>2. op \in Instrs /\ op.name \in {"if_icmp", "if_acmp"} /\ op \in Control /\ Plain(op)
    BY <1>2, <2>1 DEF ControlNames
  <2>3. Len(op.in) = 2 /\ op.out = <<>> /\ op.len = 3
    BY <2>2, ControlForms, Widths DEF Is
  <2> QED
    BY <2>1, <2>2, <2>3, Drops
<1>6. CASE Goto \/ GotoW
  <2>1. PICK op \in Named["goto"] \cup Named["goto_w"] :
           /\ Fetch(op)
           /\ \/ op \in Named["goto"] /\ Ran(op, stack, locals, 3)
              \/ op \in Named["goto_w"] /\ Ran(op, stack, locals, 5)
    BY <1>6 DEF Goto, GotoW
  <2>2. /\ op \in Instrs /\ op \in Control /\ Plain(op)
        /\ op \in Named["goto"] => op.name = "goto"
        /\ op \in Named["goto_w"] => op.name = "goto_w"
    BY <1>2, <2>1 DEF ControlNames
  <2>3. op.in = <<>> /\ op.out = <<>> /\ Ran(op, stack, locals, op.len)
    BY <2>1, <2>2, ControlForms DEF Is
  <2> QED
    BY <2>1, <2>2, <2>3, LeavesAlone
<1>7. CASE Switch
  <2>1. PICK op \in Named["switch"] : Fetch(op) /\ (Ran(op, Pop(1), locals, 0) \/ Strayed(op, Pop(1)))
    BY <1>7 DEF Switch
  <2>2. op \in Instrs /\ op.name = "switch" /\ op \in Control /\ Plain(op)
    BY <1>2, <2>1 DEF ControlNames
  <2>3. Len(op.in) = 1 /\ op.out = <<>> /\ op.len = 0 /\ op.t = "none"
    BY <2>2, ControlForms, Widths DEF Is
  <2>4. CASE Ran(op, Pop(1), locals, 0)
    BY <2>1, <2>2, <2>3, <2>4, Drops
  <2>5. CASE Strayed(op, Pop(1))
    <3>1. Pop(1) \in Seq(StackCell) /\ Len(Pop(1)) <= Len(stack)
      BY <1>3, PopSome
    <3>2. Fits(op, Pop(1))
      BY <1>3, <3>1 DEF Fits
    <3>3. exception \in BOOLEAN /\ Misdone(op, Pop(1), exception) /\ Excused("wrong", op)
      BY <2>2, <2>3, <2>5, ExcusedWrong DEF Strayed, IInv, TypeOK
    <3> QED
      BY <2>1, <2>2, <3>1, <3>2, <3>3, MisdoneOK
  <2> QED
    BY <2>1, <2>4, <2>5
<1>8. CASE Jsr
  <2> DEFINE s == Append(stack, [v |-> Junk, wide |-> FALSE])
  <2>1. PICK op \in Named["jsr"] \cup Named["jsr_w"] : Fetch(op) /\ Strayed(op, s)
    BY <1>8 DEF Jsr
  <2>2. op \in Instrs /\ op.name \in {"jsr", "jsr_w"} /\ op \in Control /\ Plain(op)
    BY <1>2, <2>1 DEF ControlNames
  <2>3. op.in = <<>> /\ op.out = Value("r") /\ op.t = "none"
    BY <2>2, ControlForms DEF Is
  <2>4. [v |-> Junk, wide |-> FALSE] \in StackCell
    BY DEF StackCell, Cells
  <2>5. s \in Seq(StackCell) /\ Len(s) = Len(stack) + 1
    BY <1>3, <2>4
  <2>6. Fits(op, s)
    <3>1. Grows(op)
      BY <1>3, <2>2, <2>3, OutGrows
    <3> QED
      BY <1>3, <2>5, <3>1 DEF Fits
  <2>7. exception \in BOOLEAN /\ Misdone(op, s, exception) /\ Excused("wrong", op)
    BY <2>1, <2>2, <2>3, ExcusedWrong DEF Strayed, IInv, TypeOK
  <2> HIDE DEF s
  <2> QED
    BY <2>1, <2>2, <2>5, <2>6, <2>7, MisdoneOK
<1> QED
  BY <1>4, <1>5, <1>6, <1>7, <1>8

LEMMA ArithmeticOK ==
    ASSUME IInv, AddSubMul \/ DivRem \/ Negate \/ Shift \/ Bitwise \/ Compare
    PROVE  StepOK
<1>1. ArithmeticNames \subseteq AllNames /\ Numeric \subseteq Types /\ {"i", "l"} \subseteq Types /\ {"l", "f", "d"} \subseteq Types
  BY DEF AllNames, Numeric, Types, Narrow, Wide
<1>2. ASSUME NEW name \in ArithmeticNames, NEW op \in Named[name]
      PROVE  op \in Instrs /\ op.name = name /\ op \in Arithmetic /\ Plain(op)
  BY <1>1, <1>2, OfName
<1>3. \A t : 2 * Width(t) \in Nat /\ Len(Values(t, t)) = 2 * Width(t) /\ Len(Values(t, "i")) = 1 + Width(t)
             /\ 1 + Width(t) \in Nat /\ Width(t) \in Nat /\ Len(Value(t)) = Width(t)
  <2> TAKE t
  <2>1. /\ Len(Values(t, t)) = Width(t) + Width(t) /\ Len(Values(t, "i")) = Width(t) + Width("i")
        /\ Len(Value(t)) = Width(t) /\ Width(t) \in 1 .. 2 /\ Width("i") = 1
    BY Widths
  <2> QED
    BY <2>1
<1>4. CASE AddSubMul
  <2>0. PICK name \in {"add", "sub", "mul"} : \E op \in Named[name] :
           Fetch(op) /\ Ran(op, Push(Pop(2 * Width(op.t)), op.t), locals, 1)
    BY <1>4 DEF AddSubMul
  <2>1. PICK op \in Named[name] :
           Fetch(op) /\ Ran(op, Push(Pop(2 * Width(op.t)), op.t), locals, 1)
    BY <2>0
  <2>2. op \in Instrs /\ op.name = name /\ op \in Arithmetic /\ Plain(op)
    BY <1>2, <2>0, <2>1 DEF ArithmeticNames
  <2>3. op.t \in Types /\ Len(op.in) = 2 * Width(op.t) /\ op.out = Value(op.t) /\ op.len = 1
    BY <1>1, <1>3, <2>0, <2>2, ArithmeticForms DEF Is
  <2> QED
    BY <1>3, <2>1, <2>2, <2>3, PushesValue
<1>5. CASE DivRem
  <2>0. PICK name \in {"div", "rem"} : \E op \in Named[name] :
           /\ Fetch(op)
           /\ \/ Ran(op, Push(Pop(2 * Width(op.t)), op.t), locals, 1)
              \/ op.t \in {"i", "l"} /\ Threw(op, 2 * Width(op.t))
    BY <1>5 DEF DivRem
  <2>1. PICK op \in Named[name] :
           /\ Fetch(op)
           /\ \/ Ran(op, Push(Pop(2 * Width(op.t)), op.t), locals, 1)
              \/ op.t \in {"i", "l"} /\ Threw(op, 2 * Width(op.t))
    BY <2>0
  <2>2. op \in Instrs /\ op.name = name /\ op \in Arithmetic /\ Plain(op)
    BY <1>2, <2>0, <2>1 DEF ArithmeticNames
  <2>3. op.t \in Types /\ Len(op.in) = 2 * Width(op.t) /\ op.out = Value(op.t) /\ op.len = 1
    BY <1>1, <1>3, <2>0, <2>2, ArithmeticForms DEF Is
  <2>4. CASE Ran(op, Push(Pop(2 * Width(op.t)), op.t), locals, 1)
    BY <1>3, <2>1, <2>2, <2>3, <2>4, PushesValue
  <2>5. CASE op.t \in {"i", "l"} /\ Threw(op, 2 * Width(op.t))
    <3>1. Excused("threw", op)
      BY <2>0, <2>2, <2>5, ExcusedThrow
    <3> QED
      BY <1>3, <2>1, <2>2, <2>5, <3>1, ThrewOK
  <2> QED
    BY <2>1, <2>4, <2>5
<1>6. CASE Negate
  <2>1. PICK op \in Named["neg"] : Fetch(op) /\ Ran(op, Push(Pop(Width(op.t)), op.t), locals, 1)
    BY <1>6 DEF Negate
  <2>2. op \in Instrs /\ op.name = "neg" /\ op \in Arithmetic /\ Plain(op)
    BY <1>2, <2>1 DEF ArithmeticNames
  <2>3. op.t \in Types /\ Len(op.in) = Width(op.t) /\ op.out = Value(op.t) /\ op.len = 1
    BY <1>1, <1>3, <2>2, ArithmeticForms DEF Is
  <2> QED
    BY <1>3, <2>1, <2>2, <2>3, PushesValue
<1>7. CASE Shift
  <2>0. PICK name \in {"shl", "shr", "ushr"} : \E op \in Named[name] :
           Fetch(op) /\ Ran(op, Push(Pop(1 + Width(op.t)), op.t), locals, 1)
    BY <1>7 DEF Shift
  <2>1. PICK op \in Named[name] :
           Fetch(op) /\ Ran(op, Push(Pop(1 + Width(op.t)), op.t), locals, 1)
    BY <2>0
  <2>2. op \in Instrs /\ op.name = name /\ op \in Arithmetic /\ Plain(op)
    BY <1>2, <2>0, <2>1 DEF ArithmeticNames
  <2>3. op.t \in Types /\ Len(op.in) = 1 + Width(op.t) /\ op.out = Value(op.t) /\ op.len = 1
    BY <1>1, <1>3, <2>0, <2>2, ArithmeticForms DEF Is
  <2> QED
    BY <1>3, <2>1, <2>2, <2>3, PushesValue
<1>8. CASE Bitwise
  <2>0. PICK name \in {"and", "or", "xor"} : \E op \in Named[name] :
           Fetch(op) /\ Ran(op, Push(Pop(2 * Width(op.t)), op.t), locals, 1)
    BY <1>8 DEF Bitwise
  <2>1. PICK op \in Named[name] :
           Fetch(op) /\ Ran(op, Push(Pop(2 * Width(op.t)), op.t), locals, 1)
    BY <2>0
  <2>2. op \in Instrs /\ op.name = name /\ op \in Arithmetic /\ Plain(op)
    BY <1>2, <2>0, <2>1 DEF ArithmeticNames
  <2>3. op.t \in Types /\ Len(op.in) = 2 * Width(op.t) /\ op.out = Value(op.t) /\ op.len = 1
    BY <1>1, <1>3, <2>0, <2>2, ArithmeticForms DEF Is
  <2> QED
    BY <1>3, <2>1, <2>2, <2>3, PushesValue
<1>9. CASE Compare
  <2>1. PICK op \in Named["cmp"] : Fetch(op) /\ Ran(op, Push(Pop(2 * Width(op.t)), "i"), locals, 1)
    BY <1>9 DEF Compare
  <2>2. op \in Instrs /\ op.name = "cmp" /\ op \in Arithmetic /\ Plain(op)
    BY <1>2, <2>1 DEF ArithmeticNames
  <2>3. "i" \in Types /\ Len(op.in) = 2 * Width(op.t) /\ op.out = Value("i") /\ op.len = 1
    BY <1>1, <1>3, <2>2, ArithmeticForms DEF Is
  <2> QED
    BY <1>3, <2>1, <2>2, <2>3, PushesValue
<1> QED
  BY <1>4, <1>5, <1>6, <1>7, <1>8, <1>9

\* A stack no deeper than the instruction may leave it.
LEMMA Smaller ==
    ASSUME IInv, NEW op, Fetch(op), op.name \notin MoveNames,
           NEW n \in Nat, n <= Len(op.in), Len(op.in) \in Nat, Len(op.out) \in Nat,
           NEW q \in Seq(StackCell), Len(q) <= 2,
           Len(q) <= n \/ (n = Len(op.in) /\ op.out \in Seq(Cells) /\ Len(q) <= Len(op.out))
    PROVE  Pop(n) \o q \in Seq(StackCell) /\ Fits(op, Pop(n) \o q)
<1> DEFINE d == Len(stack) c == Contents(stack) k == Len(op.in) e == Len(q) s == Pop(n) \o q
<1>1. stack \in Seq(StackCell) /\ c \in Seq(Cells) /\ Len(c) = d /\ d \in Nat /\ e \in Nat
  <2>1. stack \in Seq(StackCell)
    BY DEF IInv, TypeOK, StackCell
  <2>2. c \in Seq(Cells) /\ Len(c) = d
    BY <2>1, ContentsOf
  <2>3. d \in Nat /\ e \in Nat
    BY <2>1
  <2> QED
    BY <2>1, <2>2, <2>3
<1>2. k <= d
  BY <1>1, MovesByName DEF Fetch, CanRun
<1>3. Pop(n) \in Seq(StackCell) /\ Len(Pop(n)) = d - n
  <2> HIDE DEF c, k, e
  <2>1. n <= d
    BY <1>1, <1>2 DEF k
  <2> QED
    BY <1>1, <2>1, PopSome
<1>4. s \in Seq(StackCell) /\ Len(s) = d - n + e
  BY <1>3, Piled
<1>5. CASE e <= n
  <2>1. d - n + e <= d
    BY <1>1, <1>5
  <2> QED
    BY <1>1, <1>4, <2>1 DEF Fits
<1>6. CASE ~(e <= n)
  <2>1. CellsAfter(op, c) = SubSeq(c, 1, d - k) \o op.out
    BY <1>1, MovesByName DEF CellsAfter
  <2>2. n = k /\ op.out \in Seq(Cells) /\ e <= Len(op.out)
    BY <1>6
  <2>3. Len(CellsAfter(op, c)) = d - k + Len(op.out)
    <3>1. SubSeq(c, 1, d - k) \in Seq(Cells) /\ Len(SubSeq(c, 1, d - k)) = d - k
      <4> HIDE DEF c, d, e, k, s
      <4>1. k \in Nat /\ d - k \in 0 .. d
        BY <1>1, <1>2 DEF k
      <4>2. \A m \in 0 .. Len(c) : SubSeq(c, 1, m) \in Seq(Cells) /\ Len(SubSeq(c, 1, m)) = m
        BY <1>1
      <4> QED
        BY <1>1, <4>1, <4>2
    <3> DEFINE x == SubSeq(c, 1, d - k)
    <3>2. x \in Seq(Cells) /\ Len(x) = d - k /\ CellsAfter(op, c) = x \o op.out
      BY <2>1, <3>1
    <3> HIDE DEF c, d, k, x
    <3>3. Len(x \o op.out) = Len(x) + Len(op.out)
      BY <2>2, <3>2, Joined
    <3> QED
      BY <3>2, <3>3
  <2>4. d - n + e <= d + 2 /\ d - n + e > d /\ d - k + Len(op.out) > d
    <3> HIDE DEF d, k, e, c, s
    <3>1. k \in Nat /\ n \in Nat /\ e <= 2 /\ Len(op.out) \in Nat
      BY DEF k, e
    <3> QED
      BY <1>1, <1>6, <2>2, <3>1
  <2> QED
    BY <1>4, <2>3, <2>4 DEF Fits, Grows
<1> QED
  BY <1>4, <1>5, <1>6

LEMMA ConvertOK == ASSUME IInv, Convert PROVE StepOK
<1>0. PICK name \in DOMAIN Conversions : \E op \in Named[name] :
         /\ Fetch(op)
         /\ LET to == Conversions[name][2]
            IN  Ran(op, Pop(Width(Conversions[name][1])) \o
                        [k \in 1 .. Width(to) |-> [v |-> Value(to)[k], wide |-> Tagged(name) \in Wide]],
                    locals, 1)
  BY DEF Convert
<1>1. PICK op \in Named[name] :
         /\ Fetch(op)
         /\ LET to == Conversions[name][2]
            IN  Ran(op, Pop(Width(Conversions[name][1])) \o
                        [k \in 1 .. Width(to) |-> [v |-> Value(to)[k], wide |-> Tagged(name) \in Wide]],
                    locals, 1)
  BY <1>0
<1> DEFINE from == Conversions[name][1] to == Conversions[name][2]
           p == [k \in 1 .. Width(to) |-> [v |-> Value(to)[k], wide |-> Tagged(name) \in Wide]]
<1>2. name \in ConversionNames /\ ConversionNames \subseteq ArithmeticNames /\ ArithmeticNames \subseteq AllNames
  BY <1>0, ConversionsByName DEF ArithmeticNames, AllNames
<1>3. op \in Instrs /\ op.name = name /\ op \in Arithmetic /\ Plain(op)
  BY <1>1, <1>2, OfName
<1>4. op.in = Value(from) /\ op.out = Value(to) /\ op.len = 1 /\ op.t = "none"
  BY <1>2, <1>3, ArithmeticForms DEF Is
<1>5. from \in Types /\ to \in Types
  BY <1>2 DEF Conversions, ConversionNames, Types, Narrow, Wide
<1>6. Width(from) \in Nat /\ Len(op.in) = Width(from)
  BY <1>4, Widths
<1> HIDE DEF from, to
<1>7. Ran(op, Pop(Width(from)) \o p, locals, 1)
  BY <1>1 DEF from, to
<1>8. CASE name # "l2d"
  <2>1. p = Pushed(to)
    BY <1>8 DEF Tagged, Pushed, to
  <2>2. Push(Pop(Width(from)), to) = Pop(Width(from)) \o p
    BY <2>1 DEF Push, Pushed
  <2> QED
    BY <1>1, <1>3, <1>4, <1>5, <1>6, <1>7, <2>2, PushesValue
<1>9. CASE name = "l2d"
  <2>1. from = "l" /\ to = "d"
    BY <1>9 DEF Conversions, from, to
  <2>2. Width(from) = 2 /\ Width(to) = 2 /\ to \in Types
    BY <1>5, <2>1, Widths
  <2>3. p \in Seq(StackCell) /\ Len(p) = 2
    <3> DEFINE two == Tagged(name) \in Wide
    <3>1. two \in BOOLEAN /\ p = [k \in 1 .. 2 |-> [v |-> Value(to)[k], wide |-> two]]
      BY <2>2
    <3> HIDE DEF two, p
    <3>2. \A k \in 1 .. 2 : p[k] \in StackCell
      BY <2>2, <3>1, ValueCells DEF StackCell
    <3>3. p \in [1 .. 2 -> StackCell]
      BY <3>1, <3>2
    <3> QED
      BY <3>3, ListedCells
  <2> HIDE DEF p
  <2>4. Pop(2) \o p \in Seq(StackCell) /\ Fits(op, Pop(2) \o p)
    <3>1. Len(op.in) = 2 /\ Len(op.out) \in Nat
      BY <1>4, <1>6, <2>2, Widths
    <3>2. Fetch(op) /\ op.name \notin MoveNames
      BY <1>1, <1>3 DEF Plain
    <3>3. 2 \in Nat /\ 2 <= Len(op.in) /\ Len(op.in) \in Nat /\ Len(p) <= 2
      BY <2>3, <3>1
    <3> QED
      BY <2>3, <3>1, <3>2, <3>3, Smaller
  <2>5. Excused("wrong", op)
    BY <1>3, <1>4, <1>9, ExcusedWrong
  <2>6. locals \in [0 .. NumLocals - 1 -> Cells]
    BY DEF IInv, TypeOK
  <2> QED
    BY <1>1, <1>3, <1>7, <2>2, <2>4, <2>5, <2>6, RanOK
<1> QED
  BY <1>8, <1>9

\* The tag of the topmost operand tells the type of the instruction that takes it.
LEMMA TopTag ==
    ASSUME IInv, NEW op, Fetch(op), op.name \notin MoveNames, Len(op.in) \in Nat \ {0},
           NEW wide \in TellsWide(0)
    PROVE  /\ Len(stack) >= Len(op.in) /\ stack \in Seq(StackCell)
           /\ \A k \in 1 .. Len(op.in) : stack[Len(stack) - Len(op.in) + k].v = op.in[k]
           /\ wide <=> op.in[Len(op.in)][1] \in Wide
<1> DEFINE d == Len(stack) c == Contents(stack) n == Len(op.in) x == SubSeq(c, d - n + 1, d)
<1>1. lost = <<>> /\ CanRun(op, c, locals) /\ Right(stack)
  BY DEF Fetch, IInv
<1>2. stack \in Seq(StackCell)
  BY DEF IInv, TypeOK, StackCell
<1>3. c \in Seq(Cells) /\ Len(c) = d /\ (\A k \in 1 .. d : c[k] = stack[k].v) /\ d \in Nat /\ DOMAIN stack = 1 .. d
  BY <1>2, ContentsOf
<1>4. n <= d /\ x = op.in
  BY <1>1, <1>3, MovesByName DEF CanRun
<1>5. n \in Nat \ {0}
  OBVIOUS
<1>6. \A k \in 1 .. n : x[k] = c[d - n + k]
  <2> HIDE DEF c, d, n
  <2> QED
    BY <1>3, <1>4, <1>5
<1> HIDE DEF c, x, d, n
<1>7. \A k \in 1 .. n : d - n + k \in 1 .. d
  BY <1>3, <1>4, <1>5
<1>8. \A k \in 1 .. n : stack[d - n + k].v = op.in[k]
  BY <1>3, <1>4, <1>6, <1>7
<1>9. wide = stack[d].wide
  <2>1. d - 0 = d /\ 0 < d
    BY <1>3, <1>4, <1>5
  <2> QED
    BY <2>1 DEF TellsWide, Top, d
<1>10. n \in 1 .. n /\ d - n + n = d
  BY <1>3, <1>5
<1>11. stack[d].v = op.in[n] /\ d \in 1 .. d
  BY <1>7, <1>8, <1>10
<1>12. wide <=> op.in[n][1] \in Wide
  BY <1>1, <1>3, <1>9, <1>11 DEF Right
<1> QED
  BY <1>2, <1>3, <1>4, <1>8, <1>12 DEF n, d

LEMMA ElementsOnStack ==
    ASSUME NEW t \in ElementTypes
    PROVE  /\ OnStack(t) \in Types
           /\ OnStack(t) \in Wide <=> t \in Wide
           /\ Width(OnStack(t)) = Width(t)
           /\ Width(t) = IF t \in Wide THEN 2 ELSE 1
BY DEF ElementTypes, Types, Narrow, Wide, OnStack, Width

\* It strays to a stack that is not deeper.
LEMMA StraysOff ==
    ASSUME IInv, NEW op \in Instrs, Fetch(op), op.name \notin MoveNames,
           NEW n \in Nat, n <= Len(op.in), Len(op.in) \in Nat, Len(op.out) \in Nat,
           NEW q \in Seq(StackCell), Len(q) <= 2,
           Len(q) <= n \/ (n = Len(op.in) /\ op.out \in Seq(Cells) /\ Len(q) <= Len(op.out)),
           NEW e \in BOOLEAN, Excused("wrong", op), Misdone(op, Pop(n) \o q, e)
    PROVE  StepOK
<1>1. Pop(n) \o q \in Seq(StackCell) /\ Fits(op, Pop(n) \o q)
  BY Smaller
<1> QED
  BY <1>1, MisdoneOK

\* It runs, on such a stack.
LEMMA RunsOff ==
    ASSUME IInv, NEW op \in Instrs, Fetch(op), op.name \notin MoveNames,
           NEW n \in Nat, n <= Len(op.in), Len(op.in) \in Nat, Len(op.out) \in Nat,
           NEW q \in Seq(StackCell), Len(q) <= 2,
           Len(q) <= n \/ (n = Len(op.in) /\ op.out \in Seq(Cells) /\ Len(q) <= Len(op.out)),
           NEW len, Excused("wrong", op), Ran(op, Pop(n) \o q, locals, len)
    PROVE  StepOK
<1>1. Pop(n) \o q \in Seq(StackCell) /\ Fits(op, Pop(n) \o q)
  BY Smaller
<1>2. locals \in [0 .. NumLocals - 1 -> Cells]
  BY DEF IInv, TypeOK
<1> QED
  BY <1>1, <1>2, RanOK

LEMMA XALoadOK == ASSUME IInv, XALoad PROVE StepOK
<1>1. PICK op \in Named["xaload"] :
         /\ Fetch(op)
         /\ \/ Threw(op, 2)
            \/ \E e \in ElementOf(op.t) : Ran(op, PushElement(Pop(2), op.t, e), locals, 1)
  BY DEF XALoad
<1>2. op \in Instrs /\ op.name = "xaload" /\ op \in ArrayOps /\ Plain(op)
  BY <1>1, OfName DEF AllNames, ArrayNames
<1>3. op.t \in ElementTypes /\ op.in = Values("a", "i") /\ op.out = Value(OnStack(op.t)) /\ op.len = 1
  BY <1>2, ArrayForms DEF Is
<1>4. Len(op.in) = 2 /\ OnStack(op.t) \in Types /\ Len(op.out) \in Nat
  BY <1>3, Widths, ElementsOnStack
<1>5. CASE Threw(op, 2)
  <2>1. Excused("threw", op)
    BY <1>2, <1>3, ExcusedThrow
  <2> QED
    BY <1>1, <1>2, <1>5, <2>1, ThrewOK
<1>6. ASSUME NEW e \in ElementOf(op.t), Ran(op, PushElement(Pop(2), op.t, e), locals, 1)
      PROVE  StepOK
  <2>1. CASE op.t \in {"i", "f", "a", "b"}
    <3>1. e \notin {"J", "D"} /\ op.t \notin Wide /\ OnStack(op.t) \notin Wide
      BY <1>6, <2>1 DEF ElementOf, Wide, OnStack
    <3>2. Width(OnStack(op.t)) = 1
      BY <3>1 DEF Width
    <3>3. PushElement(Pop(2), op.t, e) =
             Pop(2) \o [k \in 1 .. 1 |-> [v |-> Value(OnStack(op.t))[k], wide |-> FALSE]]
      <4>1. (e \in {"J", "D"}) = FALSE /\ ((e \in {"J", "D"}) <=> op.t \in Wide)
        BY <3>1
      <4> QED
        BY <4>1 DEF PushElement
    <3>4. Push(Pop(2), OnStack(op.t)) =
             Pop(2) \o [k \in 1 .. 1 |-> [v |-> Value(OnStack(op.t))[k], wide |-> FALSE]]
      <4>1. (OnStack(op.t) \in Wide) = FALSE
        BY <3>1
      <4> QED
        BY <3>2, <4>1 DEF Push
    <3>5. Ran(op, Push(Pop(2), OnStack(op.t)), locals, op.len)
      BY <1>3, <1>6, <3>3, <3>4
    <3> QED
      BY <1>1, <1>2, <1>3, <1>4, <3>5, PushesValue
  <2>2. CASE op.t \in {"c", "l", "d"}
    <3> DEFINE two == e \in {"J", "D"}
               right == two <=> op.t \in Wide
               m == IF two THEN 2 ELSE 1
               q == [k \in 1 .. m |-> [v |-> IF right THEN Value(OnStack(op.t))[k] ELSE Junk, wide |-> two]]
    <3>1. PushElement(Pop(2), op.t, e) = Pop(2) \o q
      BY DEF PushElement
    <3>2. m \in 1 .. 2 /\ two \in BOOLEAN
      OBVIOUS
    <3>3. ASSUME right PROVE m = Width(OnStack(op.t))
      BY <1>3, <3>3, ElementsOnStack
    <3>4. q = [k \in 1 .. m |-> [v |-> IF right THEN Value(OnStack(op.t))[k] ELSE Junk, wide |-> two]]
      OBVIOUS
    <3> HIDE DEF two, m, q, right
    <3>5. \A k \in 1 .. m : right => Value(OnStack(op.t))[k] \in Cells
      BY <1>4, <3>3, ValueCells
    <3>6. Junk \in Cells
      BY DEF Cells
    <3>7. \A k \in 1 .. m : q[k] \in StackCell
      BY <3>2, <3>4, <3>5, <3>6 DEF StackCell
    <3>8. q \in [1 .. m -> StackCell]
      BY <3>4, <3>7
    <3>9. q \in Seq(StackCell) /\ Len(q) = m
      BY <3>2, <3>8, ListedCells
    <3>10. Excused("wrong", op)
      BY <1>2, <1>3, <2>2, ExcusedWrong
    <3>11. 2 <= Len(op.in) /\ Len(op.in) \in Nat /\ Len(q) <= 2
      BY <1>4, <3>2, <3>9
    <3> QED
      BY <1>1, <1>2, <1>4, <1>6, <3>1, <3>9, <3>10, <3>11, RunsOff DEF Plain
  <2> QED
    BY <1>3, <2>1, <2>2 DEF ElementTypes, Types, Narrow, Wide
<1> QED
  BY <1>1, <1>5, <1>6

LEMMA XAStoreOK == ASSUME IInv, XAStore PROVE StepOK
<1>0. PICK op \in Named["xastore"] : \E wide \in TellsWide(0) :
         /\ Fetch(op)
         /\ LET popped == IF wide THEN 4 ELSE 3
            IN  Threw(op, popped) \/ Ran(op, Pop(popped), locals, 1)
  BY DEF XAStore
<1>1. PICK wide \in TellsWide(0) :
         /\ Fetch(op)
         /\ LET popped == IF wide THEN 4 ELSE 3
            IN  Threw(op, popped) \/ Ran(op, Pop(popped), locals, 1)
  BY <1>0
<1> DEFINE popped == IF wide THEN 4 ELSE 3
<1>2. op \in Instrs /\ op.name = "xastore" /\ op \in ArrayOps /\ Plain(op)
  BY <1>0, OfName DEF AllNames, ArrayNames
<1>3. op.t \in ElementTypes /\ op.in = Values("a", "i") \o Value(OnStack(op.t)) /\ op.out = <<>> /\ op.len = 1
  BY <1>2, ArrayForms DEF Is
<1> DEFINE u == OnStack(op.t) w == Width(u)
<1>4. w \in 1 .. 2 /\ (w = IF u \in Wide THEN 2 ELSE 1) /\ Len(Value(u)) = w /\ Value(u)[w] = <<u, w>>
  <2>1. w \in 1 .. 2 /\ Len(Value(u)) = w /\ \A k \in 1 .. w : Value(u)[k] = <<u, k>>
    BY OneValue
  <2>2. w = IF u \in Wide THEN 2 ELSE 1
    BY DEF Width
  <2> HIDE DEF u, w
  <2>3. w \in 1 .. w
    BY <2>1
  <2> QED
    BY <2>1, <2>2, <2>3
<1>5. Len(op.in) = 2 + w /\ op.in[2 + w] = <<u, w>>
  <2> DEFINE x == Values("a", "i") y == Value(u) A == Pairs("a") \cup Pairs("i") \cup Pairs(u)
  <2>1. x \in Seq(A) /\ y \in Seq(A) /\ Len(x) = 2 /\ Len(y) = w
    <3>1. x \in Seq(Pairs("a") \cup Pairs("i")) /\ Len(x) = 2
      BY Widths, TwoValues
    <3>2. y \in Seq(Pairs(u)) /\ Len(y) = w
      BY <1>4, OneValue
    <3> HIDE DEF x, y
    <3> QED
      BY <3>1, <3>2
  <2>2. op.in = x \o y
    BY <1>3
  <2> HIDE DEF x, y, A
  <2>3. /\ Len(x \o y) = Len(x) + Len(y)
        /\ \A k \in Len(x) + 1 .. Len(x) + Len(y) : (x \o y)[k] = y[k - Len(x)]
    BY <2>1, Joined
  <2> HIDE DEF w, u
  <2>4. 2 + w \in 2 + 1 .. 2 + w /\ (2 + w) - 2 = w
    BY <1>4
  <2> QED
    BY <1>4, <2>1, <2>2, <2>3, <2>4 DEF y
<1> HIDE DEF w, u
<1>6. wide <=> u \in Wide
  <2>1. Len(op.in) \in Nat \ {0} /\ op.in[Len(op.in)][1] = u
    BY <1>4, <1>5
  <2>2. wide <=> op.in[Len(op.in)][1] \in Wide
    BY <1>1, <1>2, <2>1, TopTag DEF Plain
  <2> QED
    BY <2>1, <2>2
<1>7. popped = Len(op.in) /\ popped \in Nat /\ popped # 0
  BY <1>4, <1>5, <1>6
<1>8. Threw(op, popped) \/ Ran(op, Pop(popped), locals, 1)
  BY <1>1
<1> HIDE DEF popped
<1>9. CASE Threw(op, popped)
  <2>1. Excused("threw", op)
    BY <1>2, <1>3, ExcusedThrow
  <2> QED
    BY <1>1, <1>2, <1>7, <1>9, <2>1, ThrewOK
<1>10. CASE Ran(op, Pop(popped), locals, 1)
  BY <1>1, <1>2, <1>3, <1>7, <1>10, Drops
<1> QED
  BY <1>8, <1>9, <1>10

LEMMA NewArraysOK ==
    ASSUME IInv, NewArray \/ ANewArray \/ MultiANewArray \/ ArrayLength
    PROVE  StepOK
<1>1. ArrayNames \subseteq AllNames /\ "a" \in Types /\ "i" \in Types /\ exception \in BOOLEAN
  BY DEF AllNames, Types, Narrow, IInv, TypeOK
<1>2. ASSUME NEW name \in ArrayNames, NEW op \in Named[name]
      PROVE  op \in Instrs /\ op.name = name /\ op \in ArrayOps /\ Plain(op)
  BY <1>1, <1>2, OfName
<1>3. /\ Len(Value("i")) = 1 /\ Len(Value("a")) = 1 /\ Len(Values("i", "i")) = 2
      /\ Pushed("a") \in Seq(StackCell) /\ Len(Pushed("a")) <= 1 /\ Len(Pushed("a")) <= 2
      /\ Pushed("i") \in Seq(StackCell) /\ Len(Pushed("i")) <= 1 /\ Len(Pushed("i")) <= 2
  BY <1>1, Widths, OnePushed
<1>4. \A t : Push(Pop(1), t) = Pop(1) \o Pushed(t)
  BY DEF Push, Pushed
<1>5. CASE NewArray
  <2>1. PICK op \in Named["newarray"] :
           Fetch(op) /\ (Threw(op, 0) \/ Threw(op, 1) \/ Ran(op, Push(Pop(1), "a"), locals, 2))
    BY <1>5 DEF NewArray
  <2>2. op \in Instrs /\ op.name = "newarray" /\ op \in ArrayOps /\ Plain(op)
    BY <1>2, <2>1 DEF ArrayNames
  <2>3. Len(op.in) = 1 /\ op.out = Value("a") /\ op.len = 2 /\ op.t = "none"
    BY <1>3, <2>2, ArrayForms DEF Is
  <2>4. CASE Threw(op, 0) \/ Threw(op, 1)
    BY <2>1, <2>2, <2>3, <2>4, ExcusedThrow, ThrewOK
  <2>5. CASE Ran(op, Push(Pop(1), "a"), locals, 2)
    BY <1>1, <2>1, <2>2, <2>3, <2>5, PushesValue
  <2> QED
    BY <2>1, <2>4, <2>5
<1>6. CASE ANewArray
  <2>1. PICK op \in Named["anewarray"] :
           /\ Fetch(op)
           /\ \/ Threw(op, 0) \/ Threw(op, 1) \/ Ran(op, Push(Pop(1), "a"), locals, 3)
              \/ Strayed(op, Push(Pop(1), "a"))
    BY <1>6 DEF ANewArray
  <2>2. op \in Instrs /\ op.name = "anewarray" /\ op \in ArrayOps /\ Plain(op)
    BY <1>2, <2>1 DEF ArrayNames
  <2>3. Len(op.in) = 1 /\ op.out = Value("a") /\ op.len = 3 /\ op.t = "none" /\ Len(op.out) = 1
    BY <1>3, <2>2, ArrayForms DEF Is
  <2>4. CASE Threw(op, 0) \/ Threw(op, 1)
    BY <2>1, <2>2, <2>3, <2>4, ExcusedThrow, ThrewOK
  <2>5. CASE Ran(op, Push(Pop(1), "a"), locals, 3)
    BY <1>1, <2>1, <2>2, <2>3, <2>5, PushesValue
  <2>6. CASE Strayed(op, Push(Pop(1), "a"))
    <3>1. Misdone(op, Pop(1) \o Pushed("a"), exception)
      BY <1>4, <2>6 DEF Strayed
    <3>2. Excused("wrong", op)
      BY <2>2, <2>3, ExcusedWrong
    <3>3. /\ 1 \in Nat /\ 1 <= Len(op.in) /\ Len(op.in) \in Nat /\ Len(op.out) \in Nat
      BY <2>3
    <3>4. op.name \notin MoveNames
      BY <2>2 DEF Plain
    <3> QED
      BY <1>1, <1>3, <2>1, <2>2, <3>1, <3>2, <3>3, <3>4, StraysOff
  <2> QED
    BY <2>1, <2>4, <2>5, <2>6
<1>7. CASE MultiANewArray
  <2>1. PICK op \in Named["multianewarray"] :
           Fetch(op) /\ (Threw(op, 0) \/ Ran(op, Push(Pop(2), "a"), locals, 4))
    BY <1>7 DEF MultiANewArray
  <2>2. op \in Instrs /\ op.name = "multianewarray" /\ op \in ArrayOps /\ Plain(op)
    BY <1>2, <2>1 DEF ArrayNames
  <2>3. Len(op.in) = 2 /\ op.out = Value("a") /\ op.len = 4
    BY <1>3, <2>2, ArrayForms DEF Is
  <2>4. CASE Threw(op, 0)
    BY <2>1, <2>2, <2>4, ThrewOK
  <2>5. CASE Ran(op, Push(Pop(2), "a"), locals, 4)
    BY <1>1, <2>1, <2>2, <2>3, <2>5, PushesValue
  <2> QED
    BY <2>1, <2>4, <2>5
<1>8. CASE ArrayLength
  <2>1. PICK op \in Named["arraylength"] :
           /\ Fetch(op)
           /\ \/ Threw(op, 1)
              \/ Ran(op, Push(Pop(1), "i"), locals, 1)
              \/ Strayed(op, Push(Pop(1), "i"))
    BY <1>8 DEF ArrayLength
  <2>2. op \in Instrs /\ op.name = "arraylength" /\ op \in ArrayOps /\ Plain(op)
    BY <1>2, <2>1 DEF ArrayNames
  <2>3. Len(op.in) = 1 /\ op.out = Value("i") /\ op.len = 1 /\ op.t = "none" /\ Len(op.out) = 1
    BY <1>3, <2>2, ArrayForms DEF Is
  <2>4. CASE Threw(op, 1)
    BY <2>1, <2>2, <2>3, <2>4, ExcusedThrow, ThrewOK
  <2>5. CASE Ran(op, Push(Pop(1), "i"), locals, 1)
    BY <1>1, <2>1, <2>2, <2>3, <2>5, PushesValue
  <2>6. CASE Strayed(op, Push(Pop(1), "i"))
    <3>1. Misdone(op, Pop(1) \o Pushed("i"), exception)
      BY <1>4, <2>6 DEF Strayed
    <3>2. Excused("wrong", op)
      BY <2>2, <2>3, ExcusedWrong
    <3>3. /\ 1 \in Nat /\ 1 <= Len(op.in) /\ Len(op.in) \in Nat /\ Len(op.out) \in Nat
      BY <2>3
    <3>4. op.name \notin MoveNames
      BY <2>2 DEF Plain
    <3> QED
      BY <1>1, <1>3, <2>1, <2>2, <3>1, <3>2, <3>3, <3>4, StraysOff
  <2> QED
    BY <2>1, <2>4, <2>5, <2>6
<1> QED
  BY <1>5, <1>6, <1>7, <1>8

LEMMA FieldsFit == FieldTypes \subseteq ElementTypes
BY DEF FieldTypes, ElementTypes

LEMMA ResolvedFields == ASSUME IInv PROVE \A field \in ResolveField(FALSE) : field.exception \in BOOLEAN
<1> DEFINE r == {[found |-> FALSE, exception |-> TRUE], [found |-> TRUE, exception |-> exception],
                 [found |-> TRUE, exception |-> TRUE]}
<1>1. ResolveField(FALSE) \subseteq r
  BY DEF ResolveField
<1>2. \A field \in r : field.exception = TRUE \/ field.exception = exception
  OBVIOUS
<1>3. exception \in BOOLEAN
  BY DEF IInv, TypeOK
<1> HIDE DEF r
<1> QED
  BY <1>1, <1>2, <1>3

LEMMA GetStaticOK == ASSUME IInv, GetStatic PROVE StepOK
<1>0. PICK op \in Named["getstatic"] : \E field \in ResolveField(TRUE) :
         /\ Fetch(op)
         /\ IF ~field.found THEN Threw(op, 0) ELSE \E value \in Field(op.t) : Ran(op, stack \o value, locals, 3)
  BY DEF GetStatic
<1>1. /\ Fetch(op)
      /\ Threw(op, 0) \/ \E value \in Field(op.t) : Ran(op, stack \o value, locals, 3)
  BY <1>0
<1>2. op \in Instrs /\ op.name = "getstatic" /\ op \in Objects /\ Plain(op)
  BY <1>0, OfName DEF AllNames, ObjectNames
<1>3. op.t \in FieldTypes /\ op.in = <<>> /\ op.out = Value(OnStack(op.t)) /\ op.len = 3
  BY <1>2, ObjectForms DEF Is
<1>4. CASE Threw(op, 0)
  BY <1>1, <1>2, <1>4, ThrewOK
<1>5. ASSUME NEW value \in Field(op.t), Ran(op, stack \o value, locals, 3)
      PROVE  StepOK
  <2> DEFINE u == OnStack(op.t)
  <2>1. u \in Types /\ Pushed(u) \in Seq(StackCell) /\ Len(Pushed(u)) = Width(u)
    BY <1>3, FieldsFit, ElementsOnStack, PushedCells
  <2>2. Push(<<>>, u) = Pushed(u)
    <3> DEFINE p == Pushed(u)
    <3>1. Push(<<>>, u) = <<>> \o p
      BY DEF Push, Pushed
    <3>2. p \in Seq(StackCell)
      BY <2>1
    <3> HIDE DEF p
    <3>3. <<>> \o p = p
      BY <3>2
    <3> QED
      BY <3>1, <3>3 DEF p
  <2>3. CASE op.t # "b"
    <3>1. u = op.t
      BY <1>3, <2>3 DEF OnStack, FieldTypes, Types, Narrow, Wide
    <3>2. value = Pushed(u)
      BY <1>5, <2>2, <3>1 DEF Field
    <3>3. Push(stack, u) = stack \o value
      BY <3>2 DEF Push, Pushed
    <3> QED
      BY <1>1, <1>2, <1>3, <1>5, <2>1, <3>3, PushesOnly
  <2>4. CASE op.t = "b"
    <3>1. u = "i"
      BY <2>4 DEF OnStack
    <3> DEFINE j == <<[v |-> Junk, wide |-> FALSE]>>
    <3>2. value = Pushed(u) \/ value = j
      BY <1>5, <2>2 DEF Field
    <3>3. Len(Pushed(u)) = 1
      BY <2>1, <3>1, Widths
    <3>4. j \in Seq(StackCell) /\ Len(j) = 1
      <4>1. [v |-> Junk, wide |-> FALSE] \in StackCell
        BY DEF StackCell, Cells
      <4> QED
        BY <4>1
    <3>5. value \in Seq(StackCell) /\ Len(value) = 1
      BY <2>1, <3>2, <3>3, <3>4
    <3>6. Pop(0) = stack
      BY PopSome DEF IInv, TypeOK, StackCell
    <3>7. Ran(op, Pop(0) \o value, locals, 3)
      BY <1>5, <3>6
    <3>8. Excused("wrong", op)
      BY <1>2, <2>4, ExcusedWrong
    <3>9. Len(op.in) = 0 /\ op.out \in Seq(Cells) /\ Len(op.out) = 1
      BY <1>3, <2>1, <3>1, ValueCells, Widths
    <3>10. /\ op.name \notin MoveNames /\ 0 \in Nat /\ 0 <= Len(op.in) /\ 0 = Len(op.in)
           /\ Len(op.in) \in Nat /\ Len(op.out) \in Nat
           /\ Len(value) <= 2 /\ Len(value) <= Len(op.out)
      BY <1>2, <3>5, <3>9 DEF Plain
    <3> QED
      BY <1>1, <1>2, <3>5, <3>7, <3>8, <3>9, <3>10, RunsOff
  <2> QED
    BY <2>3, <2>4
<1> QED
  BY <1>1, <1>4, <1>5

LEMMA PutStaticOK == ASSUME IInv, PutStatic PROVE StepOK
<1>0. PICK op \in Named["putstatic"] : \E field \in ResolveField(TRUE) :
         /\ Fetch(op)
         /\ IF ~field.found THEN Threw(op, 0) ELSE Ran(op, Pop(Width(op.t)), locals, 3)
  BY DEF PutStatic
<1>1. Fetch(op) /\ (Threw(op, 0) \/ Ran(op, Pop(Width(op.t)), locals, 3))
  BY <1>0
<1>2. op \in Instrs /\ op.name = "putstatic" /\ op \in Objects /\ Plain(op)
  BY <1>0, OfName DEF AllNames, ObjectNames
<1>3. op.t \in FieldTypes /\ op.in = Value(OnStack(op.t)) /\ op.out = <<>> /\ op.len = 3
  BY <1>2, ObjectForms DEF Is
<1>4. CASE Threw(op, 0)
  BY <1>1, <1>2, <1>4, ThrewOK
<1>5. CASE Ran(op, Pop(Width(op.t)), locals, 3)
  <2>1. Width(op.t) \in Nat /\ Len(op.in) = Width(op.t)
    BY <1>3, FieldsFit, ElementsOnStack, Widths
  <2> QED
    BY <1>1, <1>2, <1>3, <1>5, <2>1, Drops
<1> QED
  BY <1>1, <1>4, <1>5

LEMMA GetFieldOK == ASSUME IInv, GetField PROVE StepOK
<1>0. PICK op \in Named["getfield"] : \E field \in ResolveField(FALSE) :
         /\ Fetch(op)
         /\ LET elsewhere == [k \in 1 .. Width(op.t) |-> [v |-> Junk, wide |-> op.t \in Wide]]
            IN  Threw(op, 1) \/ (field.found /\ Misdone(op, Pop(1) \o elsewhere, field.exception))
  BY DEF GetField
<1> DEFINE q == [k \in 1 .. Width(op.t) |-> [v |-> Junk, wide |-> op.t \in Wide]]
<1>1. Fetch(op) /\ (Threw(op, 1) \/ \E e \in BOOLEAN : Misdone(op, Pop(1) \o q, e))
  <2>1. \A field \in ResolveField(FALSE) : field.exception \in BOOLEAN
    BY ResolvedFields
  <2> QED
    BY <1>0, <2>1
<1>2. op \in Instrs /\ op.name = "getfield" /\ op \in Objects /\ Plain(op)
  BY <1>0, OfName DEF AllNames, ObjectNames
<1>3. op.t \in FieldTypes /\ op.in = Value("a") /\ op.out = Value(OnStack(op.t)) /\ op.len = 3
  BY <1>2, ObjectForms DEF Is
<1>4. CASE Threw(op, 1)
  <2>1. Excused("threw", op)
    BY <1>2, <1>3, FieldsFit, ExcusedThrow
  <2> QED
    BY <1>1, <1>2, <1>4, <2>1, ThrewOK
<1>5. ASSUME NEW e \in BOOLEAN, Misdone(op, Pop(1) \o q, e) PROVE StepOK
  <2>1. /\ Len(op.in) = 1 /\ op.out \in Seq(Cells) /\ Len(op.out) = Width(op.t)
        /\ Width(op.t) \in 1 .. 2
    <3>1. op.t \in ElementTypes
      BY <1>3, FieldsFit
    <3>2. OnStack(op.t) \in Types /\ Width(OnStack(op.t)) = Width(op.t)
      BY <3>1, ElementsOnStack
    <3> QED
      BY <1>3, <3>2, ValueCells, Widths
  <2>2. q \in Seq(StackCell) /\ Len(q) = Width(op.t)
    <3> DEFINE two == op.t \in Wide m == Width(op.t)
    <3>1. two \in BOOLEAN /\ q = [k \in 1 .. m |-> [v |-> Junk, wide |-> two]] /\ m \in Nat
      BY <2>1
    <3>2. Junk \in Cells
      BY DEF Cells
    <3> HIDE DEF two, m, q
    <3>3. q \in [1 .. m -> StackCell]
      BY <3>1, <3>2 DEF StackCell
    <3> QED
      BY <3>1, <3>3, ListedCells DEF m
  <2> HIDE DEF q
  <2>3. Excused("wrong", op)
    BY <1>2, <1>3, ExcusedWrong
  <2> QED
    <3>1. /\ op.name \notin MoveNames /\ 1 \in Nat /\ 1 <= Len(op.in) /\ 1 = Len(op.in)
          /\ Len(op.in) \in Nat /\ Len(op.out) \in Nat
          /\ Len(q) <= 2 /\ Len(q) <= Len(op.out)
      BY <1>2, <2>1, <2>2 DEF Plain
    <3> QED
      BY <1>1, <1>2, <1>5, <2>1, <2>2, <2>3, <3>1, StraysOff
<1> QED
  BY <1>1, <1>4, <1>5

LEMMA PutFieldOK == ASSUME IInv, PutField PROVE StepOK
<1>0. PICK op \in Named["putfield"] : \E field \in ResolveField(FALSE) :
         /\ Fetch(op)
         /\ Threw(op, 1) \/ (field.found /\ Misdone(op, Pop(1 + Width(op.t)), field.exception))
  BY DEF PutField
<1> DEFINE s == Pop(1 + Width(op.t))
<1>1. Fetch(op) /\ (Threw(op, 1) \/ \E e \in BOOLEAN : Misdone(op, s, e))
  <2>1. \A field \in ResolveField(FALSE) : field.exception \in BOOLEAN
    BY ResolvedFields
  <2> QED
    BY <1>0, <2>1
<1>2. op \in Instrs /\ op.name = "putfield" /\ op \in Objects /\ Plain(op)
  BY <1>0, OfName DEF AllNames, ObjectNames
<1>3. op.t \in FieldTypes
  BY <1>2, ObjectForms
<1>4. CASE Threw(op, 1)
  <2>1. Excused("threw", op)
    BY <1>2, <1>3, FieldsFit, ExcusedThrow
  <2> QED
    BY <1>1, <1>2, <1>4, <2>1, ThrewOK
<1>5. ASSUME NEW e \in BOOLEAN, Misdone(op, s, e) PROVE StepOK
  <2>1. stack \in Seq(StackCell) /\ 1 + Width(op.t) \in Nat
    BY Widths DEF IInv, TypeOK, StackCell
  <2>2. s \in Seq(StackCell) /\ Len(s) <= Len(stack)
    BY <2>1, PopSome
  <2> HIDE DEF s
  <2>3. Fits(op, s)
    BY <2>1, <2>2 DEF Fits
  <2>4. Excused("wrong", op)
    BY <1>2, <1>3, ExcusedWrong
  <2> QED
    BY <1>1, <1>2, <1>5, <2>2, <2>3, <2>4, MisdoneOK
<1> QED
  BY <1>1, <1>4, <1>5

LEMMA ObjectsOK ==
    ASSUME IInv, New \/ AThrow \/ MonitorEnter \/ MonitorExit
    PROVE  StepOK
<1>1. ObjectNames \subseteq AllNames /\ "a" \in Types /\ exception \in BOOLEAN /\ stack \in Seq(StackCell)
  BY DEF AllNames, Types, Narrow, IInv, TypeOK, StackCell
<1>2. ASSUME NEW name \in ObjectNames, NEW op \in Named[name]
      PROVE  op \in Instrs /\ op.name = name /\ op \in Objects /\ Plain(op)
  BY <1>1, <1>2, OfName
<1>3. CASE New
  <2>1. PICK op \in Named["new"] :
           /\ Fetch(op)
           /\ Threw(op, 0) \/ Ran(op, Push(stack, "a"), locals, 3) \/ Strayed(op, Push(stack, "a"))
    BY <1>3 DEF New
  <2>2. op \in Instrs /\ op.name = "new" /\ op \in Objects /\ Plain(op)
    BY <1>2, <2>1 DEF ObjectNames
  <2>3. op.in = <<>> /\ op.out = Value("a") /\ op.len = 3 /\ op.t = "none"
    BY <2>2, ObjectForms DEF Is
  <2>4. CASE Threw(op, 0)
    BY <2>1, <2>2, <2>4, ThrewOK
  <2>5. CASE Ran(op, Push(stack, "a"), locals, 3)
    BY <1>1, <2>1, <2>2, <2>3, <2>5, PushesOnly
  <2>6. CASE Strayed(op, Push(stack, "a"))
    <3>1. Pop(0) = stack
      BY <1>1, PopSome
    <3>2. Push(stack, "a") = Pop(0) \o Pushed("a")
      BY <3>1 DEF Push, Pushed
    <3>3. Misdone(op, Pop(0) \o Pushed("a"), exception)
      BY <2>6, <3>2 DEF Strayed
    <3>4. Excused("wrong", op)
      BY <2>2, <2>3, ExcusedWrong
    <3>5. Pushed("a") \in Seq(StackCell) /\ Len(Pushed("a")) <= 1 /\ Len(Pushed("a")) <= 2
      BY <1>1, OnePushed, Widths
    <3>6. Len(op.in) = 0 /\ op.out \in Seq(Cells) /\ Len(op.out) = 1
      BY <1>1, <2>3, ValueCells, Widths
    <3>7. /\ 0 \in Nat /\ 0 <= Len(op.in) /\ 0 = Len(op.in)
          /\ Len(op.in) \in Nat /\ Len(op.out) \in Nat
          /\ Len(Pushed("a")) <= Len(op.out)
      BY <3>5, <3>6
    <3>8. op.name \notin MoveNames
      BY <2>2 DEF Plain
    <3> QED
      BY <1>1, <2>1, <2>2, <3>3, <3>4, <3>5, <3>6, <3>7, <3>8, StraysOff
  <2> QED
    BY <2>1, <2>4, <2>5, <2>6
<1>4. CASE AThrow
  <2>1. PICK op \in Named["athrow"] : Fetch(op) /\ Threw(op, 1)
    BY <1>4 DEF AThrow
  <2>2. op \in Instrs /\ op.name = "athrow" /\ op \in Objects
    BY <1>2, <2>1 DEF ObjectNames
  <2>3. op.t = "none"
    BY <2>2, ObjectForms
  <2> QED
    BY <2>1, <2>2, <2>3, ExcusedThrow, ThrewOK
<1>5. CASE MonitorEnter \/ MonitorExit
  <2>1. PICK op \in Named["monitorenter"] \cup Named["monitorexit"] :
           Fetch(op) /\ (Threw(op, 1) \/ Ran(op, Pop(1), locals, 1))
    BY <1>5 DEF MonitorEnter, MonitorExit
  <2>2. op \in Instrs /\ op.name \in {"monitorenter", "monitorexit"} /\ op \in Objects /\ Plain(op)
    BY <1>2, <2>1 DEF ObjectNames
  <2>3. Len(op.in) = 1 /\ op.out = <<>> /\ op.len = 1 /\ op.t = "none"
    BY <2>2, ObjectForms, Widths DEF Is
  <2>4. CASE Threw(op, 1)
    BY <2>1, <2>2, <2>3, <2>4, ExcusedThrow, ThrewOK
  <2>5. CASE Ran(op, Pop(1), locals, 1)
    BY <2>1, <2>2, <2>3, <2>5, Drops
  <2> QED
    BY <2>1, <2>4, <2>5
<1> QED
  BY <1>3, <1>4, <1>5

LEMMA CallsOK ==
    ASSUME IInv, InvokeVirtual \/ Invoke \/ Unimplemented
    PROVE  StepOK
<1>1. exception \in BOOLEAN /\ stack \in Seq(StackCell)
  BY DEF IInv, TypeOK, StackCell
<1>2. ASSUME NEW op, Fetch(op) PROVE Fits(op, stack)
  BY <1>1 DEF Fits
<1>3. CASE InvokeVirtual
  <2>1. PICK op \in Named["invokevirtual"] : Fetch(op) /\ \E e \in {exception, TRUE} : Misdone(op, stack, e)
    BY <1>3 DEF InvokeVirtual
  <2>2. op \in Instrs /\ op.name = "invokevirtual" /\ op \in Calls
    BY <2>1, OfName DEF CallNames, AllNames
  <2>3. Excused("wrong", op)
    BY <2>2, CallForms, ExcusedWrong
  <2>4. PICK e \in {exception, TRUE} : Misdone(op, stack, e)
    BY <2>1
  <2>5. e \in BOOLEAN
    BY <1>1, <2>4
  <2> QED
    BY <1>1, <1>2, <2>1, <2>2, <2>3, <2>4, <2>5, MisdoneOK
<1>4. CASE Invoke
  <2>1. PICK name \in {"invokespecial", "invokestatic", "invokeinterface"} :
           \E op \in Named[name] : Fetch(op) /\ Strayed(op, stack)
    BY <1>4 DEF Invoke
  <2>2. PICK op \in Named[name] : Fetch(op) /\ Strayed(op, stack)
    BY <2>1
  <2>3. op \in Instrs /\ op.name = name /\ op \in Calls
    BY <2>1, <2>2, OfName DEF CallNames, AllNames
  <2>4. Excused("wrong", op)
    BY <2>1, <2>3, CallForms, ExcusedWrong
  <2> QED
    BY <1>1, <1>2, <2>2, <2>3, <2>4, MisdoneOK DEF Strayed
<1>5. CASE Unimplemented
  <2>1. PICK name \in {"checkcast", "instanceof", "invokedynamic"} :
           \E op \in Named[name] : Fetch(op) /\ Threw(op, 0)
    BY <1>5 DEF Unimplemented
  <2>2. PICK op \in Named[name] : Fetch(op) /\ Threw(op, 0)
    BY <2>1
  <2>3. op \in Instrs
    BY <2>1, <2>2, OfName DEF CallNames, ObjectNames, AllNames
  <2> QED
    BY <2>2, <2>3, ThrewOK
<1> QED
  BY <1>3, <1>4, <1>5

-----------------------------------------------------------------------------
(* Moving operands.                                                        *)

LEMMA MoveTable ==
    /\ Taken(Moves["pop"]) = 1 /\ Moves["pop"].out = <<>>
    /\ Taken(Moves["pop2"]) = 2 /\ Moves["pop2"].out = <<>>
    /\ Taken(Moves["dup"]) = 1 /\ Moves["dup"].out = <<1, 1>>
    /\ Taken(Moves["dup_x1"]) = 2 /\ Moves["dup_x1"].out = <<2, 1, 2>>
    /\ Taken(Moves["dup_x2"]) = 3 /\ Moves["dup_x2"].out = <<3, 1, 2, 3>>
    /\ Taken(Moves["dup2"]) = 2 /\ Moves["dup2"].out = <<1, 2, 1, 2>>
    /\ Taken(Moves["dup2_x1"]) = 3 /\ Moves["dup2_x1"].out = <<2, 3, 1, 2, 3>>
    /\ Taken(Moves["dup2_x2"]) = 4 /\ Moves["dup2_x2"].out = <<3, 4, 1, 2, 3, 4>>
    /\ Taken(Moves["swap"]) = 2 /\ Moves["swap"].out = <<2, 1>>
BY DEF Moves, Taken

LEMMA OutSizes ==
    ASSUME NEW name \in MoveNames
    PROVE  /\ Moves[name].out \in Seq(1 .. Taken(Moves[name]))
           /\ Len(Moves[name].out) <= Taken(Moves[name]) + 2
<1>1. CASE name = "pop"
  <2>1. <<>> \in Seq(1 .. 1) /\ Len(<<>>) <= 1 + 2
    OBVIOUS
  <2> QED
    BY <1>1, <2>1, MoveTable
<1>2. CASE name = "pop2"
  <2>1. <<>> \in Seq(1 .. 2) /\ Len(<<>>) <= 2 + 2
    OBVIOUS
  <2> QED
    BY <1>2, <2>1, MoveTable
<1>3. CASE name = "dup"
  <2>1. <<1, 1>> \in Seq(1 .. 1) /\ Len(<<1, 1>>) <= 1 + 2
    OBVIOUS
  <2> QED
    BY <1>3, <2>1, MoveTable
<1>4. CASE name = "dup_x1"
  <2>1. <<2, 1, 2>> \in Seq(1 .. 2) /\ Len(<<2, 1, 2>>) <= 2 + 2
    OBVIOUS
  <2> QED
    BY <1>4, <2>1, MoveTable
<1>5. CASE name = "dup_x2"
  <2>1. <<3, 1, 2, 3>> \in Seq(1 .. 3) /\ Len(<<3, 1, 2, 3>>) <= 3 + 2
    OBVIOUS
  <2> QED
    BY <1>5, <2>1, MoveTable
<1>6. CASE name = "dup2"
  <2>1. <<1, 2, 1, 2>> \in Seq(1 .. 2) /\ Len(<<1, 2, 1, 2>>) <= 2 + 2
    OBVIOUS
  <2> QED
    BY <1>6, <2>1, MoveTable
<1>7. CASE name = "dup2_x1"
  <2>1. <<2, 3, 1, 2, 3>> \in Seq(1 .. 3) /\ Len(<<2, 3, 1, 2, 3>>) <= 3 + 2
    OBVIOUS
  <2> QED
    BY <1>7, <2>1, MoveTable
<1>8. CASE name = "dup2_x2"
  <2>1. <<3, 4, 1, 2, 3, 4>> \in Seq(1 .. 4) /\ Len(<<3, 4, 1, 2, 3, 4>>) <= 4 + 2
    OBVIOUS
  <2> QED
    BY <1>8, <2>1, MoveTable
<1>9. CASE name = "swap"
  <2>1. <<2, 1>> \in Seq(1 .. 2) /\ Len(<<2, 1>>) <= 2 + 2
    OBVIOUS
  <2> QED
    BY <1>9, <2>1, MoveTable
<1> QED
  BY <1>1, <1>2, <1>3, <1>4, <1>5, <1>6, <1>7, <1>8, <1>9 DEF MoveNames

\* What of the stack an instruction that moves cells works on.
LEMMA Moved ==
    ASSUME IInv, NEW op \in Moving, Fetch(op)
    PROVE  /\ stack \in Seq(StackCell) /\ lost = <<>> /\ Right(stack) /\ op \in Instrs
           /\ op.name \in MoveNames /\ op.name \notin Writes
           /\ Taken(Moves[op.name]) \in 1 .. Len(stack)
           /\ Moves[op.name].out \in Seq(1 .. Taken(Moves[op.name]))
           /\ Len(Moves[op.name].out) <= Taken(Moves[op.name]) + 2
<1>1. stack \in Seq(StackCell) /\ lost = <<>> /\ Right(stack) /\ op \in Instrs
  BY DEF IInv, TypeOK, StackCell, Fetch, Instrs
<1>2. op.name \in MoveNames
  BY MovingNamed
<1>3. op.name \notin Writes
  BY <1>2 DEF MoveNames, Writes
<1>4. Taken(Moves[op.name]) \in 1 .. 4
  BY FewTaken
<1>5. Len(stack) - Taken(Moves[op.name]) >= 0
  <2>1. Len(Contents(stack)) = Len(stack)
    BY <1>1, ContentsOf
  <2> QED
    BY <1>2, <2>1, MovesByName DEF Fetch, CanRun
<1>6. /\ Moves[op.name].out \in Seq(1 .. Taken(Moves[op.name]))
      /\ Len(Moves[op.name].out) <= Taken(Moves[op.name]) + 2
  BY <1>2, OutSizes
<1>7. Taken(Moves[op.name]) \in 1 .. Len(stack)
  <2> DEFINE d == Len(stack) t == Taken(Moves[op.name])
  <2>1. d \in Nat /\ t \in 1 .. 4 /\ d - t >= 0
    BY <1>1, <1>4, <1>5
  <2> HIDE DEF d, t
  <2>2. t \in 1 .. d
    BY <2>1
  <2> QED
    BY <2>2 DEF d, t
<1> QED
  BY <1>1, <1>2, <1>3, <1>6, <1>7

LEMMA MovedCells ==
    ASSUME IInv, NEW op \in Moving, Fetch(op)
    PROVE  LET m == Moves[op.name]
               base == Len(stack) - Taken(m)
               after == CellsAfter(op, Contents(stack))
           IN  /\ after \in Seq(Cells) /\ Len(after) = base + Len(m.out)
               /\ \A k \in 1 .. base : after[k] = stack[k].v
               /\ \A k \in base + 1 .. base + Len(m.out) : after[k] = stack[base + m.out[k - base]].v
<1> DEFINE m == Moves[op.name]
           out == m.out
           t == Taken(m)
           base == Len(stack) - t
           c == Contents(stack)
           x == SubSeq(c, 1, base)
           y == [k \in DOMAIN out |-> c[base + out[k]]]
           after == CellsAfter(op, c)
           d == Len(stack)
           n == Len(out)
<1>1. /\ stack \in Seq(StackCell) /\ t \in 1 .. d /\ out \in Seq(1 .. t) /\ op.name \in MoveNames
  BY Moved
<1>2. c \in Seq(Cells) /\ Len(c) = d /\ \A k \in 1 .. d : c[k] = stack[k].v
  BY <1>1, ContentsOf
<1>3. after = x \o y
  BY <1>1, <1>2, MovesByName DEF CellsAfter
<1>4. d \in Nat /\ n \in Nat /\ t \in 1 .. d /\ base = d - t /\ base \in 0 .. d
  <2>1. d \in Nat /\ n \in Nat
    BY <1>1
  <2>2. base = d - t
    OBVIOUS
  <2> HIDE DEF d, t, n, base
  <2> QED
    BY <1>1, <2>1, <2>2
<1>5. DOMAIN out = 1 .. n /\ \A k \in 1 .. n : out[k] \in 1 .. t
  <2> HIDE DEF t, out
  <2> QED
    BY <1>1
<1> HIDE DEF t, base, d, c, out, n
<1>6. x \in Seq(Cells) /\ Len(x) = base /\ \A k \in 1 .. base : x[k] = c[k]
  <2>1. \A j \in 0 .. Len(c) : /\ SubSeq(c, 1, j) \in Seq(Cells) /\ Len(SubSeq(c, 1, j)) = j
                               /\ \A k \in 1 .. j : SubSeq(c, 1, j)[k] = c[k]
    BY <1>2
  <2> QED
    BY <1>2, <1>4, <2>1
<1> HIDE DEF x
<1>7. y \in Seq(Cells) /\ Len(y) = n /\ \A k \in 1 .. n : y[k] = c[base + out[k]]
  <2>1. y = [k \in 1 .. n |-> c[base + out[k]]]
    BY <1>5
  <2>2. \A k \in 1 .. n : base + out[k] \in 1 .. d
    BY <1>4, <1>5
  <2>3. \A k \in 1 .. n : c[base + out[k]] \in Cells
    BY <1>2, <2>2
  <2> HIDE DEF y
  <2>4. y \in [1 .. n -> Cells]
    BY <2>1, <2>3
  <2> QED
    BY <1>4, <2>1, <2>4
<1> HIDE DEF y, after
<1>8. /\ after \in Seq(Cells) /\ Len(after) = base + n
      /\ \A k \in 1 .. base : after[k] = x[k]
      /\ \A k \in base + 1 .. base + n : after[k] = y[k - base]
  <2>1. /\ x \o y \in Seq(Cells) /\ Len(x \o y) = Len(x) + Len(y)
        /\ \A k \in 1 .. Len(x) : (x \o y)[k] = x[k]
        /\ \A k \in Len(x) + 1 .. Len(x) + Len(y) : (x \o y)[k] = y[k - Len(x)]
    <3>1. x \in Seq(Cells) /\ y \in Seq(Cells)
      BY <1>6, <1>7
    <3> QED
      BY <3>1, Joined
  <2> QED
    BY <1>3, <1>6, <1>7, <2>1
<1>9. \A k \in 1 .. base : after[k] = stack[k].v
  <2>1. \A k \in 1 .. base : k \in 1 .. d
    BY <1>4
  <2> QED
    BY <1>2, <1>6, <1>8, <2>1
<1>10. \A k \in base + 1 .. base + n : after[k] = stack[base + out[k - base]].v
  <2> TAKE k \in base + 1 .. base + n
  <2>1. k - base \in 1 .. n
    BY <1>4
  <2>2. base + out[k - base] \in 1 .. d
    BY <1>4, <1>5, <2>1
  <2> QED
    BY <1>2, <1>7, <1>8, <2>1, <2>2
<1> QED
  BY <1>8, <1>9, <1>10 DEF after, base, d, t, out, n, c

LEMMA MoveRuns ==
    ASSUME IInv, NEW op \in Moving, Fetch(op), NEW q \in Seq(StackCell), NEW t,
           t = Taken(Moves[op.name]), Len(q) = Len(Moves[op.name].out),
           \A k \in 1 .. Len(q) : q[k] = stack[Len(stack) - t + Moves[op.name].out[k]],
           Ran(op, Pop(t) \o q, locals, 1)
    PROVE  StepOK
<1> DEFINE m == Moves[op.name]
           out == m.out
           base == Len(stack) - t
           after == CellsAfter(op, Contents(stack))
           d == Len(stack)
           n == Len(q)
           s == Pop(t) \o q
<1>1. /\ stack \in Seq(StackCell) /\ lost = <<>> /\ Right(stack) /\ op \in Instrs
      /\ t \in 1 .. d /\ out \in Seq(1 .. t) /\ n <= t + 2 /\ op.name \notin Writes
  BY Moved
<1>2. /\ after \in Seq(Cells) /\ Len(after) = base + n
      /\ \A k \in 1 .. base : after[k] = stack[k].v
      /\ \A k \in base + 1 .. base + n : after[k] = stack[base + out[k - base]].v
  BY MovedCells
<1>3. d \in Nat /\ n \in Nat /\ t \in 1 .. d /\ base = d - t /\ base \in 0 .. d /\ t \in Nat /\ t <= d
  <2>1. d \in Nat /\ n \in Nat /\ base = d - t
    BY <1>1
  <2> HIDE DEF d, n, base
  <2> QED
    BY <1>1, <2>1
<1>4. \A k \in 1 .. n : q[k] = stack[base + out[k]] /\ out[k] \in 1 .. t
  <2> HIDE DEF out
  <2>1. Len(out) = n /\ \A k \in 1 .. n : q[k] = stack[base + out[k]]
    BY DEF out
  <2> QED
    BY <1>1, <2>1
<1> HIDE DEF base, n, out, after, d
<1>5. /\ Pop(t) \in Seq(StackCell) /\ Len(Pop(t)) = base /\ Right(Pop(t))
      /\ \A k \in 1 .. base : Pop(t)[k] = stack[k]
  <2>1. t <= Len(stack) /\ t \in Nat
    BY <1>3 DEF d
  <2> QED
    BY <1>1, <2>1, Popped, PopSome DEF base
<1>6. \A k \in 1 .. n : base + out[k] \in 1 .. d
  BY <1>3, <1>4
<1>7. Right(q)
  <2>1. DOMAIN q = 1 .. n /\ DOMAIN stack = 1 .. d
    BY <1>1 DEF n, d
  <2>2. \A k \in 1 .. d : stack[k].wide <=> stack[k].v[1] \in Wide
    BY <1>1, <2>1 DEF Right
  <2>3. \A k \in 1 .. n : q[k].wide <=> q[k].v[1] \in Wide
    BY <1>4, <1>6, <2>2
  <2> QED
    BY <2>1, <2>3 DEF Right
<1>8. s \in Seq(StackCell) /\ Len(s) = base + n /\ Right(s)
  BY <1>5, <1>7, Piled DEF n
<1>9. /\ \A k \in 1 .. base : s[k] = Pop(t)[k]
      /\ \A k \in base + 1 .. base + n : s[k] = q[k - base]
  BY <1>5, Joined DEF n
<1>10. Contents(s) \in Seq(Cells) /\ Len(Contents(s)) = base + n /\ \A k \in 1 .. base + n : Contents(s)[k] = s[k].v
  BY <1>8, ContentsOf
<1> HIDE DEF s
<1>11. \A k \in 1 .. base + n : s[k].v = after[k]
  <2> TAKE k \in 1 .. base + n
  <2>0. base \in Nat /\ n \in Nat /\ k \in Nat /\ 1 <= k /\ k <= base + n
    BY <1>3
  <2>1. CASE k <= base
    <3>1. k \in 1 .. base
      BY <2>0, <2>1
    <3>2. after[k] = stack[k].v
      BY <1>2, <3>1
    <3>3. Pop(t)[k] = stack[k] /\ s[k] = Pop(t)[k]
      BY <1>5, <1>9, <3>1
    <3> QED
      BY <3>2, <3>3
  <2>2. CASE ~(k <= base)
    <3>1. k \in base + 1 .. base + n /\ k - base \in 1 .. n
      BY <2>0, <2>2
    <3>2. after[k] = stack[base + out[k - base]].v
      BY <1>2, <3>1
    <3>3. q[k - base] = stack[base + out[k - base]] /\ s[k] = q[k - base]
      BY <1>4, <1>9, <3>1
    <3> QED
      BY <3>2, <3>3
  <2> QED
    BY <2>1, <2>2
<1>12. Contents(s) = after
  BY <1>2, <1>10, <1>11, SameCells
<1>13. locals \in [0 .. NumLocals - 1 -> Cells] /\ locals = LocalsAfter(op, locals)
  BY <1>1, Unwritten
<1>14. AsPromised(op, s, locals)
  <2>1. Contents(s) = CellsAfter(op, Contents(stack))
    BY <1>12 DEF after
  <2>2. \A k \in DOMAIN s : s[k].wide <=> s[k].v[1] \in Wide
    BY <1>8 DEF Right
  <2> QED
    BY <1>13, <2>1, <2>2 DEF AsPromised
<1>15. Fits(op, s)
  <2>1. Len(s) <= d + 2
    <3>1. d \in Nat /\ n \in Nat /\ t \in Nat /\ base = d - t /\ n <= t + 2
      BY <1>1, <1>3
    <3>2. base + n <= d + 2
      BY <3>1
    <3> QED
      BY <1>8, <3>2
  <2>2. Len(CellsAfter(op, Contents(stack))) = Len(s)
    BY <1>2, <1>8 DEF after
  <2> QED
    BY <2>1, <2>2 DEF Fits, Grows, d
<1>16. op.len = 1
  BY MovingForms DEF Is
<1>17. Ran(op, s, locals, 1)
  BY DEF s
<1> QED
  BY <1>1, <1>8, <1>13, <1>14, <1>15, <1>16, <1>17, RanOK

LEMMA DiscardOK == ASSUME IInv, Discard PROVE StepOK
<1>1. PICK op \in Named["pop"] \cup Named["pop2"] :
         Fetch(op) /\ Ran(op, Pop(IF op.name = "pop" THEN 1 ELSE 2), locals, 1)
  BY DEF Discard
<1>2. op.name \in {"pop", "pop2"} /\ op \in Moving
  <2>1. {"pop", "pop2"} \subseteq AllNames /\ {"pop", "pop2"} \subseteq MoveNames
    BY DEF AllNames, MoveNames
  <2> QED
    BY <1>1, <2>1, OfName
<1> DEFINE t == IF op.name = "pop" THEN 1 ELSE 2
<1>3. t = Taken(Moves[op.name]) /\ Moves[op.name].out = <<>> /\ t \in Nat
  BY <1>2, MoveTable
<1>4. Ran(op, Pop(t), locals, 1)
  BY <1>1
<1> HIDE DEF t
<1>5. Pop(t) \in Seq(StackCell)
  BY <1>3, PopSome DEF IInv, TypeOK, StackCell
<1>6. Pop(t) \o <<>> = Pop(t)
  BY <1>5
<1> DEFINE q == <<>>
<1>7. q \in Seq(StackCell) /\ Len(q) = Len(Moves[op.name].out) /\ 1 .. Len(q) = {}
  BY <1>3
<1>8. Ran(op, Pop(t) \o q, locals, 1)
  BY <1>4, <1>6
<1> HIDE DEF q
<1> QED
  BY <1>1, <1>2, <1>3, <1>7, <1>8, MoveRuns

LEMMA PeekedCells == Peeked \subseteq StackCell
BY DEF Peeked, StackCell, Cells

LEMMA DupOK == ASSUME IInv, Dup \/ Dup2 PROVE StepOK
<1>1. stack \in Seq(StackCell) /\ locals \in [0 .. NumLocals - 1 -> Cells]
  BY DEF IInv, TypeOK, StackCell
<1>2. ASSUME NEW name \in {"dup", "dup2"}, NEW op \in Named[name], Fetch(op),
             NEW q \in Seq(StackCell), Len(q) = (IF name = "dup" THEN 1 ELSE 2), Ran(op, stack \o q, locals, 1)
      PROVE  StepOK
  <2>1. op \in Moving /\ op \in Instrs /\ op.name = name
    BY <1>2, OfName DEF AllNames, MoveNames
  <2>2. op.t = "none"
    BY <2>1, MovingForms
  <2>3. Excused("wrong", op)
    BY <1>2, <2>1, <2>2, ExcusedWrong
  <2>4. stack \o q \in Seq(StackCell) /\ Len(stack \o q) = Len(stack) + Len(q)
    BY <1>1, Piled
  <2>5. Len(CellsAfter(op, Contents(stack))) = Len(stack) - Taken(Moves[op.name]) + Len(Moves[op.name].out)
    BY <1>2, <2>1, MovedCells
  <2>6. Len(CellsAfter(op, Contents(stack))) = Len(stack) + Len(q)
    <3>1. CASE name = "dup"
      <4>1. Taken(Moves[op.name]) = 1 /\ Len(Moves[op.name].out) = 2 /\ Len(q) = 1
        BY <1>2, <2>1, <3>1, MoveTable
      <4> QED
        BY <1>1, <2>5, <4>1
    <3>2. CASE name = "dup2"
      <4>1. Taken(Moves[op.name]) = 2 /\ Len(Moves[op.name].out) = 4 /\ Len(q) = 2
        BY <1>2, <2>1, <3>2, MoveTable
      <4> QED
        BY <1>1, <2>5, <4>1
    <3> QED
      BY <1>2, <3>1, <3>2
  <2>7. Fits(op, stack \o q)
    <3>1. Len(stack) \in Nat /\ Len(q) <= 2
      BY <1>1, <1>2
    <3> QED
      BY <2>4, <2>6, <3>1 DEF Fits, Grows
  <2> QED
    BY <1>1, <1>2, <2>1, <2>3, <2>4, <2>7, RanOK
<1>3. CASE Dup
  <2>1. PICK op \in Named["dup"] : \E copy \in Peeked : Fetch(op) /\ Ran(op, Append(stack, copy), locals, 1)
    BY <1>3 DEF Dup
  <2>2. PICK copy \in Peeked : Fetch(op) /\ Ran(op, Append(stack, copy), locals, 1)
    BY <2>1
  <2> DEFINE q == <<copy>>
  <2>3. copy \in StackCell
    BY <2>2, PeekedCells
  <2>4. q \in Seq(StackCell) /\ Len(q) = 1 /\ Append(stack, copy) = stack \o q
    BY <1>1, <2>3
  <2> HIDE DEF q
  <2>5. Ran(op, stack \o q, locals, 1)
    BY <2>2, <2>4
  <2> QED
    BY <1>2, <2>1, <2>2, <2>4, <2>5
<1>4. CASE Dup2
  <2>1. PICK op \in Named["dup2"] : \E next, copy \in Peeked : Fetch(op) /\ Ran(op, stack \o <<next, copy>>, locals, 1)
    BY <1>4 DEF Dup2
  <2>2. PICK next \in Peeked, copy \in Peeked : Fetch(op) /\ Ran(op, stack \o <<next, copy>>, locals, 1)
    BY <2>1
  <2> DEFINE q == <<next, copy>>
  <2>3. next \in StackCell /\ copy \in StackCell
    BY <2>2, PeekedCells
  <2>4. q \in Seq(StackCell) /\ Len(q) = 2
    BY <2>3
  <2>5. Ran(op, stack \o q, locals, 1)
    BY <2>2
  <2> HIDE DEF q
  <2> QED
    BY <1>2, <2>1, <2>2, <2>4, <2>5
<1> QED
  BY <1>3, <1>4

\* Shuffle counts from the top what Moves counts from the bottom.
LEMMA ShuffledMoves ==
    ASSUME NEW name \in DOMAIN Shuffle
    PROVE  /\ name \in MoveNames /\ Shuffle[name].m = Taken(Moves[name])
           /\ DOMAIN Shuffle[name].out = 1 .. Len(Moves[name].out)
           /\ \A k \in 1 .. Len(Moves[name].out) : Shuffle[name].out[k] = Shuffle[name].m - Moves[name].out[k]
<1>1. name \in {"dup_x1", "dup_x2", "dup2_x1", "dup2_x2", "swap"}
  BY DEF Shuffle
<1>2. CASE name = "dup_x1"
  <2>1. Shuffle[name] = [m |-> 2, out |-> <<0, 1, 0>>] /\ Taken(Moves[name]) = 2 /\ Moves[name].out = <<2, 1, 2>>
    BY <1>2, MoveTable DEF Shuffle
  <2> QED
    BY <1>2, <2>1 DEF MoveNames
<1>3. CASE name = "dup_x2"
  <2>1. Shuffle[name] = [m |-> 3, out |-> <<0, 2, 1, 0>>] /\ Taken(Moves[name]) = 3 /\ Moves[name].out = <<3, 1, 2, 3>>
    BY <1>3, MoveTable DEF Shuffle
  <2> QED
    BY <1>3, <2>1 DEF MoveNames
<1>4. CASE name = "dup2_x1"
  <2>1. Shuffle[name] = [m |-> 3, out |-> <<1, 0, 2, 1, 0>>] /\ Taken(Moves[name]) = 3 /\ Moves[name].out = <<2, 3, 1, 2, 3>>
    BY <1>4, MoveTable DEF Shuffle
  <2> QED
    BY <1>4, <2>1 DEF MoveNames
<1>5. CASE name = "dup2_x2"
  <2>1. Shuffle[name] = [m |-> 4, out |-> <<1, 0, 3, 2, 1, 0>>] /\ Taken(Moves[name]) = 4 /\ Moves[name].out = <<3, 4, 1, 2, 3, 4>>
    BY <1>5, MoveTable DEF Shuffle
  <2> QED
    BY <1>5, <2>1 DEF MoveNames
<1>6. CASE name = "swap"
  <2>1. Shuffle[name] = [m |-> 2, out |-> <<0, 1>>] /\ Taken(Moves[name]) = 2 /\ Moves[name].out = <<2, 1>>
    BY <1>6, MoveTable DEF Shuffle
  <2> QED
    BY <1>6, <2>1 DEF MoveNames
<1> QED
  BY <1>1, <1>2, <1>3, <1>4, <1>5, <1>6

LEMMA ReorderOK == ASSUME IInv, Reorder PROVE StepOK
<1>0. PICK name \in DOMAIN Shuffle : \E op \in Named[name] :
         /\ Fetch(op)
         /\ LET h == Shuffle[name]
            IN  Ran(op, Pop(h.m) \o [k \in DOMAIN h.out |-> Top(h.out[k])], locals, 1)
  BY DEF Reorder
<1>1. PICK op \in Named[name] :
         /\ Fetch(op)
         /\ LET h == Shuffle[name]
            IN  Ran(op, Pop(h.m) \o [k \in DOMAIN h.out |-> Top(h.out[k])], locals, 1)
  BY <1>0
<1> DEFINE h == Shuffle[name]
           t == Taken(Moves[name])
           out == Moves[name].out
           n == Len(out)
           q == [k \in DOMAIN h.out |-> Top(h.out[k])]
<1>2. name \in MoveNames /\ h.m = t /\ DOMAIN h.out = 1 .. n /\ \A k \in 1 .. n : h.out[k] = t - out[k]
  BY <1>0, ShuffledMoves
<1>3. op \in Moving /\ op.name = name
  BY <1>1, <1>2, OfName DEF AllNames
<1>4. stack \in Seq(StackCell) /\ t \in 1 .. Len(stack) /\ out \in Seq(1 .. t)
  BY <1>1, <1>3, Moved
<1>5. Ran(op, Pop(t) \o q, locals, 1)
  BY <1>1, <1>2
<1> DEFINE d == Len(stack)
<1>6. d \in Nat /\ n \in Nat /\ \A k \in 1 .. n : out[k] \in 1 .. t
  <2> HIDE DEF t, out
  <2> QED
    BY <1>4
<1>7. q = [k \in 1 .. n |-> stack[d - h.out[k]]]
  BY <1>2 DEF Top
<1> HIDE DEF h, t, out, n, d, q
<1>8. \A k \in 1 .. n : d - h.out[k] = d - t + out[k] /\ d - t + out[k] \in 1 .. d
  <2> TAKE k \in 1 .. n
  <2>1. h.out[k] = t - out[k] /\ out[k] \in 1 .. t /\ t \in 1 .. d
    BY <1>2, <1>4, <1>6 DEF d
  <2> QED
    BY <1>6, <2>1
<1>9. \A k \in 1 .. n : q[k] = stack[d - t + out[k]]
  BY <1>7, <1>8
<1>10. q \in Seq(StackCell) /\ Len(q) = n
  <2>1. \A k \in 1 .. d : stack[k] \in StackCell
    BY <1>4 DEF d
  <2>2. q \in [1 .. n -> StackCell]
    BY <1>7, <1>8, <2>1
  <2> QED
    BY <1>6, <2>2, ListedCells
<1> QED
  BY <1>1, <1>3, <1>5, <1>9, <1>10, MoveRuns DEF t, n, out, d

-----------------------------------------------------------------------------
(* Local variables.                                                        *)

LEMMA LocalsOf ==
    ASSUME NEW name \in LocalNames, NEW op \in Named[name]
    PROVE  op \in Instrs /\ op.name = name /\ op \in LocalOps /\ name \notin MoveNames
BY OfName DEF AllNames

LEMMA LoadsOK == ASSUME IInv, XLoad \/ XLoadN PROVE StepOK
<1>1. PICK op \in Named["load"] \cup Named["wide_load"] \cup Named["load_n"] :
         Fetch(op) /\ \E len : Ran(op, PushLocal(op.n, op.t), locals, len)
                              /\ (op \in Named["load"] \cup Named["wide_load"] =>
                                     len = IF WideForm(op) THEN 4 ELSE 2)
                              /\ (op \in Named["load_n"] => len = 1)
  <2>1. CASE XLoad
    <3>1. PICK op \in Named["load"] \cup Named["wide_load"] :
             Fetch(op) /\ Ran(op, PushLocal(op.n, op.t), locals, IF WideForm(op) THEN 4 ELSE 2)
      BY <2>1 DEF XLoad
    <3>2. op \notin Named["load_n"]
      BY <3>1, LocalsOf DEF LocalNames, Reads, Writes
    <3> QED
      BY <3>1, <3>2
  <2>2. CASE XLoadN
    <3>1. PICK op \in Named["load_n"] : Fetch(op) /\ Ran(op, PushLocal(op.n, op.t), locals, 1)
      BY <2>2 DEF XLoadN
    <3>2. op \notin Named["load"] \cup Named["wide_load"]
      BY <3>1, LocalsOf DEF LocalNames, Reads, Writes
    <3> QED
      BY <3>1, <3>2
  <2> QED
    BY <2>1, <2>2
<1>2. /\ op \in Instrs /\ op \in LocalOps /\ op.name \in {"load", "load_n", "wide_load"} /\ op.name \notin MoveNames
      /\ op.name = "load_n" <=> op \in Named["load_n"]
  BY <1>1, LocalsOf DEF LocalNames, Reads, Writes
<1>3. /\ op.n \in 0 .. NumLocals - 1 /\ op.t \in Types /\ op.in = <<>> /\ op.out = Value(op.t)
      /\ op.len = IF op.name = "load_n" THEN 1 ELSE IF WideForm(op) THEN 4 ELSE 2
  BY <1>2, LocalForms DEF Is, WideForm
<1>4. Ran(op, PushLocal(op.n, op.t), locals, op.len)
  BY <1>1, <1>2, <1>3
<1>5. LocalHolds(locals, op.n, op.t)
  BY <1>1, <1>2, MovesByName DEF Fetch, CanRun, Reads
<1>6. PushLocal(op.n, op.t) = Push(stack, op.t)
  BY <1>5 DEF PushLocal, Push, LocalHolds
<1>7. Plain(op)
  BY <1>2 DEF Plain, Writes
<1> QED
  BY <1>1, <1>2, <1>3, <1>4, <1>6, <1>7, PushesOnly

LEMMA IincOK == ASSUME IInv, Iinc PROVE StepOK
<1>1. PICK op \in Named["iinc"] \cup Named["wide_iinc"] :
         /\ Fetch(op)
         /\ Ran(op, stack, [locals EXCEPT ![op.n] = <<"i", 1>>], IF WideForm(op) THEN 6 ELSE 3)
  BY DEF Iinc
<1>2. op \in Instrs /\ op \in LocalOps /\ op.name \in {"iinc", "wide_iinc"} /\ op.name \notin MoveNames
  BY <1>1, LocalsOf DEF LocalNames, Reads, Writes
<1>3. /\ op.n \in 0 .. NumLocals - 1 /\ op.t = "i" /\ op.in = <<>> /\ op.out = <<>>
      /\ op.len = IF WideForm(op) THEN 6 ELSE 3
  BY <1>2, LocalForms DEF Is, WideForm
<1>4. LocalHolds(locals, op.n, "i")
  BY <1>1, <1>2, <1>3, MovesByName DEF Fetch, CanRun, Reads
<1>5. locals[op.n] = <<"i", 1>>
  <2>1. 1 \in 1 .. Width("i") /\ Value("i")[1] = <<"i", 1>>
    BY Widths, OneValue
  <2>2. locals[op.n + 1 - 1] = Value("i")[1]
    BY <1>4, <2>1 DEF LocalHolds
  <2>3. op.n + 1 - 1 = op.n
    BY <1>3
  <2> QED
    BY <2>1, <2>2, <2>3
<1>6. [locals EXCEPT ![op.n] = <<"i", 1>>] = locals
  BY <1>3, <1>5 DEF IInv, TypeOK
<1>7. Ran(op, stack, locals, op.len)
  BY <1>1, <1>3, <1>6
<1>8. Plain(op)
  BY <1>2 DEF Plain, Writes
<1> QED
  BY <1>1, <1>2, <1>3, <1>7, <1>8, LeavesAlone

\* What a store writes are cells.
LEMMA WrittenCells ==
    ASSUME IInv, NEW n, NEW wide \in BOOLEAN, Len(stack) >= 1, wide => Len(stack) >= 2
    PROVE  WriteLocal(n, wide) \in [0 .. NumLocals - 1 -> Cells]
<1> DEFINE d == Len(stack)
<1>1. stack \in Seq(StackCell) /\ d \in Nat /\ \A k \in 1 .. d : stack[k] \in StackCell
  <2>1. stack \in Seq(StackCell)
    BY DEF IInv, TypeOK, StackCell
  <2> QED
    BY <2>1
<1>2. \A k \in 1 .. d : stack[k].v \in Cells
  BY <1>1 DEF StackCell
<1>3. Top(0).v \in Cells /\ (wide => Top(1).v \in Cells)
  <2>1. Top(0) = stack[d - 0] /\ Top(1) = stack[d - 1]
    BY DEF Top
  <2>2. d >= 1 /\ (wide => d >= 2)
    OBVIOUS
  <2> HIDE DEF d
  <2>3. d - 0 \in 1 .. d /\ (wide => d - 1 \in 1 .. d)
    BY <1>1, <2>2
  <2> QED
    BY <1>2, <2>1, <2>3
<1>4. locals \in [0 .. NumLocals - 1 -> Cells]
  BY DEF IInv, TypeOK
<1> QED
  BY <1>3, <1>4 DEF WriteLocal

LEMMA XStoreOK == ASSUME IInv, XStore PROVE StepOK
<1>0. PICK op \in Named["store"] \cup Named["wide_store"] : \E wide \in TellsWide(0) :
         Fetch(op) /\ StoreTop(op, wide, IF WideForm(op) THEN 4 ELSE 2)
  BY DEF XStore
<1>1. PICK wide \in TellsWide(0) : Fetch(op) /\ StoreTop(op, wide, IF WideForm(op) THEN 4 ELSE 2)
  BY <1>0
<1>2. op \in Instrs /\ op \in LocalOps /\ op.name \in {"store", "wide_store"} /\ op.name \notin MoveNames
  BY <1>0, LocalsOf DEF LocalNames, Reads, Writes
<1>3. /\ op.n \in 0 .. NumLocals - 1 /\ op.t \in Types /\ op.in = Value(op.t) /\ op.out = <<>>
      /\ op.len = IF WideForm(op) THEN 4 ELSE 2
  BY <1>2, LocalForms DEF Is, WideForm
<1> DEFINE w == Width(op.t) d == Len(stack)
<1>4. w \in 1 .. 2 /\ (w = IF op.t \in Wide THEN 2 ELSE 1) /\ Len(op.in) = w /\ \A k \in 1 .. w : op.in[k] = <<op.t, k>>
  <2>1. w = IF op.t \in Wide THEN 2 ELSE 1
    BY DEF Width
  <2>2. w \in 1 .. 2 /\ Len(op.in) = w /\ \A k \in 1 .. w : op.in[k] = <<op.t, k>>
    BY <1>3, OneValue
  <2> HIDE DEF w
  <2> QED
    BY <2>1, <2>2
<1> HIDE DEF w
<1>5. /\ d >= w /\ stack \in Seq(StackCell) /\ d \in Nat
      /\ \A k \in 1 .. w : stack[d - w + k].v = <<op.t, k>>
      /\ wide <=> op.t \in Wide
  <2>1. Len(op.in) \in Nat \ {0}
    BY <1>4
  <2>2. /\ Len(stack) >= Len(op.in) /\ stack \in Seq(StackCell)
        /\ \A k \in 1 .. Len(op.in) : stack[Len(stack) - Len(op.in) + k].v = op.in[k]
        /\ wide <=> op.in[Len(op.in)][1] \in Wide
    BY <1>1, <1>2, <2>1, TopTag
  <2>3. op.in[w] = <<op.t, w>>
    <3>1. w \in 1 .. w
      BY <1>4
    <3> QED
      BY <1>4, <3>1
  <2>4. d \in Nat
    BY <2>2
  <2> QED
    BY <1>4, <2>2, <2>3, <2>4
<1> HIDE DEF d
<1>6. w = (IF wide THEN 2 ELSE 1) /\ wide \in BOOLEAN
  <2>1. wide \in BOOLEAN
    <3>1. 0 < d /\ d \in 1 .. d /\ d - 0 = d
      BY <1>4, <1>5
    <3>2. wide = stack[d].wide
      BY <1>1, <3>1 DEF TellsWide, Top, d
    <3>3. stack[d] \in StackCell
      BY <1>5, <3>1 DEF d
    <3> QED
      BY <3>2, <3>3 DEF StackCell
  <2> QED
    BY <1>4, <1>5, <2>1
<1>7. Ran(op, Pop(w), WriteLocal(op.n, wide), op.len)
  <2>1. ~(wide /\ Len(stack) < 2)
    BY <1>5, <1>6 DEF d
  <2> QED
    BY <1>1, <1>3, <1>6, <2>1 DEF StoreTop
<1>8. WriteLocal(op.n, wide) \in [0 .. NumLocals - 1 -> Cells]
  <2>1. Len(stack) >= 1 /\ (wide => Len(stack) >= 2)
    BY <1>4, <1>5, <1>6 DEF d
  <2> QED
    BY <1>6, <2>1, WrittenCells
<1>9. WriteLocal(op.n, wide) = LocalsAfter(op, locals)
  <2>1. /\ Value(op.t)[1] = <<op.t, 1>> /\ (wide => Value(op.t)[2] = <<op.t, 2>>)
    <3>1. 1 \in 1 .. w /\ (wide => 2 \in 1 .. w)
      BY <1>4, <1>6
    <3> QED
      BY <1>3, <1>4, <3>1
  <2>2. /\ wide => Top(1).v = <<op.t, 1>> /\ Top(0).v = <<op.t, 2>>
        /\ ~wide => Top(0).v = <<op.t, 1>>
    <3>1. CASE wide
      <4>1. w = 2 /\ d - w + 1 = d - 1 /\ d - w + 2 = d - 0 /\ 1 \in 1 .. w /\ 2 \in 1 .. w
        BY <1>5, <1>6, <3>1
      <4> QED
        BY <1>5, <3>1, <4>1 DEF Top, d
    <3>2. CASE ~wide
      <4>1. w = 1 /\ d - w + 1 = d - 0 /\ 1 \in 1 .. w
        BY <1>5, <1>6, <3>2
      <4> QED
        BY <1>5, <3>2, <4>1 DEF Top, d
    <3> QED
      BY <3>1, <3>2
  <2>3. DOMAIN locals = 0 .. NumLocals - 1
    BY DEF IInv, TypeOK
  <2>4. LocalsAfter(op, locals) =
           [m \in DOMAIN locals |-> IF m - op.n \in 0 .. w - 1 THEN Value(op.t)[m - op.n + 1] ELSE locals[m]]
    BY <1>2 DEF LocalsAfter, Writes, w
  <2>5. WriteLocal(op.n, wide) =
           [m \in DOMAIN locals |-> IF m = op.n THEN (IF wide THEN Top(1).v ELSE Top(0).v)
                                    ELSE IF m = op.n + 1 /\ wide THEN Top(0).v ELSE locals[m]]
    BY DEF WriteLocal
  <2>6. ASSUME NEW m \in 0 .. NumLocals - 1
        PROVE  (IF m - op.n \in 0 .. w - 1 THEN Value(op.t)[m - op.n + 1] ELSE locals[m])
                 = (IF m = op.n THEN (IF wide THEN Top(1).v ELSE Top(0).v)
                    ELSE IF m = op.n + 1 /\ wide THEN Top(0).v ELSE locals[m])
    <3>0. m \in Int /\ op.n \in Int
      BY <1>3
    <3>1. CASE m = op.n
      <4>1. m - op.n \in 0 .. w - 1 /\ m - op.n + 1 = 1
        BY <1>4, <3>0, <3>1
      <4> QED
        BY <2>1, <2>2, <3>1, <4>1
    <3>2. CASE m = op.n + 1 /\ wide
      <4>1. m - op.n \in 0 .. w - 1 /\ m - op.n + 1 = 2 /\ m # op.n
        BY <1>6, <3>0, <3>2
      <4> QED
        BY <2>1, <2>2, <3>2, <4>1
    <3>3. CASE m # op.n /\ ~(m = op.n + 1 /\ wide)
      <4>1. m - op.n \notin 0 .. w - 1
        BY <1>6, <3>0, <3>3
      <4> QED
        BY <3>3, <4>1
    <3> QED
      BY <3>1, <3>2, <3>3
  <2> QED
    BY <2>3, <2>4, <2>5, <2>6
<1>10. w \in Nat /\ w = Len(op.in)
  BY <1>4
<1>11. Ran(op, Pop(w) \o <<>>, WriteLocal(op.n, wide), op.len)
  <2>1. Pop(w) \in Seq(StackCell)
    BY <1>5, <1>10, PopSome
  <2>2. Pop(w) \o <<>> = Pop(w)
    BY <2>1
  <2> QED
    BY <1>7, <2>2
<1> DEFINE q == <<>>
<1>12. q \in Seq(StackCell) /\ Len(q) <= 2 /\ Contents(q) = op.out /\ Right(q)
  BY <1>3, NothingPushed
<1>13. Ran(op, Pop(w) \o q, WriteLocal(op.n, wide), op.len)
  BY <1>11
<1> HIDE DEF q
<1> QED
  BY <1>1, <1>2, <1>8, <1>9, <1>10, <1>12, <1>13, Replaced

LEMMA XStoreNOK == ASSUME IInv, XStoreN PROVE StepOK
<1>0. PICK op \in Named["store_n"] : \E wide \in TellsWide(op.n) : Fetch(op) /\ StoreTop(op, wide, 1)
  BY DEF XStoreN
<1>1. PICK wide \in TellsWide(op.n) : Fetch(op) /\ StoreTop(op, wide, 1)
  BY <1>0
<1>2. op \in Instrs /\ op \in LocalOps /\ op.name = "store_n" /\ op.name \notin MoveNames
  BY <1>0, LocalsOf DEF LocalNames, Reads, Writes
<1>3. op.n \in 0 .. NumLocals - 1 /\ op.t \in LocalTypes /\ op.in = Value(op.t)
  BY <1>2, LocalForms DEF Is, Writes
<1>4. Excused("wrong", op)
  BY <1>2, <1>3, ExcusedWrong
<1> DEFINE d == Len(stack)
<1>5. stack \in Seq(StackCell) /\ d \in Nat /\ d >= 1
  <2>1. stack \in Seq(StackCell)
    BY DEF IInv, TypeOK, StackCell
  <2>2. Len(op.in) \in 1 .. 2 /\ Len(op.in) <= Len(Contents(stack))
    <3>1. Len(op.in) <= Len(Contents(stack))
      <4>1. CanRun(op, Contents(stack), locals)
        BY <1>1 DEF Fetch
      <4>2. op.name \notin DOMAIN Moves
        BY <1>2, MovesByName
      <4> QED
        BY <4>1, <4>2 DEF CanRun
    <3> QED
      BY <1>3, <3>1, Widths
  <2>3. Len(Contents(stack)) = d
    BY <2>1, ContentsOf
  <2>4. d \in Nat
    BY <2>1
  <2> HIDE DEF d
  <2> QED
    BY <2>1, <2>2, <2>3, <2>4
<1>6. wide \in BOOLEAN
  <2>1. CASE op.n < d
    <3>1. wide = stack[d - op.n].wide
      BY <1>1, <2>1 DEF TellsWide, Top
    <3> HIDE DEF d
    <3>2. d - op.n \in 1 .. d
      BY <1>3, <1>5, <2>1
    <3>3. stack[d - op.n] \in StackCell
      BY <1>5, <3>2 DEF d
    <3> QED
      BY <3>1, <3>3 DEF StackCell
  <2>2. CASE ~(op.n < d)
    BY <1>1, <2>2 DEF TellsWide
  <2> QED
    BY <2>1, <2>2
<1>7. CASE wide /\ Len(stack) < 2
  <2>1. Misdone(op, stack, exception) /\ exception \in BOOLEAN
    BY <1>1, <1>7 DEF StoreTop, Strayed, IInv, TypeOK
  <2>2. Fits(op, stack)
    BY <1>5 DEF Fits
  <2> QED
    BY <1>1, <1>2, <1>4, <1>5, <2>1, <2>2, MisdoneOK
<1>8. CASE ~(wide /\ Len(stack) < 2)
  <2> DEFINE n == IF wide THEN 2 ELSE 1
  <2>1. Ran(op, Pop(n), WriteLocal(op.n, wide), 1)
    BY <1>1, <1>8 DEF StoreTop
  <2>2. WriteLocal(op.n, wide) \in [0 .. NumLocals - 1 -> Cells]
    <3>1. Len(stack) >= 1 /\ (wide => Len(stack) >= 2)
      BY <1>5, <1>8
    <3> QED
      BY <1>6, <3>1, WrittenCells
  <2>3. n \in Nat
    OBVIOUS
  <2> HIDE DEF n
  <2>4. Pop(n) \in Seq(StackCell) /\ Len(Pop(n)) <= Len(stack)
    BY <1>5, <2>3, PopSome
  <2>5. Fits(op, Pop(n))
    BY <1>5, <2>4 DEF Fits
  <2> QED
    BY <1>1, <1>2, <1>4, <2>1, <2>2, <2>4, <2>5, RanOK
<1> QED
  BY <1>7, <1>8

-----------------------------------------------------------------------------
(* The theorems.                                                           *)

LEMMA Started == Init => IInv /\ TS!Init
<1> SUFFICES ASSUME Init PROVE IInv /\ TS!Init
  OBVIOUS
<1>1. stack = <<>> /\ lost = <<>> /\ locals = [n \in 0 .. NumLocals - 1 |-> NoCell]
  BY DEF Init
<1>2. stack \in Seq([v : Cells, wide : BOOLEAN]) /\ Len(stack) = 0
  BY <1>1
<1>3. locals \in [0 .. NumLocals - 1 -> Cells]
  BY <1>1 DEF Cells
<1>4. 0 <= 2 + (IF Room > 4 THEN Room ELSE 4)
  BY RoomAssumption
<1>5. TypeOK
  BY <1>1, <1>2, <1>3, <1>4 DEF Init, TypeOK
<1>6. Right(stack)
  BY <1>1 DEF Right
<1>7. TS!Init
  BY <1>1 DEF TS!Init, Contents
<1> QED
  BY <1>5, <1>6, <1>7 DEF IInv

LEMMA ReturnOK == ASSUME IInv, Return PROVE StepOK
<1>1. stack' = stack /\ locals' = locals /\ lost' = lost
  BY DEF Return
<1>2. TypeOK'
  BY <1>1 DEF Return, IInv, TypeOK
<1> QED
  BY <1>1, <1>2 DEF StepOK, IInv, Right, TS!vars, Contents

LEMMA Stepped == ASSUME IInv, [Next]_vars PROVE StepOK
<1>1. CASE Next
  BY <1>1, ConstantsOK, LoadsOK, XStoreOK, XStoreNOK, IincOK, XALoadOK, XAStoreOK, NewArraysOK,
     DiscardOK, DupOK, ReorderOK, ArithmeticOK, ConvertOK, ControlOK, ReturnOK,
     GetStaticOK, PutStaticOK, GetFieldOK, PutFieldOK, CallsOK, ObjectsOK
     DEF Next
<1>2. CASE UNCHANGED vars
  <2>1. stack' = stack /\ locals' = locals /\ lost' = lost
    BY <1>2 DEF vars
  <2>2. TypeOK'
    BY <1>2 DEF vars, IInv, TypeOK
  <2> QED
    BY <2>1, <2>2 DEF StepOK, IInv, Right, TS!vars, Contents
<1> QED
  BY <1>1, <1>2

(***************************************************************************)
(* The operand stack is never deeper than the instructions the model runs  *)
(* can make it, and it, the local variables and what run() keeps hold only *)
(* what they may.                                                          *)
(***************************************************************************)
THEOREM FrameTypes == Spec => []TypeOK
<1>1. Init => IInv
  BY Started
<1>2. IInv /\ [Next]_vars => IInv'
  BY Stepped DEF StepOK
<1>3. IInv => TypeOK
  BY DEF IInv
<1> QED
  BY <1>1, <1>2, <1>3, PTL DEF Spec

(***************************************************************************)
(* Every step of the loop in run() executes an instruction as the          *)
(* instruction set says, on operands and results of any type, or leaves    *)
(* the frame as it is, or goes wrong in a way KnownToFail lists.           *)
(***************************************************************************)
THEOREM HandlersImplementInstructions == Spec => InstructionSet
<1>1. Init => IInv /\ TS!Init
  BY Started
<1>2. IInv /\ [Next]_vars => IInv' /\ [TS!GoWrong \/ TS!Execute]_(TS!vars)
  BY Stepped DEF StepOK
<1> QED
  BY <1>1, <1>2, PTL DEF Spec, InstructionSet, TS!Spec
=============================================================================
