------------------------------ MODULE ClassFile -------------------------------
(***************************************************************************)
(* What the parsers make of the data of a class file: the constant pool    *)
(* (constantpool.c), fields and methods (classloader.c) and descriptors    *)
(* (dataTypes.c).                                                          *)
(*                                                                         *)
(* A file is a record: its constants in order, each with a tag and what it *)
(* refers to; the indexes of its superclass and interfaces; its fields and *)
(* methods with the indexes of their descriptors.  A descriptor is a       *)
(* sequence of letters, "L" for a whole L...; and without the "(".         *)
(*                                                                         *)
(* Left out are the files of abstract or synthetic classes with a long or  *)
(* a double: see ReadPool.                                                 *)
(***************************************************************************)
EXTENDS Integers, Sequences, FiniteSets, FiniteSetsExt, SequencesExt

CONSTANTS
    HeaderSize,         \* sizeof(object_t)
    SizeModulus,        \* 2^16: objectSize and staticDataSize are uint16_t
    ParameterModulus    \* 2^8: numParameters is a uint8_t

ASSUME ClassFileAssumption ==
    /\ HeaderSize \in Nat /\ SizeModulus \in Nat /\ HeaderSize < SizeModulus
    /\ ParameterModulus \in Nat \ {0}

-----------------------------------------------------------------------------
(* The constant pool.                                                      *)

WideTags == {"Long", "Double"}
Tags == WideTags \cup
    {"Utf8", "Integer", "Float", "Class", "String", "Fieldref", "Methodref",
     "InterfaceMethodref", "NameAndType", "MethodHandle", "MethodType", "InvokeDynamic"}

\* A class file gives a long or double two indexes: of its j-th constant, the
\* index; and the indexes it counts, which constantPoolLength is one more than.
IndexOf(f, j) == j + Cardinality({i \in 1 .. j - 1 : f.constants[i].tag \in WideTags})
NumIndexes(f) == Len(f.constants) + Cardinality({i \in DOMAIN f.constants : f.constants[i].tag \in WideTags})

\* Mutant: the loop ends with the last constant of the file.
ReadPoolToEnd(f) ==
    IF \E j \in DOMAIN f.constants : f.constants[j].tag \notin Tags THEN "refused" ELSE "read"

\* parseConstantPool gives each constant one index.  An unknown tag is refused.
\* Short of constants it takes the flags of the class for the tag of another, and
\* their first byte is no tag.  In the files left out it is 4, 6 or 16: those the
\* parser reads on, and takes their other bytes for what they are not.
ReadPool(f) ==
    IF /\ \A j \in DOMAIN f.constants : f.constants[j].tag \in Tags
       /\ NumIndexes(f) = Len(f.constants)
    THEN "read" ELSE "refused"

Chars(f, i) == f.constants[i].chars
NameAt(f, i) == Chars(f, f.constants[i].ref)

-----------------------------------------------------------------------------
(* Descriptors.                                                            *)

\* getSizeOfTypeFromFieldDescriptor; a reference is a slot number of 4 bytes.
SizeOf(d) == IF Len(d) = 1 /\ d[1] \in {"J", "D"} THEN 8 ELSE 4

\* The letters countNumParametersFromMethodDescriptor counts: after the "[" of an
\* array comes the type of its elements, which is looked at as if alone.
Counted(d) == {i \in DOMAIN d : d[i] # "[" /\ \A j \in 1 .. i : d[j] # ")"}

\* Mutant: a long or a double takes one local variable.
NumParametersNarrow(d, static) == (IF static THEN 0 ELSE 1) + Cardinality(Counted(d))

NumParameters(d, static) ==
    (IF static THEN 0 ELSE 1) + Cardinality(Counted(d))
        + Cardinality({i \in Counted(d) : d[i] \in {"J", "D"}})

\* getTypeFromFieldDescriptor; 0, for what is no type, is also TYPE_BOOLEAN.
TypeOf(letter) ==
    CASE letter \in {"[", "L"} -> "L"
      [] letter \in {"B", "C", "D", "F", "I", "J", "S"} -> letter
      [] OTHER -> "Z"

\* getTypeFromMethodDescriptor skips index descriptors, the ")" and what follows
\* it included, and after the end of the string whatever is there.
Begins(d) == {i \in DOMAIN d : i = 1 \/ d[i - 1] # "["}
BeginsAfter(d, n) == {i \in Begins(d) : Cardinality({j \in Begins(d) : j < i}) = n}
ArgumentType(d, index, static) ==
    IF ~static /\ index = 0 THEN "L"
    ELSE LET n == IF static THEN index ELSE index - 1
         IN  IF n > Cardinality(Begins(d)) THEN "any"
             ELSE IF n = Cardinality(Begins(d)) THEN "Z"
             ELSE TypeOf(d[Min(BeginsAfter(d, n))])

-----------------------------------------------------------------------------
(* Fields: sorted by size, the larger first, and laid out one after the    *)
(* other, static ones apart.                                               *)

FieldSize(f, k) == SizeOf(Chars(f, f.fields[k].ref))

\* Any order qsort may leave the fields in.
Sortings(f) ==
    {p \in [DOMAIN f.fields -> DOMAIN f.fields] :
        /\ \A i, j \in DOMAIN p : i < j => FieldSize(f, p[i]) >= FieldSize(f, p[j])
        /\ \A i, j \in DOMAIN p : p[i] = p[j] => i = j}

\* The bytes the first n of the fields in order p take, of the static or the others,
\* a narrow one 4 and a wide one 4 more.
Extent(f, p, n, static) ==
    LET those == {k \in 1 .. n : f.fields[p[k]].static = static}
    IN  4 * Cardinality(those) + 4 * Cardinality({k \in those : FieldSize(f, p[k]) = 8})

\* Mutant: every class begins after the header of an object.
LayOutFromHeader(f, p, inherited) ==
    [k \in DOMAIN p |->
        LET static == f.fields[p[k]].static
            base == IF static THEN 0 ELSE HeaderSize
        IN  [static |-> static, size |-> FieldSize(f, p[k]),
             offset |-> (base + Extent(f, p, k - 1, static)) % SizeModulus]]

LayOut(f, p, inherited) ==
    [k \in DOMAIN p |->
        LET static == f.fields[p[k]].static
            base == IF static THEN 0 ELSE inherited
        IN  [static |-> static, size |-> FieldSize(f, p[k]),
             offset |-> (base + Extent(f, p, k - 1, static)) % SizeModulus]]

ObjectSize(f, p, inherited) ==
    (inherited + Extent(f, p, Len(f.fields), FALSE)) % SizeModulus
StaticDataSize(f, p) == Extent(f, p, Len(f.fields), TRUE) % SizeModulus

-----------------------------------------------------------------------------
(* Methods.                                                                *)

Methods(f) ==
    [k \in DOMAIN f.methods |->
        LET m == f.methods[k]
        IN  [numParameters |->
                NumParameters(Chars(f, m.ref), m.static) % ParameterModulus]]
=============================================================================
