---------------------------- MODULE MCClassLoader -----------------------------
(***************************************************************************)
(* An instance of ClassLoader for TLC: a class Derived over Base over      *)
(* Object, an interface of Derived, an array and a primitive class, with   *)
(* several files for each.                                                 *)
(***************************************************************************)
EXTENDS ClassLoader, TLC

CONSTANTS t1, t2

MCThreads == {t1, t2}
MCNeeds == t1 :> {"Derived", "Object"} @@ t2 :> {"[Base", "Z"}

MCKeys == {"Object", "Base", "Derived", "Iface", "[Base", "Z"}
MCHash == [k \in MCKeys |-> CASE k = "Object" -> 8 [] k = "Base" -> 4 [] k = "Derived" -> 10
                              [] k = "Iface" -> 3 [] k = "[Base" -> 0 [] k = "Z" -> 5]

Utf8(chars) == [tag |-> "Utf8", chars |-> chars]
Constant(tag, ref) == [tag |-> tag, ref |-> ref]
Field(static, ref) == [static |-> static, ref |-> ref]
Method(static, ref) == [static |-> static, ref |-> ref]

\* Index 1 is the superclass, 3 an interface, 5 to 8 are descriptors.
Constants(super, interface) ==
    <<Constant("Class", 2), Utf8(super), Constant("Class", 4), Utf8(interface),
      Utf8(<<"J">>), Utf8(<<"I">>), Utf8(<<"L">>),
      Utf8(<<"I", "[", "J", "J", "L", ")", "V">>), Utf8(<<"[", "[", "D", ")", "I">>), Utf8(<<"J", "D", "I", ")", "V">>)>>

File(kind, super, interfaces, fields, methods, super_, interface) ==
    [kind |-> kind, constants |-> Constants(super_, interface), super |-> super,
     interfaces |-> interfaces, fields |-> fields, methods |-> methods]

ObjectFile == File("class", 0, <<>>, <<Field(FALSE, 6)>>, <<Method(FALSE, 9)>>, "Object", "Iface")
IfaceFile == File("class", 1, <<>>, <<>>, <<Method(FALSE, 10), Method(TRUE, 10)>>, "Object", "Iface")
BaseFile == File("class", 1, <<>>, <<Field(FALSE, 6), Field(FALSE, 5), Field(TRUE, 5)>>, <<>>, "Object", "Iface")
BaseLarge == [BaseFile EXCEPT !.fields = <<Field(FALSE, 5), Field(FALSE, 5), Field(FALSE, 5)>>]
BaseUnder == File("class", 1, <<>>, <<>>, <<>>, "Derived", "Iface")
\* An array class is named as superclass.
ObjectUnder == File("class", 1, <<>>, <<>>, <<>>, "[Base", "Iface")
BaseOverArray == File("class", 1, <<>>, <<Field(FALSE, 6)>>, <<>>, "[Base", "Iface")
DerivedFile == File("class", 1, <<3>>, <<Field(FALSE, 7), Field(FALSE, 6), Field(TRUE, 6)>>,
                    <<Method(TRUE, 8)>>, "Base", "Iface")
DerivedWide == [DerivedFile EXCEPT !.constants = @ \o <<Constant("Long", 0), Utf8("x")>>]
DerivedNew == [DerivedFile EXCEPT !.constants = Append(@, Constant("Dynamic", 0))]
Bad(kind) == [ObjectFile EXCEPT !.kind = kind]

FilesOf(object, base, derived, iface) ==
    [n \in HaveFiles |-> CASE n = "Object" -> object [] n = "Base" -> base
                           [] n = "Derived" -> derived [] n = "Iface" -> iface]

MCFileSets ==
    {FilesOf(ObjectFile, b, DerivedFile, IfaceFile) :
        b \in {BaseFile, BaseLarge, BaseUnder, Bad("empty")}}
    \cup {FilesOf(ObjectFile, BaseFile, d, IfaceFile) :
             d \in {DerivedWide, DerivedNew}}
    \cup {FilesOf(o, BaseFile, DerivedFile, i) :
             o \in {ObjectFile, Bad("badMagic")}, i \in {IfaceFile, Bad("missing"), Bad("badMagic")}}
    \cup {FilesOf(ObjectUnder, BaseFile, DerivedFile, IfaceFile)}
    \cup {FilesOf(o, BaseOverArray, DerivedFile, IfaceFile) : o \in {ObjectFile, Bad("badMagic")}}
=============================================================================
