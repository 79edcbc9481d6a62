----------------------------- MODULE ClassLoader ------------------------------
(***************************************************************************)
(* Loading classes (classloader.c): loadClass by several threads, its      *)
(* recursion over superclasses and interfaces, and the failures of         *)
(* parseClassFile.  A thread that loads has a stack of calls of            *)
(* loadClass0, of which only the last goes on.                             *)
(*                                                                         *)
(* The class in a file has the name it was looked for by.                  *)
(***************************************************************************)
EXTENDS ClassFile, HashMap

CONSTANTS
    Threads,
    NoThread,       \* holder of a free lock
    Needs,          \* classes each thread asks for
    Primitives,     \* one-letter classes, asked for by loadPrimitiveClass
    Arrays,         \* classes whose name begins with [
    Object,         \* java/lang/Object
    FileSets,       \* what may be on the class path: a file for each name
    Null,
    NoAnswer        \* of a call that has not returned

Names == Keys
HaveFiles == Names \ (Primitives \cup Arrays)

ASSUME ClassLoaderAssumption ==
    /\ NoThread \notin Threads
    /\ Needs \in [Threads -> SUBSET Names]
    /\ Primitives \cup Arrays \subseteq Names
    /\ Primitives \cap Arrays = {}
    /\ Object \in HaveFiles
    /\ {Null, NoAnswer} \cap Names = {}
    /\ Null # NoAnswer

\* The indexes a file gives of its superclass (0 for none) and its interfaces; of
\* a file the parser accepts they lead to names, and Names has all of those.  What
\* the parsers fill arrays from are sequences.
ParentIndexes(f) == Range(f.interfaces) \cup ({f.super} \ {0})
ASSUME FilesAssumption ==
    \A fs \in FileSets : \A n \in HaveFiles :
        LET f == fs[n]
        IN  f.kind = "class" =>
                /\ Len(f.constants) \in Nat /\ DOMAIN f.constants = 1 .. Len(f.constants)
                /\ f.interfaces \in Seq(Nat)
                /\ f.fields \in Seq([static : BOOLEAN, ref : Nat])
                /\ \A k \in DOMAIN f.methods : /\ f.methods[k].static \in BOOLEAN
                                             /\ Chars(f, f.methods[k].ref) \in Seq(STRING)
                /\ ReadPool(f) = "read" => \A i \in ParentIndexes(f) : NameAt(f, i) \in Names

VARIABLES
    files,          \* the file of each class; nothing writes it
    class,          \* the class_t of each name, the latest if there are two
    complete,       \* history: names of which there is a finished class
    lock,           \* holder of classLoadingLock
    calls,          \* of loadClass0 by the holder
    result,         \* of the call that just returned, or NoAnswer
    asked, answer   \* the last loadClass of each thread and its result

loadVars == <<class, complete, calls, result>>
callVars == <<files, lock, asked, answer>>
vars == <<mapVars, loadVars, callVars>>

NoClass == [status |-> "none", super |-> Null, interfaces |-> <<>>, pool |-> <<>>,
            fields |-> <<>>, objectSize |-> 0, staticDataSize |-> 0, methods |-> <<>>]

\* Made by calloc, without a file.
WithoutFile(super, size) ==
    [NoClass EXCEPT !.status = "INITIALIZED", !.super = super, !.objectSize = size]

Init == /\ InitMap
        /\ files \in FileSets
        /\ class = [n \in Names |-> NoClass]
        /\ complete = {}
        /\ lock = NoThread /\ calls = <<>> /\ result = NoAnswer
        \* Nothing has been asked for.
        /\ asked = [t \in Threads |-> NoAnswer]
        /\ answer = [t \in Threads |-> Null]

-----------------------------------------------------------------------------
(* loadClass.                                                              *)

Ask(t, n) == /\ ~crashed /\ answer[t] # NoAnswer
             /\ asked' = [asked EXCEPT ![t] = n]
             /\ answer' = [answer EXCEPT ![t] = NoAnswer]
             /\ UNCHANGED <<mapVars, loadVars, files, lock>>

NewCall(n) == [name |-> n, at |-> "lookup", next |-> 1]

Lock(t) == /\ ~crashed /\ lock = NoThread /\ answer[t] = NoAnswer
           /\ lock' = t
           /\ calls' = <<NewCall(asked[t])>>
           /\ UNCHANGED <<mapVars, class, complete, result, files, asked, answer>>

\* Mutant: the lock is kept when there is no class to return.
UnlockIfLoaded(t) ==
    /\ ~crashed /\ lock = t /\ calls = <<>> /\ result # NoAnswer
    /\ lock' = IF result = Null THEN t ELSE NoThread
    /\ result' = NoAnswer
    /\ answer' = [answer EXCEPT ![t] = result]
    /\ UNCHANGED <<mapVars, class, complete, calls, files, asked>>

Unlock(t) == /\ ~crashed /\ lock = t /\ calls = <<>> /\ result # NoAnswer
             /\ lock' = NoThread
             /\ result' = NoAnswer
             /\ answer' = [answer EXCEPT ![t] = result]
             /\ UNCHANGED <<mapVars, class, complete, calls, files, asked>>

-----------------------------------------------------------------------------
(* loadClass0, in the last call.                                           *)

Here == Last(calls)
At(point) == ~crashed /\ calls # <<>> /\ Here.at = point
Return(r) == calls' = Front(calls) /\ result' = r
Goto(point, next) == calls' = Front(calls) \o <<[Here EXCEPT !.at = point, !.next = next]>>
Call(n) == calls' = calls \o <<NewCall(n)>> /\ UNCHANGED result
OnlyCalls == UNCHANGED <<class, complete, callVars>>

LookupCrashes == At("lookup") /\ Strays(Here.name) /\ Crash /\ UNCHANGED <<failures, loadVars, callVars>>

\* Mutant: a class is returned while it is being loaded.
LookupLoading ==
    /\ At("lookup") /\ GetFinds(Here.name)
    /\ Return(Here.name)
    /\ UNCHANGED mapVars /\ OnlyCalls

\* Mutant: a class that is not initialised yet counts as being loaded.
LookupInitialized ==
    /\ At("lookup") /\ GetFinds(Here.name)
    /\ Return(IF class[Here.name].status # "INITIALIZED" THEN Null ELSE Here.name)
    /\ UNCHANGED mapVars /\ OnlyCalls

\* A class found while it is being loaded is its own ancestor.
Lookup ==
    /\ At("lookup") /\ GetFinds(Here.name)
    /\ Return(IF class[Here.name].status = "LOADING" THEN Null ELSE Here.name)
    /\ UNCHANGED mapVars /\ OnlyCalls

LoadPrimitive ==
    /\ At("lookup") /\ GetMisses(Here.name) /\ Here.name \in Primitives
    /\ \/ /\ Put(Here.name) /\ Return(Here.name)
          /\ class' = [class EXCEPT ![Here.name] = WithoutFile(Null, 0)]
          /\ complete' = complete \cup {Here.name}
       \/ /\ AllocationFails /\ Return(Null)
          /\ UNCHANGED <<buckets, numEntries, stale, overlaid, crashed, class, complete>>
    /\ UNCHANGED callVars

LoadArray ==
    /\ At("lookup") /\ GetMisses(Here.name) /\ Here.name \in Arrays
    /\ calls' = Append(Front(calls) \o <<[Here EXCEPT !.at = "array"]>>, NewCall(Object))
    /\ UNCHANGED <<mapVars, result>> /\ OnlyCalls

\* The call of loadClass0 for java/lang/Object has returned.
ArrayClass ==
    /\ At("array") /\ result # NoAnswer
    /\ \/ /\ result # Null /\ Put(Here.name) /\ Return(Here.name)
          /\ class' = [class EXCEPT ![Here.name] = WithoutFile(Object, HeaderSize)]
          /\ complete' = complete \cup {Here.name}
       \/ /\ result = Null /\ Return(Null) /\ UNCHANGED <<mapVars, class, complete>>
       \/ /\ result # Null /\ AllocationFails /\ Return(Null)
          /\ UNCHANGED <<buckets, numEntries, stale, overlaid, crashed, class, complete>>
    /\ UNCHANGED callVars

AtFile(kind) == At("lookup") /\ GetMisses(Here.name) /\ Here.name \in HaveFiles
                             /\ files[Here.name].kind = kind

\* findClassFile returns NULL, and so it does without memory; fileno(NULL) crashes.
NoFile ==
    /\ At("lookup") /\ GetMisses(Here.name) /\ Here.name \in HaveFiles
    /\ \/ files[Here.name].kind = "missing" /\ UNCHANGED failures
       \/ AllocationFails
    /\ Crash /\ UNCHANGED <<loadVars, callVars>>

\* mmap refuses an empty file, or the header or the constant pool is wrong, or
\* there is no memory for them.  Nothing has been put into the map yet.
RefuseFile ==
    /\ \/ AtFile("empty") /\ UNCHANGED failures
       \/ AtFile("badMagic") /\ UNCHANGED failures
       \/ AtFile("class") /\ ReadPool(files[Here.name]) # "read" /\ UNCHANGED failures
       \/ AtFile("class") /\ AllocationFails
    /\ Return(Null)
    /\ UNCHANGED <<buckets, numEntries, stale, overlaid, crashed>> /\ OnlyCalls

\* Mutant: the class is put into the map when it is finished only.
BeginClassUnlisted ==
    /\ AtFile("class") /\ ReadPool(files[Here.name]) = "read"
    /\ class' = [class EXCEPT ![Here.name] =
                    [NoClass EXCEPT !.status = "LOADING", !.pool = files[Here.name].constants]]
    /\ Goto("super", 1)
    /\ UNCHANGED <<mapVars, complete, result, callVars>>

\* parseClassFile up to ht_put.
BeginClass ==
    /\ AtFile("class") /\ ReadPool(files[Here.name]) = "read"
    /\ class' = [class EXCEPT ![Here.name] =
                    [NoClass EXCEPT !.status = "LOADING", !.pool = files[Here.name].constants]]
    /\ Put(Here.name)
    /\ Goto("super", 1)
    /\ UNCHANGED <<complete, result, callVars>>

CallSuper ==
    /\ At("super") /\ result = NoAnswer
    /\ LET f == files[Here.name]
       IN  IF f.super = 0 THEN Goto("interfaces", 1) /\ UNCHANGED result
                          ELSE Call(NameAt(f, f.super))
    /\ UNCHANGED mapVars /\ OnlyCalls

SuperLoaded ==
    /\ At("super") /\ result \notin {NoAnswer, Null}
    /\ class' = [class EXCEPT ![Here.name].super = result]
    /\ Goto("interfaces", 1)
    /\ result' = NoAnswer
    /\ UNCHANGED <<mapVars, complete, callVars>>

CallInterface ==
    /\ At("interfaces") /\ result = NoAnswer
    /\ LET f == files[Here.name]
       IN  IF Here.next > Len(f.interfaces) THEN Goto("members", 1) /\ UNCHANGED result
                                            ELSE Call(NameAt(f, f.interfaces[Here.next]))
    /\ UNCHANGED mapVars /\ OnlyCalls

InterfaceLoaded ==
    /\ At("interfaces") /\ result \notin {NoAnswer, Null}
    /\ class' = [class EXCEPT ![Here.name].interfaces = Append(@, result)]
    /\ Goto("interfaces", Here.next + 1)
    /\ result' = NoAnswer
    /\ UNCHANGED <<mapVars, complete, callVars>>

InheritedSize(n) == IF class[n].super = Null THEN HeaderSize ELSE class[class[n].super].objectSize

\* Fields, methods, attributes and layout: the rest of parseClassFile.
ParseMembers ==
    /\ At("members")
    /\ LET n == Here.name
           f == files[n]
           inherited == InheritedSize(n)
       IN  \E p \in Sortings(f) :
             class' = [class EXCEPT ![n].status = "LOADED",
                                    ![n].fields = LayOut(f, p, inherited),
                                    ![n].objectSize = ObjectSize(f, p, inherited),
                                    ![n].staticDataSize = StaticDataSize(f, p),
                                    ![n].methods = Methods(f)]
    /\ complete' = complete \cup {Here.name}
    /\ Return(Here.name)
    \* The calloc of no fields may fail: its result is not looked at.
    /\ UNCHANGED failures \/ (files[Here.name].fields = <<>> /\ AllocationFails)
    /\ UNCHANGED <<buckets, numEntries, stale, overlaid, crashed, callVars>>

\* Mutant: the constants are freed from the first one on, and NULL is returned.
FailAndReturn ==
    /\ \/ (At("super") \/ At("interfaces")) /\ result = Null /\ UNCHANGED failures
       \/ ((At("interfaces") /\ Here.next = 1) \/ At("members")) /\ result = NoAnswer /\ AllocationFails
    /\ Delete(Here.name)
    /\ Return(Null)
    /\ UNCHANGED <<overlaid, crashed, class, complete, callVars>>

\* The labels fail2 to fail6: the class is taken out of the map, and its constants
\* are freed beginning with constantPool[0], which is NULL.  Before that NULL is
\* dereferenced when there is no memory for fields, or attributes of members.
Fail ==
    /\ \/ (At("super") \/ At("interfaces")) /\ result = Null /\ UNCHANGED failures
       \/ ((At("interfaces") /\ Here.next = 1) \/ At("members")) /\ result = NoAnswer /\ AllocationFails
    /\ \/ Delete(Here.name)
       \/ At("members") /\ UNCHANGED <<buckets, numEntries, stale>>
    /\ crashed' = TRUE
    /\ UNCHANGED <<overlaid, loadVars, callVars>>

LoadClass0 == \/ LookupCrashes \/ Lookup \/ LoadPrimitive \/ LoadArray \/ ArrayClass
              \/ NoFile \/ RefuseFile \/ BeginClass \/ CallSuper \/ SuperLoaded
              \/ CallInterface \/ InterfaceLoaded \/ ParseMembers \/ Fail

Next == \/ \E t \in Threads : Lock(t) \/ Unlock(t) \/ \E n \in Needs[t] : Ask(t, n)
        \/ LoadClass0

Spec == Init /\ [][Next]_vars

\* The holder of the lock goes on, and each thread gets the lock some time.
FairSpec == /\ Spec /\ WF_vars(LoadClass0)
            /\ \A t \in Threads : SF_vars(Lock(t)) /\ WF_vars(Unlock(t))
-----------------------------------------------------------------------------
(***************************************************************************)
(* Every variable has its type (classloader.c, hashmap.c); the calls of    *)
(* loadClass0 do not nest without end, as a class being loaded ends them:  *)
(* there are two for each class with a file at most, its own and that of   *)
(* an array class above it, but for those ht_put had no memory for.        *)
(***************************************************************************)
Status == {"none", "LOADING", "LOADED", "INITIALIZED"}
Points == {"lookup", "array", "super", "interfaces", "members"}
TypeOK ==
    /\ buckets \in [0 .. Length - 1 -> Seq(Names)] /\ numEntries \in Nat
    /\ stale \subseteq 0 .. Length - 1 /\ overlaid \in BOOLEAN /\ crashed \in BOOLEAN
    /\ failures \in 0 .. MaxFailures
    /\ \A n \in Names : class[n].status \in Status /\ class[n].super \in Names \cup {Null}
    /\ complete \subseteq Names
    /\ lock \in Threads \cup {NoThread} /\ result \in Names \cup {Null, NoAnswer}
    /\ calls \in Seq([name : Names, at : Points, next : Nat])
    /\ Len(calls) <= 2 * (Cardinality(HaveFiles) + MaxFailures + 1)
    /\ lock = NoThread => calls = <<>> /\ result = NoAnswer

Parents(n) ==
    IF n \in HaveFiles /\ files[n].kind = "class" /\ ReadPool(files[n]) = "read"
    THEN {NameAt(files[n], i) : i \in ParentIndexes(files[n])}
    ELSE IF n \in Arrays THEN {Object} ELSE {}
ParentsOf == [n \in Names |-> Parents(n)]

\* The least set with all of start and, with a name, all of above[it].
Closure(start, above) ==
    LET closed == {S \in SUBSET DOMAIN above : start \subseteq S /\ \A k \in S : above[k] \subseteq S}
    IN  {m \in DOMAIN above : \A S \in closed : m \in S}

(***************************************************************************)
(* The loader implements ClassSpace: a class is finished only after its    *)
(* superclass and interfaces, nobody gets one that is being loaded, and    *)
(* nobody is refused one that is finished, unless ht_put had no memory to  *)
(* remember it (loadClass0, parseClassFile).                               *)
(***************************************************************************)
Kept == {n \in complete : Listed(n) /\ class[n].status # "LOADING"}
ClassSpace == INSTANCE ClassSpace WITH parents <- ParentsOf, usable <- complete, kept <- Kept
LoaderSpec == ClassSpace!Spec

(***************************************************************************)
(* The map is sound, and between two loads it lists just the finished      *)
(* classes, if ht_put was never out of memory: no class is there twice, or *)
(* while it is being loaded (loadClass, ht_put, ht_delete).                *)
(***************************************************************************)
TableSound ==
    /\ MapSound
    /\ (~crashed /\ failures = 0) =>
           \A n \in Names : Listed(n) <=> \/ n \in complete
                                          \/ class[n].status = "LOADING"
    /\ (~crashed /\ lock = NoThread) => \A n \in Names : class[n].status # "LOADING"

(***************************************************************************)
(* What is made of a class file that is accepted: every index of a         *)
(* constant is that of the file; the fields of an object, inherited ones   *)
(* included, and those of a class share no byte and end before its size,   *)
(* unless that exceeds its type, an array class is among the ancestors or  *)
(* one is just being loaded again; a method has as many local variables as *)
(* its parameters take, unless those are more than its type counts or      *)
(* there is an array of long or double among them; and a parameter has its *)
(* type as long as no wide one came before                                 *)
(* (parseConstantPool, parseClassFile, dataTypes.c).                       *)
(***************************************************************************)
Begun == {n \in Names : class[n].status # "none"}
Ancestry(n) == Closure({n}, [m \in Begun |-> {class[m].super} \ {Null}])
FieldsOf(n, static) == {<<n, k>> : k \in {j \in DOMAIN class[n].fields : class[n].fields[j].static = static}}
Place(x) == class[x[1]].fields[x[2]]
Apart(xs, low, high) ==
    low + 4 * Cardinality(xs) + 4 * Cardinality({x \in xs : Place(x).size = 8}) < SizeModulus =>
        /\ \A x \in xs : low <= Place(x).offset /\ Place(x).offset + Place(x).size <= high
        /\ \A x, y \in xs : x = y \/ Place(x).offset + Place(x).size <= Place(y).offset
                                  \/ Place(y).offset + Place(y).size <= Place(x).offset
FieldsApart(n) ==
    /\ (\A m \in Ancestry(n) : class[m].status = "LOADED") =>
           Apart(UNION {FieldsOf(m, FALSE) : m \in Ancestry(n)}, HeaderSize, class[n].objectSize)
    /\ Apart(FieldsOf(n, TRUE), 0, class[n].staticDataSize)

IndexesKept(n) ==
    \A j \in DOMAIN files[n].constants :
        LET i == IndexOf(files[n], j)
        IN  i \in DOMAIN class[n].pool /\ class[n].pool[i] = files[n].constants[j]

WideAt(d, i) == d[i] \in {"J", "D"} /\ (i = 1 \/ d[i - 1] # "[")
ParametersPlaced(n) ==
    \A k \in DOMAIN files[n].methods :
        LET m == files[n].methods[k]
            d == Chars(files[n], m.ref)
            first == IF m.static THEN 0 ELSE 1
            wide == {i \in Counted(d) : WideAt(d, i)}
            taken == first + Cardinality(Counted(d)) + Cardinality(wide)
        IN  /\ (/\ taken < ParameterModulus
                /\ \A i \in Counted(d) : d[i] \in {"J", "D"} => WideAt(d, i)) =>
                   class[n].methods[k].numParameters = taken
            /\ ~m.static => ArgumentType(d, 0, FALSE) = "L"
            /\ \A i \in Counted(d) :
                   (\A w \in wide : w >= i) =>
                       ArgumentType(d, first + Cardinality({j \in Counted(d) : j < i}), m.static)
                           = TypeOf(IF i > 1 /\ d[i - 1] = "[" THEN "[" ELSE d[i])

ParsedRight ==
    \A n \in HaveFiles : class[n].status = "LOADED" =>
        FieldsApart(n) /\ IndexesKept(n) /\ ParametersPlaced(n)

(***************************************************************************)
(* A load is refused only for a file that is refused, its own or of an     *)
(* array class that of java/lang/Object, and the process                   *)
(* crashes only for a file that is missing, the superclass or interface of *)
(* another class that is refused or is its own ancestor, a map that is     *)
(* full or overlaid, or an allocation that failed (parseClassFile).        *)
(***************************************************************************)
Refused(n) == /\ n \in HaveFiles
              /\ \/ files[n].kind \in {"empty", "badMagic"}
                 \/ files[n].kind = "class" /\ ReadPool(files[n]) # "read"
\* What is loaded from a file for n.
Source(n) == IF n \in Arrays THEN Object ELSE n
Reaches(n) == Closure(Parents(n), ParentsOf)
Explained ==
    /\ \A t \in Threads :
           (answer[t] = Null /\ asked[t] # NoAnswer /\ failures = 0) =>
               Refused(Source(asked[t]))
    /\ (crashed /\ failures = 0 /\ ~overlaid /\ ~Full) =>
           \E n \in HaveFiles :
               \/ files[n].kind = "missing"
               \/ n \in Reaches(n)
               \/ \E m \in Parents(n) : Refused(Source(m))

(***************************************************************************)
(* Every load returns, unless the process crashes (loadClass).             *)
(***************************************************************************)
LoadsReturn == \A t \in Threads : answer[t] = NoAnswer ~> (answer[t] # NoAnswer \/ crashed)
=============================================================================
