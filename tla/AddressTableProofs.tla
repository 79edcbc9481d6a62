-------------------------- MODULE AddressTableProofs --------------------------
(***************************************************************************)
(* Theorems about AddressTable without the collector, for every finite set *)
(* of threads and every size of pages and table.                           *)
(***************************************************************************)
EXTENDS AddressTable, FiniteSetTheorems, TLAPS

\* The decrement of numFragmentedFree cannot wrap: the lower half of FreeCount.
Counted == numFragmentedFree >= Len(freeList) + Cardinality(Listing)

\* Between allocateSlot and freeSlot the local variable of a thread names a
\* slot it holds.
HasSlot == {"mark", "markStore", "got", "setStore", "nullStore", "release"}
LocalIsHeld == \A t \in Threads : pc[t] \in HasSlot => slot[t] \in mine[t]

IInv == TypeOK /\ OnePlace /\ Counted /\ LocalIsHeld

-----------------------------------------------------------------------------
(* The free list as a sequence.                                            *)

LEMMA TailOfList ==
    ASSUME NEW S, NEW s \in Seq(S), s # <<>>, IsInjective(s)
    PROVE  /\ Tail(s) \in Seq(S) /\ Len(s) = Len(Tail(s)) + 1
           /\ IsInjective(Tail(s))
           /\ Head(s) \in ToSet(s)
           /\ ToSet(Tail(s)) = ToSet(s) \ {Head(s)}
<1>1. /\ Tail(s) \in Seq(S) /\ Len(s) = Len(Tail(s)) + 1
      /\ \A i \in 1 .. Len(Tail(s)) : Tail(s)[i] = s[i + 1]
      /\ Head(s) = s[1] /\ 1 \in DOMAIN s /\ DOMAIN s = 1 .. Len(s)
      /\ DOMAIN Tail(s) = 1 .. Len(Tail(s)) /\ Len(Tail(s)) \in Nat
  OBVIOUS
<1>2. IsInjective(Tail(s))
  BY <1>1 DEF IsInjective
<1>3. ToSet(Tail(s)) = ToSet(s) \ {Head(s)}
  <2>1. ASSUME NEW x \in ToSet(Tail(s)) PROVE x \in ToSet(s) \ {Head(s)}
    <3>1. PICK i \in 1 .. Len(Tail(s)) : x = s[i + 1]
      BY <1>1, <2>1 DEF ToSet
    <3> QED
      BY <1>1, <3>1 DEF ToSet, IsInjective
  <2>2. ASSUME NEW x \in ToSet(s) \ {Head(s)} PROVE x \in ToSet(Tail(s))
    <3>1. PICK i \in 1 .. Len(s) : x = s[i] /\ i # 1
      BY <1>1, <2>2 DEF ToSet
    <3>2. i - 1 \in 1 .. Len(Tail(s)) /\ Tail(s)[i - 1] = x
      BY <1>1, <3>1
    <3> QED
      BY <1>1, <3>2 DEF ToSet
  <2> QED
    BY <2>1, <2>2
<1> QED
  BY <1>1, <1>2, <1>3 DEF ToSet

LEMMA PushOnList ==
    ASSUME NEW S, NEW s \in Seq(S), NEW x \in S, x \notin ToSet(s), IsInjective(s)
    PROVE  /\ <<x>> \o s \in Seq(S) /\ Len(<<x>> \o s) = Len(s) + 1
           /\ IsInjective(<<x>> \o s)
           /\ ToSet(<<x>> \o s) = ToSet(s) \cup {x}
<1> DEFINE q == <<x>> \o s
<1>1. /\ q \in Seq(S) /\ Len(q) = Len(s) + 1 /\ q[1] = x
      /\ \A i \in 1 .. Len(s) : q[i + 1] = s[i]
      /\ DOMAIN q = 1 .. Len(q) /\ DOMAIN s = 1 .. Len(s) /\ Len(s) \in Nat
  OBVIOUS
<1> HIDE DEF q
<1>2. ASSUME NEW i \in DOMAIN q, i # 1 PROVE i - 1 \in DOMAIN s /\ q[i] = s[i - 1]
  BY <1>1, <1>2
<1>3. IsInjective(q)
  BY <1>1, <1>2 DEF IsInjective, ToSet
<1>4. ToSet(q) = ToSet(s) \cup {x}
  <2>1. ASSUME NEW y \in ToSet(q) PROVE y \in ToSet(s) \cup {x}
    BY <1>1, <1>2, <2>1 DEF ToSet
  <2>2. ASSUME NEW y \in ToSet(s) PROVE y \in ToSet(q)
    <3>1. PICK i \in 1 .. Len(s) : y = s[i]
      BY <1>1, <2>2 DEF ToSet
    <3> QED
      BY <1>1, <3>1 DEF ToSet
  <2>3. x \in ToSet(q)
    BY <1>1 DEF ToSet
  <2> QED
    BY <2>1, <2>2, <2>3
<1> QED
  BY <1>1, <1>3, <1>4 DEF q

-----------------------------------------------------------------------------
(* Every variable keeps its type.                                          *)

LEMMA TypesKept == IInv /\ [Next]_vars => TypeOK'
<1> SUFFICES ASSUME IInv, [Next]_vars PROVE TypeOK'
  OBVIOUS
<1> USE AddressTableAssumption DEF TypeOK, Goto, Entry, Points, tableVars, listVars, sizeVars
<1>1. TypeOK /\ 0 \in Slots
  BY DEF IInv, Slots
<1>2. ASSUME NEW t \in Threads, Call(t) \/ ListEmpty(t) \/ LockForExtension(t) \/ RemapFails(t) \/ PushFails(t)
      PROVE  TypeOK'
  BY <1>1, <1>2 DEF Call, ListEmpty, LockForExtension, RemapFails, PushFails
<1>3. ASSUME NEW t \in Threads, CheckLimit(t) PROVE TypeOK'
  BY <1>1, <1>3 DEF CheckLimit
<1>4. ASSUME NEW t \in Threads, LoadForMark(t) \/ LoadForSet(t) \/ LoadForFree(t) PROVE TypeOK'
  <2>1. PICK to \in Points : LoadPointer(t, pc[t], to)
    BY <1>1, <1>4 DEF LoadForMark, LoadForSet, LoadForFree, LoadPointer
  <2>2. pc' \in [Threads -> Points] /\ pointer' \in [Threads -> 0 .. mapping]
    BY <1>1, <2>1 DEF LoadPointer
  <2> QED
    BY <1>1, <2>1, <2>2 DEF LoadPointer
<1>5. ASSUME NEW t \in Threads, Mark(t) \/ SetRawAddress(t) \/ ClearEntry(t) PROVE TypeOK'
  BY <1>1, <1>5 DEF Mark, SetRawAddress, ClearEntry, StoreEntry, Store
<1>6. ASSUME NEW t \in Threads, Remap(t) PROVE TypeOK'
  <2>1. mapping' \in Nat /\ mapping <= mapping'
    BY <1>1, <1>6 DEF Remap
  <2> QED
    BY <1>1, <1>6, <2>1 DEF Remap
<1>7. ASSUME NEW t \in Threads, Publish(t) PROVE TypeOK'
  BY <1>1, <1>7 DEF Publish
<1>8. ASSUME NEW t \in Threads, PopFree(t) PROVE TypeOK'
  <2>1. freeList \in Seq(Slots) /\ freeList # <<>>
    BY <1>1, <1>8 DEF PopFree
  <2>2. Head(freeList) \in Slots /\ Tail(freeList) \in Seq(Slots) /\ Len(freeList) \in Nat \ {0}
    BY <2>1
  <2>3. Cardinality(Listing) \in Nat
    BY FS_Subset, FS_CardinalityType DEF Listing
  <2>4. numFragmentedFree - 1 \in Nat
    BY <1>1, <2>2, <2>3 DEF IInv, Counted
  <2> QED
    BY <1>1, <1>8, <2>2, <2>4 DEF PopFree
<1>9. ASSUME NEW t \in Threads, Bump(t) PROVE TypeOK'
  <2>1. numAddresses \in Slots /\ numAddresses + 1 \in 1 .. MaxAddresses
    BY <1>1, <1>9 DEF Bump, Slots
  <2> QED
    BY <1>1, <1>9, <2>1 DEF Bump, Store
<1>10. ASSUME NEW t \in Threads, Release(t) PROVE TypeOK'
  <2>1. slot[t] \in 1 .. numAddresses - 1
    BY <1>1, <1>10 DEF IInv, OnePlace, Held, LocalIsHeld, HasSlot, Release
  <2>2. numAddresses' \in 1 .. MaxAddresses /\ numFragmentedFree' \in Nat
    BY <1>1, <1>10, <2>1 DEF Release
  <2> QED
    BY <1>1, <1>10, <2>2 DEF Release
<1>11. ASSUME NEW t \in Threads, PushFree(t) PROVE TypeOK'
  <2>1. <<slot[t]>> \o freeList \in Seq(Slots)
    BY <1>1
  <2> QED
    BY <1>1, <1>11, <2>1 DEF PushFree
<1>12. CASE UNCHANGED vars
  BY <1>1, <1>12 DEF vars
<1> QED
  BY <1>2, <1>3, <1>4, <1>5, <1>6, <1>7, <1>8, <1>9, <1>10, <1>11, <1>12
     DEF Next, AllocateSlot, Finish

LEMMA LocalKept == IInv /\ [Next]_vars => LocalIsHeld'
<1> SUFFICES ASSUME IInv, [Next]_vars PROVE LocalIsHeld'
  OBVIOUS
<1>1. TypeOK /\ LocalIsHeld
  BY DEF IInv
<1>2. CASE UNCHANGED vars
  BY <1>1, <1>2 DEF vars, LocalIsHeld
<1>3. ASSUME NEW t \in Threads, AllocateSlot(t) \/ Finish(t) PROVE LocalIsHeld'
  <2> USE <1>1 DEF TypeOK, LocalIsHeld, HasSlot, Goto, tableVars, listVars, sizeVars
  <2>1. CASE Call(t) \/ CheckLimit(t) \/ ListEmpty(t) \/ LockForExtension(t)
    BY <2>1 DEF Call, CheckLimit, ListEmpty, LockForExtension
  <2>2. CASE Remap(t) \/ RemapFails(t) \/ Publish(t) \/ PushFree(t) \/ PushFails(t)
    BY <2>2 DEF Remap, RemapFails, Publish, PushFree, PushFails
  <2>3. CASE LoadForMark(t) \/ LoadForSet(t) \/ LoadForFree(t)
    BY <2>3 DEF LoadForMark, LoadForSet, LoadForFree, LoadPointer
  <2>4. CASE Mark(t) \/ SetRawAddress(t) \/ ClearEntry(t)
    BY <2>4 DEF Mark, SetRawAddress, ClearEntry, StoreEntry
  <2>5. CASE PopFree(t)
    BY <2>5 DEF PopFree
  <2>6. CASE Bump(t)
    BY <2>6 DEF Bump
  <2>7. CASE Release(t)
    BY <2>7 DEF Release
  <2> QED
    BY <1>3, <2>1, <2>2, <2>3, <2>4, <2>5, <2>6, <2>7 DEF AllocateSlot, Finish
<1> QED
  BY <1>2, <1>3 DEF Next

-----------------------------------------------------------------------------
(* Where the slots are.                                                    *)

\* A step that neither hands out a slot, nor takes one back, nor lists one; a
\* thread may fail to list its slot.
Quiet == /\ UNCHANGED <<mine, freeList, numAddresses, numFragmentedFree>>
         /\ \A u \in Threads : pc'[u] = "push" => pc[u] = "push" /\ slot'[u] = slot[u]

Moves(t) == PopFree(t) \/ Bump(t) \/ Release(t) \/ PushFree(t)

LEMMA MostAreQuiet ==
    ASSUME TypeOK, NEW t \in Threads, AllocateSlot(t) \/ Finish(t)
    PROVE  Quiet \/ Moves(t)
<1> USE DEF TypeOK, Quiet, Goto, tableVars, listVars, sizeVars
<1>1. CASE Call(t) \/ CheckLimit(t) \/ ListEmpty(t) \/ LockForExtension(t)
  BY <1>1 DEF Call, CheckLimit, ListEmpty, LockForExtension
<1>2. CASE Remap(t) \/ RemapFails(t) \/ Publish(t) \/ PushFails(t)
  BY <1>2 DEF Remap, RemapFails, Publish, PushFails
<1>3. CASE LoadForMark(t) \/ LoadForSet(t) \/ LoadForFree(t)
  BY <1>3 DEF LoadForMark, LoadForSet, LoadForFree, LoadPointer
<1>4. CASE Mark(t) \/ SetRawAddress(t) \/ ClearEntry(t)
  BY <1>4 DEF Mark, SetRawAddress, ClearEntry, StoreEntry
<1> QED
  BY <1>1, <1>2, <1>3, <1>4 DEF AllocateSlot, Finish, Moves

LEMMA CountKept == IInv /\ [Next]_vars => Counted'
<1> SUFFICES ASSUME IInv, [Next]_vars PROVE Counted'
  OBVIOUS
<1>1. /\ IsFiniteSet(Listing) /\ Cardinality(Listing) \in Nat
      /\ Len(freeList) \in Nat /\ numFragmentedFree \in Nat
      /\ numFragmentedFree >= Len(freeList) + Cardinality(Listing)
  <2>1. IsFiniteSet(Listing)
    BY FS_Subset, AddressTableAssumption DEF Listing
  <2> QED
    BY <2>1, FS_CardinalityType DEF IInv, Counted, TypeOK
<1>2. ASSUME Listing' \subseteq Listing PROVE Cardinality(Listing') <= Cardinality(Listing) /\ Cardinality(Listing') \in Nat
  BY <1>1, <1>2, FS_Subset, FS_CardinalityType
<1>3. CASE Quiet
  <2>1. Listing' \subseteq Listing
    BY <1>3 DEF Quiet, Listing
  <2> QED
    BY <1>1, <1>2, <1>3, <2>1 DEF Quiet, Counted
<1>4. ASSUME NEW t \in Threads, PopFree(t) PROVE Counted'
  <2>1. Listing' \subseteq Listing
    BY <1>4 DEF PopFree, Goto, IInv, TypeOK, Listing
  <2>2. Len(freeList) = Len(freeList') + 1 /\ numFragmentedFree' = numFragmentedFree - 1
    BY <1>4, TailOfList DEF PopFree, IInv, TypeOK, OnePlace
  <2> QED
    BY <1>1, <1>2, <2>1, <2>2 DEF Counted
<1>5. ASSUME NEW t \in Threads, Bump(t) PROVE Counted'
  <2>1. Listing' \subseteq Listing
    BY <1>5 DEF Bump, Goto, IInv, TypeOK, Listing
  <2>2. UNCHANGED listVars
    BY <1>5 DEF Bump
  <2> QED
    BY <1>1, <1>2, <2>1, <2>2 DEF Counted, listVars
<1>6. ASSUME NEW t \in Threads, Release(t) PROVE Counted'
  <2>1. CASE pc'[t] = "idle" /\ UNCHANGED listVars
    <3>1. Listing' \subseteq Listing
      BY <1>6, <2>1 DEF Release, Goto, IInv, TypeOK, Listing
    <3> QED
      BY <1>1, <1>2, <2>1, <3>1 DEF Counted, listVars
  <2>2. CASE pc' = [pc EXCEPT ![t] = "push"] /\ numFragmentedFree' = numFragmentedFree + 1 /\ freeList' = freeList
    <3>1. Listing' = Listing \cup {t}
      BY <2>2 DEF IInv, TypeOK, Listing
    <3>2. t \notin Listing
      BY <1>6 DEF Release, Goto, Listing
    <3>3. Cardinality(Listing') = Cardinality(Listing) + 1
      BY <1>1, <3>1, <3>2, FS_AddElement
    <3> QED
      BY <1>1, <2>2, <3>3 DEF Counted
  <2> QED
    BY <1>6, <2>1, <2>2 DEF Release, Goto, listVars, IInv, TypeOK
<1>7. ASSUME NEW t \in Threads, PushFree(t) PROVE Counted'
  <2>1. Listing' = Listing \ {t} /\ t \in Listing
    BY <1>7 DEF PushFree, Goto, IInv, TypeOK, Listing
  <2>2. Cardinality(Listing') = Cardinality(Listing) - 1
    BY <1>1, <2>1, FS_RemoveElement
  <2>3. Len(freeList') = Len(freeList) + 1 /\ numFragmentedFree' = numFragmentedFree
    BY <1>7 DEF PushFree, IInv, TypeOK
  <2> QED
    BY <1>1, <2>2, <2>3 DEF Counted
<1>8. CASE UNCHANGED vars
  BY <1>1, <1>8 DEF vars, Counted, Listing
<1> QED
  BY <1>3, <1>4, <1>5, <1>6, <1>7, <1>8, MostAreQuiet DEF Next, Moves, IInv

LEMMA PlaceKept == IInv /\ [Next]_vars => OnePlace'
<1> SUFFICES ASSUME IInv, [Next]_vars PROVE OnePlace'
  OBVIOUS
<1>1. TypeOK /\ OnePlace /\ LocalIsHeld
  BY DEF IInv
<1> USE <1>1 DEF OnePlace, Listing, Held
<1>2. CASE Quiet
  BY <1>2 DEF Quiet
<1>3. ASSUME NEW t \in Threads, PopFree(t) PROVE OnePlace'
  <2>1. /\ IsInjective(freeList') /\ Head(freeList) \in ToSet(freeList)
        /\ ToSet(freeList') = ToSet(freeList) \ {Head(freeList)}
    BY <1>3, TailOfList DEF PopFree, TypeOK
  <2>2. /\ mine' = [mine EXCEPT ![t] = mine[t] \cup {Head(freeList)}]
        /\ numAddresses' = numAddresses
        /\ \A u \in Threads : pc'[u] = "push" => u # t /\ pc[u] = "push" /\ slot'[u] = slot[u]
    BY <1>3 DEF PopFree, Goto, TypeOK, sizeVars
  <2> QED
    BY <2>1, <2>2, SMTT(30) DEF TypeOK
<1>4. ASSUME NEW t \in Threads, Bump(t) PROVE OnePlace'
  <2>1. /\ mine' = [mine EXCEPT ![t] = mine[t] \cup {numAddresses}]
        /\ numAddresses' = numAddresses + 1 /\ freeList' = freeList
        /\ \A u \in Threads : pc'[u] = "push" => u # t /\ pc[u] = "push" /\ slot'[u] = slot[u]
    BY <1>4 DEF Bump, Goto, TypeOK, listVars
  <2>2. numAddresses \in Nat \ {0} /\ numAddresses \notin 1 .. numAddresses - 1
    BY DEF TypeOK
  <2> QED
    BY <2>1, <2>2 DEF TypeOK
<1>5. ASSUME NEW t \in Threads, Release(t) PROVE OnePlace'
  <2>1. slot[t] \in mine[t] /\ slot[t] \in 1 .. numAddresses - 1 /\ numAddresses \in Nat
    BY <1>5 DEF Release, Goto, LocalIsHeld, HasSlot, TypeOK
  <2>2. /\ mine' = [mine EXCEPT ![t] = mine[t] \ {slot[t]}]
        /\ freeList' = freeList /\ slot' = slot
    BY <1>5 DEF Release
  <2>3. CASE slot[t] + 1 = numAddresses /\ numAddresses' = numAddresses - 1 /\ pc' = [pc EXCEPT ![t] = "idle"]
    <3>1. \A u \in Threads : pc'[u] = "push" => u # t /\ pc[u] = "push"
      BY <2>3 DEF TypeOK
    <3>2. /\ Held' = Held \ {slot[t]}
          /\ \A u, v \in Threads : u # v => mine'[u] \cap mine'[v] = {}
      BY <2>1, <2>2 DEF TypeOK
    <3>3. ToSet(freeList) \cup {slot[u] : u \in Listing} \cup Held' \subseteq 1 .. numAddresses' - 1
      BY <2>1, <2>3, <3>2
    <3> QED
      BY <2>2, <3>1, <3>2, <3>3
  <2>4. CASE slot[t] + 1 # numAddresses /\ numAddresses' = numAddresses /\ pc' = [pc EXCEPT ![t] = "push"]
    BY <2>1, <2>2, <2>4 DEF TypeOK
  <2> QED
    BY <1>5, <2>3, <2>4 DEF Release, Goto
<1>6. ASSUME NEW t \in Threads, PushFree(t) PROVE OnePlace'
  <2>1. pc[t] = "push" /\ slot[t] \notin ToSet(freeList) /\ slot[t] \in Slots
    BY <1>6 DEF PushFree, Goto, TypeOK
  <2>2. /\ IsInjective(freeList')
        /\ ToSet(freeList') = ToSet(freeList) \cup {slot[t]}
    BY <1>6, <2>1, PushOnList DEF PushFree, TypeOK
  <2>3. /\ mine' = mine /\ numAddresses' = numAddresses
        /\ \A u \in Threads : pc'[u] = "push" => u # t /\ pc[u] = "push" /\ slot'[u] = slot[u]
    BY <1>6 DEF PushFree, Goto, TypeOK, sizeVars
  <2> QED
    BY <2>1, <2>2, <2>3 DEF TypeOK
<1>7. CASE UNCHANGED vars
  BY <1>7 DEF vars
<1> QED
  BY <1>2, <1>3, <1>4, <1>5, <1>6, <1>7, MostAreQuiet DEF Next, Moves

-----------------------------------------------------------------------------
LEMMA InvInit == Init => IInv
<1> SUFFICES ASSUME Init PROVE IInv
  OBVIOUS
<1> USE AddressTableAssumption
<1>1. TypeOK
  <2>1. /\ 0 \in Slots /\ 0 \in 0 .. mapping /\ numAddresses \in 1 .. MaxAddresses
        /\ addressTable \in 0 .. mapping
    BY DEF Init, Slots
  <2>2. table \in [Slots -> Entry] /\ freeList \in Seq(Slots)
    BY DEF Init, Entry
  <2>3. pc \in [Threads -> Points] /\ slot \in [Threads -> Slots]
    BY <2>1 DEF Init, Points
  <2>4. pointer \in [Threads -> 0 .. mapping] /\ mine \in [Threads -> SUBSET Slots]
    BY <2>1 DEF Init
  <2> QED
    BY <2>1, <2>2, <2>3, <2>4 DEF Init, TypeOK
<1>2. Listing = {} /\ Held = {} /\ ToSet(freeList) = {}
  BY DEF Init, Listing, Held, ToSet
<1>3. OnePlace
  BY <1>2 DEF Init, OnePlace, IsInjective
<1>4. Counted
  BY <1>2, FS_EmptySet DEF Init, Counted
<1> QED
  BY <1>1, <1>3, <1>4 DEF IInv, Init, LocalIsHeld, HasSlot

LEMMA Invariance == Spec => []IInv
<1>1. IInv /\ [Next]_vars => IInv'
  BY TypesKept, LocalKept, CountKept, PlaceKept DEF IInv
<1> QED
  BY InvInit, <1>1, PTL DEF Spec

(***************************************************************************)
(* Every variable keeps its type; that numFragmentedFree stays a natural   *)
(* number says that its unguarded decrement (indirection.c:80) never       *)
(* wraps.                                                                  *)
(***************************************************************************)
THEOREM Types == Spec => []TypeOK
<1>1. IInv => TypeOK
  BY DEF IInv
<1> QED
  BY Invariance, <1>1, PTL

(***************************************************************************)
(* A slot is with one thread, once on the free list, or on its way there:  *)
(* any number of threads may allocate and free, although a slot passes     *)
(* through two critical sections of different mutexes (indirection.c:78,   *)
(* 119-135).                                                               *)
(***************************************************************************)
THEOREM SlotsInOnePlace == Spec => []OnePlace
<1>1. IInv => OnePlace
  BY DEF IInv
<1> QED
  BY Invariance, <1>1, PTL

(***************************************************************************)
(* The address table implements the pool of slots: no slot is handed out   *)
(* that a thread holds, and 0, the null reference, never is.               *)
(***************************************************************************)
THEOREM ImplementsSlotPool == Spec => PoolSpec
<1>1. Init => Pool!Init
  BY DEF Init, Pool!Init
<1>2. IInv /\ [Next]_vars => [Pool!Next]_mine
  <2> SUFFICES ASSUME IInv, [Next]_vars PROVE [Pool!Next]_mine
    OBVIOUS
  <2>1. TypeOK /\ OnePlace /\ LocalIsHeld
    BY DEF IInv
  <2>2. CASE Quiet \/ UNCHANGED vars
    BY <2>2 DEF Quiet, vars
  <2>3. ASSUME NEW t \in Threads, PopFree(t) PROVE Pool!Allocate(t)
    <3>1. /\ Head(freeList) \in ToSet(freeList)
          /\ mine' = [mine EXCEPT ![t] = mine[t] \cup {Head(freeList)}]
      BY <2>1, <2>3, TailOfList DEF PopFree, TypeOK, OnePlace
    <3>2. Head(freeList) \in Slots \ (Held \cup {0})
      BY <2>1, <2>3, <3>1 DEF OnePlace, PopFree, TypeOK
    <3> QED
      BY <3>1, <3>2 DEF Pool!Allocate, Pool!Held, Held
  <2>4. ASSUME NEW t \in Threads, Bump(t) PROVE Pool!Allocate(t)
    <3>0. numAddresses \in Slots \ {0} /\ numAddresses \notin 1 .. numAddresses - 1
      BY <2>1, <2>4, AddressTableAssumption DEF Bump, TypeOK, Slots
    <3>1. numAddresses \in Slots \ (Held \cup {0})
      BY <2>1, <3>0 DEF OnePlace
    <3> QED
      BY <2>4, <3>1 DEF Bump, Pool!Allocate, Pool!Held, Held
  <2>5. ASSUME NEW t \in Threads, Release(t) PROVE Pool!Free(t)
    BY <2>1, <2>5 DEF Release, Goto, LocalIsHeld, HasSlot, Pool!Free
  <2>6. ASSUME NEW t \in Threads, PushFree(t) PROVE UNCHANGED mine
    BY <2>6 DEF PushFree
  <2> QED
    BY <2>1, <2>2, <2>3, <2>4, <2>5, <2>6, MostAreQuiet DEF Next, Moves, Pool!Next
<1> QED
  BY Invariance, <1>1, <1>2, PTL DEF Spec, PoolSpec, Pool!Spec

-----------------------------------------------------------------------------
(* The entries of slots in use.                                            *)

\* A store changes one entry at most, and that entry to what was stored, unless
\* the process ends with it.
LEMMA StoreHits ==
    ASSUME TypeOK, NEW s \in Slots, NEW ptr, NEW entry, Store(ptr, s, entry), ~fault'
    PROVE  table'[s] = entry /\ \A u \in Slots \ {s} : table'[u] = table[u]
BY DEF TypeOK, Store

LEMMA ProtectionKept == IInv /\ HeldIsProtected /\ [Next]_vars => HeldIsProtected'
<1> SUFFICES ASSUME IInv, HeldIsProtected, [Next]_vars, ~fault' PROVE HeldIsProtected'
  BY DEF HeldIsProtected, Alive
<1>1. TypeOK /\ OnePlace /\ LocalIsHeld
  BY DEF IInv
<1>2. ASSUME NEW t \in Threads, AllocateSlot(t) \/ Finish(t) PROVE HeldIsProtected'
  <2>0. \A u \in Threads : \A s \in mine[u] :
            table[s] = "null" => s = slot[u] /\ pc[u] \in {"mark", "markStore", "release"}
    BY <1>2 DEF HeldIsProtected, Alive, AllocateSlot, Finish, Call, CheckLimit, PopFree, ListEmpty,
                LoadForMark, Mark, LockForExtension, Remap, RemapFails, Publish, Bump, LoadForSet,
                SetRawAddress, LoadForFree, ClearEntry, Release, PushFree, PushFails, LoadPointer,
                StoreEntry, Goto
  <2> USE <1>1 DEF TypeOK, Goto, tableVars
  <2>1. CASE Call(t) \/ CheckLimit(t) \/ ListEmpty(t) \/ LockForExtension(t)
    BY <2>0, <2>1 DEF Call, CheckLimit, ListEmpty, LockForExtension, HeldIsProtected
  <2>2. CASE Remap(t) \/ RemapFails(t) \/ Publish(t) \/ PushFree(t) \/ PushFails(t)
    BY <2>0, <2>2 DEF Remap, RemapFails, Publish, PushFree, PushFails, HeldIsProtected
  <2>3. CASE LoadForMark(t) \/ LoadForSet(t) \/ LoadForFree(t)
    BY <2>0, <2>3 DEF LoadForMark, LoadForSet, LoadForFree, LoadPointer, HeldIsProtected
  <2>4. CASE PopFree(t)
    BY <2>0, <2>4 DEF PopFree, HeldIsProtected
  <2>5. CASE Mark(t) \/ SetRawAddress(t)
    <3>1. PICK entry \in {"marked", "object"}, to \in Points : StoreEntry(t, pc[t], to, entry)
      BY <2>5 DEF Mark, SetRawAddress, StoreEntry, Points
    <3>2. table'[slot[t]] = entry /\ \A u \in Slots \ {slot[t]} : table'[u] = table[u]
      BY <3>1, StoreHits DEF StoreEntry
    <3>3. mine' = mine /\ slot' = slot /\ \A u \in Threads \ {t} : pc'[u] = pc[u]
      BY <3>1 DEF StoreEntry
    <3> QED
      BY <2>0, <3>1, <3>2, <3>3 DEF HeldIsProtected
  <2>6. CASE ClearEntry(t)
    <3>1. /\ StoreEntry(t, "nullStore", "release", "null")
          /\ slot[t] \in mine[t]
      BY <2>6 DEF ClearEntry, StoreEntry, LocalIsHeld, HasSlot
    <3>2. \A u \in Slots \ {slot[t]} : table'[u] = table[u]
      BY <3>1, StoreHits DEF StoreEntry
    <3>3. /\ mine' = mine /\ slot' = slot /\ pc' = [pc EXCEPT ![t] = "release"]
          /\ \A u \in Threads \ {t} : slot[t] \notin mine[u]
      BY <3>1 DEF StoreEntry, OnePlace
    <3> QED
      BY <2>0, <3>2, <3>3 DEF HeldIsProtected
  <2>7. CASE Bump(t)
    <3>1. numAddresses \in Slots /\ Store(addressTable, numAddresses, "marked")
      BY <2>7, AddressTableAssumption DEF Bump, Slots
    <3>2. table'[numAddresses] = "marked" /\ \A u \in Slots \ {numAddresses} : table'[u] = table[u]
      BY <3>1, StoreHits
    <3>3. /\ pc[t] = "bump" /\ \A u \in Threads \ {t} : pc'[u] = pc[u] /\ slot'[u] = slot[u]
          /\ mine' = [mine EXCEPT ![t] = mine[t] \cup {numAddresses}]
      BY <2>7 DEF Bump
    <3> QED
      BY <2>0, <3>1, <3>2, <3>3 DEF HeldIsProtected
  <2>8. CASE Release(t)
    BY <2>0, <2>8 DEF Release, HeldIsProtected
  <2> QED
    BY <1>2, <2>1, <2>2, <2>3, <2>4, <2>5, <2>6, <2>7, <2>8 DEF AllocateSlot, Finish
<1>3. CASE UNCHANGED vars
  BY <1>3 DEF vars, HeldIsProtected, Alive
<1> QED
  BY <1>2, <1>3 DEF Next

(***************************************************************************)
(* The entry of a slot in use is not null outside the windows in which     *)
(* allocateSlot has not marked it yet and freeSlot has cleared it, however *)
(* many threads store into the table without a lock (indirection.c:86,     *)
(* 101, 119).                                                              *)
(***************************************************************************)
THEOREM SlotsInUseAreProtected == Spec => []HeldIsProtected
<1>1. Init => HeldIsProtected
  BY DEF Init, HeldIsProtected
<1> QED
  BY Invariance, ProtectionKept, <1>1, PTL DEF Spec

-----------------------------------------------------------------------------
(* Free slots, from above.                                                 *)

\* The null entries that no thread holds: listed, on their way to the list, or
\* lost because malloc failed.
Spare == {s \in 1 .. numAddresses - 1 : table[s] = "null"} \ Held

\* numFragmentedFree counts spare slots only, and freeSlot lists only those: it
\* has cleared the entry of a slot before it gives the slot up.
SpareInv ==
    /\ numFragmentedFree <= Cardinality(Spare)
    /\ ToSet(freeList) \cup {slot[t] : t \in Listing} \subseteq Spare
    /\ Alive => \A t \in Threads : pc[t] = "release" => table[slot[t]] = "null"

LEMMA SpareIsFinite ==
    ASSUME TypeOK
    PROVE  IsFiniteSet(Spare) /\ Cardinality(Spare) \in Nat
<1>1. IsFiniteSet(1 .. numAddresses - 1)
  BY FS_Interval DEF TypeOK
<1>2. Spare \subseteq 1 .. numAddresses - 1
  BY DEF Spare
<1> QED
  BY <1>1, <1>2, FS_Subset, FS_CardinalityType

\* A store through the local slot of a thread hits an entry that is not spare.
LEMMA SpareUntouched ==
    ASSUME TypeOK, NEW h \in Slots, h \in Held, NEW ptr, NEW entry,
           Store(ptr, h, entry), Held' = Held, numAddresses' = numAddresses
    PROVE  Spare' = Spare
<1>1. \A s \in Slots \ {h} : table'[s] = table[s]
  BY DEF Store, TypeOK
<1>2. 1 .. numAddresses - 1 \subseteq Slots
  BY AddressTableAssumption DEF TypeOK, Slots
<1> QED
  BY <1>1, <1>2 DEF Spare

LEMMA SpareKept == IInv /\ SpareInv /\ [Next]_vars => SpareInv'
<1> SUFFICES ASSUME IInv, SpareInv, [Next]_vars PROVE SpareInv'
  OBVIOUS
<1>1. /\ TypeOK /\ OnePlace /\ LocalIsHeld
      /\ IsFiniteSet(Spare) /\ Cardinality(Spare) \in Nat
      /\ 1 .. numAddresses - 1 \subseteq Slots
  BY SpareIsFinite, AddressTableAssumption DEF IInv, TypeOK, Slots
<1>2. ASSUME NEW t \in Threads, AllocateSlot(t) \/ Finish(t) PROVE SpareInv'
  <2>0. \A u \in Threads : pc[u] = "release" => table[slot[u]] = "null"
    BY <1>2 DEF SpareInv, AllocateSlot, Finish, Call, CheckLimit, PopFree, ListEmpty,
                LoadForMark, Mark, LockForExtension, Remap, RemapFails, Publish, Bump, LoadForSet,
                SetRawAddress, LoadForFree, ClearEntry, Release, PushFree, PushFails, LoadPointer,
                StoreEntry, Goto, Alive
  <2>1. CASE \/ Call(t) \/ CheckLimit(t) \/ ListEmpty(t) \/ LockForExtension(t)
             \/ Remap(t) \/ RemapFails(t) \/ Publish(t) \/ PushFails(t)
             \/ LoadForMark(t) \/ LoadForSet(t) \/ LoadForFree(t)
    <3>1. /\ UNCHANGED <<table, mine, numAddresses, freeList, numFragmentedFree>>
          /\ \A u \in Threads : pc'[u] \in {"push", "release"} => pc'[u] = pc[u] /\ slot'[u] = slot[u]
      BY <1>1, <2>1 DEF Call, CheckLimit, ListEmpty, LockForExtension, Remap, RemapFails, Publish,
                        PushFails, LoadForMark, LoadForSet, LoadForFree, LoadPointer, Goto,
                        TypeOK, tableVars, listVars, sizeVars
    <3>2. Spare' = Spare /\ {slot'[u] : u \in Listing'} \subseteq {slot[u] : u \in Listing}
      BY <3>1 DEF Spare, Held, Listing
    <3> QED
      BY <2>0, <3>1, <3>2 DEF SpareInv
  <2>2. CASE Mark(t) \/ SetRawAddress(t) \/ ClearEntry(t)
    <3>1. PICK entry \in Entry, to \in Points : StoreEntry(t, pc[t], to, entry) /\ to # "push"
                                              /\ (to = "release" => entry = "null")
      BY <2>2 DEF Mark, SetRawAddress, ClearEntry, StoreEntry, Goto, Points, Entry
    <3>2. slot[t] \in mine[t] /\ slot[t] \in Slots
      BY <1>1, <2>2 DEF Mark, SetRawAddress, ClearEntry, StoreEntry, Goto, LocalIsHeld, HasSlot, TypeOK
    <3>3. /\ Store(pointer[t], slot[t], entry)
          /\ UNCHANGED <<mine, slot, numAddresses, freeList, numFragmentedFree>>
          /\ pc' = [pc EXCEPT ![t] = to]
      BY <3>1 DEF StoreEntry, Goto, listVars, sizeVars
    <3>4. Spare' = Spare
      BY <1>1, <3>2, <3>3, SpareUntouched DEF Held
    <3>5. Listing' \subseteq Listing
      BY <1>1, <3>1, <3>3 DEF Listing, TypeOK
    <3>6. ASSUME ~fault', NEW u \in Threads, pc'[u] = "release" PROVE table'[slot'[u]] = "null"
      <4>1. table'[slot[t]] = entry /\ \A s \in Slots \ {slot[t]} : table'[s] = table[s]
        BY <1>1, <3>2, <3>3, <3>6 DEF Store, TypeOK
      <4>2. CASE u = t
        BY <1>1, <3>1, <3>3, <3>6, <4>1, <4>2 DEF TypeOK
      <4>3. CASE u # t
        <5>1. pc[u] = "release" /\ slot[u] \in mine[u] /\ slot[u] \in Slots \ {slot[t]}
          BY <1>1, <3>2, <3>3, <3>6, <4>3 DEF TypeOK, LocalIsHeld, HasSlot, OnePlace
        <5> QED
          BY <2>0, <3>3, <4>1, <5>1
      <4> QED
        BY <4>2, <4>3
    <3> QED
      BY <3>3, <3>4, <3>5, <3>6 DEF SpareInv, Alive
  <2>3. CASE PopFree(t)
    <3>1. /\ Head(freeList) \in ToSet(freeList)
          /\ ToSet(freeList') = ToSet(freeList) \ {Head(freeList)}
      BY <1>1, <2>3, TailOfList DEF PopFree, TypeOK, OnePlace
    <3>2. /\ mine' = [mine EXCEPT ![t] = mine[t] \cup {Head(freeList)}]
          /\ numFragmentedFree' = numFragmentedFree - 1
          /\ UNCHANGED <<table, numAddresses, fault>>
          /\ \A u \in Threads : pc'[u] \in {"push", "release"} => u # t /\ pc'[u] = pc[u] /\ slot'[u] = slot[u]
      BY <1>1, <2>3 DEF PopFree, Goto, TypeOK, tableVars, sizeVars
    <3>3. Held' = Held \cup {Head(freeList)}
      BY <1>1, <3>2 DEF Held, TypeOK
    <3>4. Spare' = Spare \ {Head(freeList)} /\ Head(freeList) \in Spare
      BY <3>1, <3>2, <3>3 DEF Spare, SpareInv
    <3>5. Cardinality(Spare') = Cardinality(Spare) - 1
      BY <1>1, <3>4, FS_RemoveElement
    <3>6. {slot'[u] : u \in Listing'} \subseteq Spare \ {Head(freeList)}
      BY <1>1, <3>1, <3>2 DEF Listing, OnePlace, SpareInv
    <3> QED
      BY <1>1, <2>0, <3>1, <3>2, <3>4, <3>5, <3>6 DEF SpareInv, TypeOK
  <2>4. CASE Bump(t)
    <3>1. /\ numAddresses \in Slots /\ numAddresses \in Nat /\ numAddresses' = numAddresses + 1
          /\ Store(addressTable, numAddresses, "marked")
          /\ mine' = [mine EXCEPT ![t] = mine[t] \cup {numAddresses}]
          /\ UNCHANGED <<freeList, numFragmentedFree>>
          /\ \A u \in Threads : pc'[u] \in {"push", "release"} => u # t /\ pc'[u] = pc[u] /\ slot'[u] = slot[u]
      BY <1>1, <2>4, AddressTableAssumption DEF Bump, Goto, TypeOK, Slots, listVars
    <3>2. Held' = Held \cup {numAddresses}
      BY <1>1, <3>1 DEF Held, TypeOK
    <3>3. \A s \in Slots \ {numAddresses} : table'[s] = table[s]
      BY <1>1, <3>1 DEF Store, TypeOK
    <3>4. 1 .. numAddresses' - 1 = (1 .. numAddresses - 1) \cup {numAddresses} /\ numAddresses \notin 1 .. numAddresses - 1
      BY <1>1, <3>1 DEF TypeOK
    <3>5. Spare' = Spare
      BY <1>1, <3>2, <3>3, <3>4 DEF Spare
    <3>6. {slot'[u] : u \in Listing'} \subseteq {slot[u] : u \in Listing}
      BY <3>1 DEF Listing
    <3>7. ASSUME NEW u \in Threads, pc'[u] = "release" PROVE table'[slot'[u]] = "null"
      <4>1. pc[u] = "release" /\ slot'[u] = slot[u] /\ table[slot[u]] = "null"
        BY <2>0, <3>1, <3>7
      <4>2. slot[u] \in Held
        BY <1>1, <4>1 DEF LocalIsHeld, HasSlot, Held
      <4>3. slot[u] \in 1 .. numAddresses - 1
        BY <1>1, <4>2 DEF OnePlace
      <4> QED
        BY <1>1, <3>3, <3>4, <4>1, <4>3
    <3> QED
      BY <3>1, <3>5, <3>6, <3>7 DEF SpareInv
  <2>5. CASE Release(t)
    <3>1. /\ slot[t] \in mine[t] /\ slot[t] \in 1 .. numAddresses - 1 /\ table[slot[t]] = "null"
          /\ \A u \in Threads \ {t} : slot[t] \notin mine[u]
      BY <1>1, <2>0, <2>5 DEF Release, Goto, LocalIsHeld, HasSlot, OnePlace, Held
    <3>2. /\ mine' = [mine EXCEPT ![t] = mine[t] \ {slot[t]}]
          /\ UNCHANGED <<table, freeList, slot, fault>>
      BY <2>5 DEF Release, tableVars
    <3>3. Held' = Held \ {slot[t]} /\ slot[t] \in Held
      BY <1>1, <3>1, <3>2 DEF Held, TypeOK
    <3>4. CASE slot[t] + 1 = numAddresses /\ numAddresses' = numAddresses - 1
               /\ numFragmentedFree' = numFragmentedFree /\ pc' = [pc EXCEPT ![t] = "idle"]
      <4>1. 1 .. numAddresses' - 1 = (1 .. numAddresses - 1) \ {slot[t]}
        BY <1>1, <3>1, <3>4 DEF TypeOK
      <4>2. Spare' = Spare
        BY <3>2, <3>3, <4>1 DEF Spare
      <4> QED
        BY <1>1, <2>0, <3>2, <3>4, <4>2 DEF SpareInv, Listing, TypeOK
    <3>5. CASE slot[t] + 1 # numAddresses /\ numAddresses' = numAddresses
               /\ numFragmentedFree' = numFragmentedFree + 1 /\ pc' = [pc EXCEPT ![t] = "push"]
      <4>1. Spare' = Spare \cup {slot[t]} /\ slot[t] \notin Spare
        BY <3>1, <3>2, <3>3, <3>5 DEF Spare
      <4>2. Cardinality(Spare') = Cardinality(Spare) + 1
        BY <1>1, <4>1, FS_AddElement
      <4> QED
        BY <1>1, <2>0, <3>2, <3>5, <4>1, <4>2 DEF SpareInv, Listing, TypeOK
    <3> QED
      BY <2>5, <3>4, <3>5 DEF Release, Goto
  <2>6. CASE PushFree(t)
    <3>1. ToSet(freeList') = ToSet(freeList) \cup {slot[t]} /\ t \in Listing
      BY <1>1, <2>6, PushOnList DEF PushFree, Goto, Listing, TypeOK, OnePlace
    <3>2. /\ UNCHANGED <<table, mine, numAddresses, numFragmentedFree, slot, fault>>
          /\ \A u \in Threads : pc'[u] \in {"push", "release"} => pc'[u] = pc[u]
      BY <1>1, <2>6 DEF PushFree, Goto, TypeOK, tableVars, sizeVars
    <3>3. Spare' = Spare /\ Listing' \subseteq Listing
      BY <3>2 DEF Spare, Held, Listing
    <3> QED
      BY <2>0, <3>1, <3>2, <3>3 DEF SpareInv
  <2> QED
    BY <1>2, <2>1, <2>2, <2>3, <2>4, <2>5, <2>6 DEF AllocateSlot, Finish
<1>3. CASE UNCHANGED vars
  BY <1>3 DEF vars, SpareInv, Spare, Held, Listing, Alive
<1> QED
  BY <1>2, <1>3 DEF Next

(***************************************************************************)
(* numFragmentedFree never falls below the number of listed slots, and     *)
(* never exceeds the number of null entries of the table, although it is   *)
(* counted and the slot listed in different critical sections              *)
(* (indirection.c:80, 126-134).                                            *)
(***************************************************************************)
THEOREM FreeSlotsCounted == Spec => []FreeCount
<1>1. Init => SpareInv
  <2>1. ASSUME Init PROVE SpareInv
    <3>1. Spare = {} /\ Listing = {} /\ ToSet(freeList) = {}
      BY <2>1 DEF Init, Spare, Listing, ToSet
    <3> QED
      BY <2>1, <3>1, FS_EmptySet DEF Init, SpareInv, Alive
  <2> QED
    BY <2>1
<1>2. IInv /\ SpareInv => FreeCount
  <2> SUFFICES ASSUME IInv, SpareInv PROVE FreeCount
    OBVIOUS
  <2> DEFINE Null == {s \in 1 .. numAddresses - 1 : table[s] = "null"}
  <2>1. IsFiniteSet(1 .. numAddresses - 1)
    BY FS_Interval DEF IInv, TypeOK
  <2>2. IsFiniteSet(Null) /\ Spare \subseteq Null
    BY <2>1, FS_Subset DEF Spare
  <2>3. Cardinality(Spare) <= Cardinality(Null) /\ Cardinality(Spare) \in Nat /\ Cardinality(Null) \in Nat
    BY <2>2, FS_Subset, FS_CardinalityType
  <2> QED
    BY <2>3 DEF IInv, TypeOK, Counted, SpareInv, FreeCount
<1> QED
  BY Invariance, SpareKept, <1>1, <1>2, PTL DEF Spec
=============================================================================
