---------------------------- MODULE AddressTable -----------------------------
(***************************************************************************)
(* The indirection table (indirection.c) as the allocator uses it (mm.c):  *)
(* allocateSlot, setRawAddress and freeSlot, one step per critical section *)
(* and per unlocked access.                                                *)
(*                                                                         *)
(* A thread runs newObject or newArray: it gets a slot, the heap grants or *)
(* refuses the object, and the slot gets its address or is freed.  Nothing *)
(* else frees a slot.  rebuildFreeList is left out: the collector calls it *)
(* with 8192 freed slots (gc.c:140), and allocateSlot stops at 15.         *)
(***************************************************************************)
EXTENDS Integers, Sequences, SequencesExt

CONSTANTS
    Threads,            \* threads that allocate
    AddrPerPage,        \* addresses of one page of the table (512)
    SlotLimit,          \* (1 << sizeof(slot_t)) - 1, that is 15
    MaxAddresses,       \* bound: length of the table explored
    NoThread            \* owner of a free mutex

ASSUME AddressTableAssumption ==
    /\ IsFiniteSet(Threads)
    /\ AddrPerPage \in Nat \ {0}
    /\ SlotLimit \in Nat
    /\ MaxAddresses \in Nat \ {0}
    /\ NoThread \notin Threads

VARIABLES
    table,              \* what each entry holds: see Entry
    freeList,           \* the slots of addrInfo->freeSlot, first node first
    numFragmentedFree,
    numPages,
    numAddresses,
    slotAllocationMutex,
    mapping,            \* which mapping of the table exists
    mapped,             \* pages of that mapping
    addressTable,       \* the mapping the field addressTable points to
    pc, slot, pointer,  \* of each thread: where it is, its local slot, and
                        \*   the value of addressTable it works with
    mine,               \* history: the slots each thread holds
    fault,              \* an access went to a mapping that is gone
    remapFailed         \* history: an mremap failed

vars == <<table, freeList, numFragmentedFree, numPages, numAddresses,
          slotAllocationMutex, mapping, mapped, addressTable, pc, slot, pointer,
          mine, fault, remapFailed>>

\* A null entry is free for the taking; (void *) -1 marks an entry whose object
\* is not there yet.
Entry == {"null", "marked", "object"}
Slots == 0 .. MaxAddresses - 1

maxNumAddresses == numPages * AddrPerPage

\* A store to a page that is not mapped ends the process.
Alive == ~fault

Init ==
    /\ table = [s \in Slots |-> "null"]
    /\ freeList = <<>>
    /\ numFragmentedFree = 0
    /\ numPages = 1
    /\ numAddresses = 1
    /\ slotAllocationMutex = NoThread
    /\ mapping = 0
    /\ mapped = 1
    /\ addressTable = 0
    /\ pc = [t \in Threads |-> "idle"]
    /\ slot = [t \in Threads |-> 0]
    /\ pointer = [t \in Threads |-> 0]
    /\ mine = [t \in Threads |-> {}]
    /\ fault = FALSE
    /\ remapFailed = FALSE

Goto(t, from, to) ==
    /\ Alive
    /\ pc[t] = from
    /\ pc' = [pc EXCEPT ![t] = to]

tableVars == <<table, mapping, mapped, addressTable, fault, remapFailed>>
listVars == <<freeList, numFragmentedFree>>
sizeVars == <<numPages, numAddresses>>

-----------------------------------------------------------------------------
(* An unlocked access to an entry: load the field addressTable, then store *)
(* through it.  The store to an entry of mapped memory takes effect.       *)

LoadPointer(t, from, to) ==
    /\ Goto(t, from, to)
    /\ pointer' = [pointer EXCEPT ![t] = addressTable]
    /\ UNCHANGED <<tableVars, listVars, sizeVars, slotAllocationMutex, slot, mine>>

Reaches(ptr, s) == ptr = mapping /\ s < mapped * AddrPerPage

Store(ptr, s, entry) ==
    IF Reaches(ptr, s)
    THEN table' = [table EXCEPT ![s] = entry] /\ fault' = fault
    ELSE fault' = TRUE /\ table' = table

StoreEntry(t, from, to, entry) ==
    /\ Goto(t, from, to)
    /\ Store(pointer[t], slot[t], entry)
    /\ UNCHANGED <<mapping, mapped, addressTable, remapFailed, listVars, sizeVars,
                   slotAllocationMutex, slot, pointer, mine>>

-----------------------------------------------------------------------------
(* allocateSlot                                                            *)

\* newObject and newArray begin with it.
Call(t) ==
    /\ Goto(t, "idle", "limit")
    /\ UNCHANGED <<tableVars, listVars, sizeVars, slotAllocationMutex, slot,
                   pointer, mine>>

\* The unlocked test of numAddresses; 0 is returned when it holds.
CheckLimit(t) ==
    /\ Goto(t, "limit", IF numAddresses = SlotLimit THEN "idle" ELSE "pop")
    /\ slot' = [slot EXCEPT ![t] = 0]
    /\ UNCHANGED <<tableVars, listVars, sizeVars, slotAllocationMutex, pointer,
                   mine>>

\* Mutant: the node stays linked.
PopFreeKeepsNode(t) ==
    /\ freeList # <<>>
    /\ Goto(t, "pop", "mark")
    /\ slot' = [slot EXCEPT ![t] = Head(freeList)]
    /\ numFragmentedFree' = numFragmentedFree - 1
    /\ mine' = [mine EXCEPT ![t] = @ \cup {slot'[t]}]
    /\ UNCHANGED <<tableVars, freeList, sizeVars, slotAllocationMutex, pointer>>

\* The critical section of freeListMutex: a free slot is taken off the list.
PopFree(t) ==
    /\ freeList # <<>>
    /\ Goto(t, "pop", "mark")
    /\ slot' = [slot EXCEPT ![t] = Head(freeList)]
    /\ freeList' = Tail(freeList)
    /\ numFragmentedFree' = numFragmentedFree - 1
    /\ mine' = [mine EXCEPT ![t] = @ \cup {slot'[t]}]
    /\ UNCHANGED <<tableVars, sizeVars, slotAllocationMutex, pointer>>

ListEmpty(t) ==
    /\ freeList = <<>>
    /\ Goto(t, "pop", "extend")
    /\ UNCHANGED <<tableVars, listVars, sizeVars, slotAllocationMutex, slot,
                   pointer, mine>>

\* Mutant: a reused entry is not marked.
MarkForgotten(t) ==
    /\ Goto(t, "markStore", "got")
    /\ UNCHANGED <<tableVars, listVars, sizeVars, slotAllocationMutex, slot,
                   pointer, mine>>

\* "prevent automatic freeing", after the mutex was released.
LoadForMark(t) == LoadPointer(t, "mark", "markStore")
Mark(t) == StoreEntry(t, "markStore", "got", "marked")

LockForExtension(t) ==
    /\ slotAllocationMutex = NoThread
    /\ Goto(t, "extend", IF numAddresses = maxNumAddresses THEN "remap" ELSE "bump")
    /\ slotAllocationMutex' = t
    /\ UNCHANGED <<tableVars, listVars, sizeVars, slot, pointer, mine>>

\* mremap may move the mapping; the field still points to the old one.
Remap(t) ==
    /\ Goto(t, "remap", "publish")
    /\ mapping' \in {mapping, mapping + 1}
    /\ mapped' = numPages + 1
    /\ UNCHANGED <<table, addressTable, fault, remapFailed, listVars, sizeVars,
                   slotAllocationMutex, slot, pointer, mine>>

\* mremap fails: 0 is returned, and slotAllocationMutex stays locked.
RemapFails(t) ==
    /\ Goto(t, "remap", "idle")
    /\ remapFailed' = TRUE
    /\ UNCHANGED <<table, mapping, mapped, addressTable, fault, listVars, sizeVars,
                   slotAllocationMutex, slot, pointer, mine>>

Publish(t) ==
    /\ Goto(t, "publish", "bump")
    /\ addressTable' = mapping
    /\ numPages' = numPages + 1
    /\ UNCHANGED <<table, mapping, mapped, fault, remapFailed, listVars, numAddresses,
                   slotAllocationMutex, slot, pointer, mine>>

\* Mutant: the mutex is not released.
BumpKeepsMutex(t) ==
    /\ numAddresses < MaxAddresses
    /\ Goto(t, "bump", "got")
    /\ slot' = [slot EXCEPT ![t] = numAddresses]
    /\ numAddresses' = numAddresses + 1
    /\ Store(addressTable, numAddresses, "marked")
    /\ mine' = [mine EXCEPT ![t] = @ \cup {numAddresses}]
    /\ UNCHANGED <<mapping, mapped, addressTable, remapFailed, listVars, numPages,
                   slotAllocationMutex, pointer>>

\* The table grows by one entry; MaxAddresses bounds the exploration.
Bump(t) ==
    /\ numAddresses < MaxAddresses
    /\ Goto(t, "bump", "got")
    /\ slot' = [slot EXCEPT ![t] = numAddresses]
    /\ numAddresses' = numAddresses + 1
    /\ Store(addressTable, numAddresses, "marked")
    /\ slotAllocationMutex' = NoThread
    /\ mine' = [mine EXCEPT ![t] = @ \cup {numAddresses}]
    /\ UNCHANGED <<mapping, mapped, addressTable, remapFailed, listVars, numPages,
                   pointer>>

-----------------------------------------------------------------------------
(* The rest of newObject and newArray.                                     *)

\* The heap had room: setRawAddress.  Its test of the slot against
\* maxNumAddresses passes: numPages was raised before the slot was handed out.
LoadForSet(t) == LoadPointer(t, "got", "setStore")
SetRawAddress(t) == StoreEntry(t, "setStore", "idle", "object")

\* It had not (or the array class could not be loaded): freeSlot.
LoadForFree(t) == LoadPointer(t, "got", "nullStore")

ClearEntry(t) == StoreEntry(t, "nullStore", "release", "null")

\* Mutant: the last slot is listed too.
ReleaseListsLast(t) ==
    /\ slotAllocationMutex = NoThread
    /\ Goto(t, "release", "push")
    /\ mine' = [mine EXCEPT ![t] = @ \ {slot[t]}]
    /\ numAddresses' = IF slot[t] + 1 = numAddresses THEN numAddresses - 1
                                                     ELSE numAddresses
    /\ numFragmentedFree' = numFragmentedFree + 1
    /\ UNCHANGED <<tableVars, freeList, numPages, slotAllocationMutex, slot,
                   pointer>>

\* Mutant: numFragmentedFree is not incremented.
ReleaseUncounted(t) ==
    /\ slotAllocationMutex = NoThread
    /\ Goto(t, "release", IF slot[t] + 1 = numAddresses THEN "idle" ELSE "push")
    /\ mine' = [mine EXCEPT ![t] = @ \ {slot[t]}]
    /\ numAddresses' = IF slot[t] + 1 = numAddresses THEN numAddresses - 1
                                                     ELSE numAddresses
    /\ UNCHANGED <<tableVars, listVars, numPages, slotAllocationMutex, slot,
                   pointer>>

\* The critical section of slotAllocationMutex: the last slot shrinks the
\* table, any other is counted and will be listed.
Release(t) ==
    /\ slotAllocationMutex = NoThread
    /\ mine' = [mine EXCEPT ![t] = @ \ {slot[t]}]
    /\ \/ /\ slot[t] + 1 = numAddresses
          /\ Goto(t, "release", "idle")
          /\ numAddresses' = numAddresses - 1
          /\ UNCHANGED numFragmentedFree
       \/ /\ slot[t] + 1 # numAddresses
          /\ Goto(t, "release", "push")
          /\ numFragmentedFree' = numFragmentedFree + 1
          /\ UNCHANGED numAddresses
    /\ UNCHANGED <<tableVars, freeList, numPages, slotAllocationMutex, slot,
                   pointer>>

\* A node is linked in under freeListMutex.
PushFree(t) ==
    /\ Goto(t, "push", "idle")
    /\ freeList' = <<slot[t]>> \o freeList
    /\ UNCHANGED <<tableVars, numFragmentedFree, sizeVars, slotAllocationMutex,
                   slot, pointer, mine>>

\* malloc fails: -1 is returned and the slot is on no list.
PushFails(t) ==
    /\ Goto(t, "push", "idle")
    /\ UNCHANGED <<tableVars, listVars, sizeVars, slotAllocationMutex, slot,
                   pointer, mine>>

-----------------------------------------------------------------------------
AllocateSlot(t) == \/ Call(t) \/ CheckLimit(t)
                   \/ PopFree(t) \/ ListEmpty(t) \/ LoadForMark(t) \/ Mark(t)
                   \/ LockForExtension(t) \/ Remap(t) \/ RemapFails(t)
                   \/ Publish(t) \/ Bump(t)

Finish(t) == \/ LoadForSet(t) \/ SetRawAddress(t)
             \/ LoadForFree(t) \/ ClearEntry(t) \/ Release(t)
             \/ PushFree(t) \/ PushFails(t)

Next == \E t \in Threads : AllocateSlot(t) \/ Finish(t)

Spec == Init /\ [][Next]_vars

\* A thread inside an operation goes on; a mutex that is free again and again
\* is eventually granted.
FairSpec ==
    /\ Spec
    /\ \A t \in Threads :
          /\ WF_vars((AllocateSlot(t) \/ Finish(t)) /\ pc[t] # "idle")
          /\ SF_vars(LockForExtension(t))
          /\ SF_vars(Release(t))

-----------------------------------------------------------------------------
Points == {"idle", "limit", "pop", "mark", "markStore", "extend", "remap",
           "publish", "bump", "got", "setStore", "nullStore", "release", "push"}

TypeOK ==
    /\ table \in [Slots -> Entry]
    /\ freeList \in Seq(Slots)
    /\ numFragmentedFree \in Nat
    /\ numPages \in Nat \ {0}
    /\ numAddresses \in 1 .. MaxAddresses
    /\ slotAllocationMutex \in Threads \cup {NoThread}
    /\ mapping \in Nat
    /\ mapped \in Nat \ {0}
    /\ addressTable \in 0 .. mapping
    /\ pc \in [Threads -> Points]
    /\ slot \in [Threads -> Slots]
    /\ pointer \in [Threads -> 0 .. mapping]
    /\ mine \in [Threads -> SUBSET Slots]
    /\ fault \in BOOLEAN
    /\ remapFailed \in BOOLEAN

Held == UNION {mine[t] : t \in Threads}

\* Threads that have given a slot up and not yet listed it.
Listing == {t \in Threads : pc[t] = "push"}

(***************************************************************************)
(* A slot is in one place only: with one thread, once on the free list, or *)
(* with the thread that is about to list it; and every such slot is below  *)
(* numAddresses, so that growing the table hands out a fresh one           *)
(* (indirection.c:78-104, 119-135: two mutexes, neither held throughout).  *)
(***************************************************************************)
OnePlace ==
    /\ IsInjective(freeList)
    /\ ToSet(freeList) \cap Held = {}
    /\ \A t \in Listing : slot[t] \notin Held \cup ToSet(freeList)
    /\ \A t, u \in Listing : t # u => slot[t] # slot[u]
    /\ \A t, u \in Threads : t # u => mine[t] \cap mine[u] = {}
    /\ Held \cup ToSet(freeList) \cup {slot[t] : t \in Listing}
          \subseteq 1 .. numAddresses - 1

(***************************************************************************)
(* From the moment allocateSlot returns a slot until it is freed, its      *)
(* entry is not null: whoever looks for free slots passes it by            *)
(* (indirection.c:86, 101: "prevent automatic freeing").                   *)
(***************************************************************************)
HeldIsProtected ==
    Alive => \A t \in Threads : \A s \in mine[t] :
        table[s] = "null" => s = slot[t] /\ pc[t] \in {"mark", "markStore", "release"}

(***************************************************************************)
(* The atomic numFragmentedFree is raised in one critical section and the  *)
(* slot listed in a later one.  It never falls below the number of listed  *)
(* slots, so its decrement (indirection.c:80) cannot wrap, and it exceeds  *)
(* it only by slots on their way to the list or lost when malloc failed.   *)
(***************************************************************************)
FreeCount ==
    /\ numFragmentedFree >= Len(freeList) + Cardinality(Listing)
    /\ numFragmentedFree <= Cardinality({s \in 1 .. numAddresses - 1 : table[s] = "null"})

(***************************************************************************)
(* A thread is stuck in the table only when the process died or a failed   *)
(* mremap left slotAllocationMutex locked.                                 *)
(***************************************************************************)
OperationsReturn ==
    \A t \in Threads :
        pc[t] # "idle" ~> \/ pc[t] = "idle"
                          \/ ~Alive
                          \/ remapFailed
                          \/ numAddresses = MaxAddresses   \* the bound

\* The address table implements the pool of slots.
Pool == INSTANCE SlotPool WITH Threads <- Threads, Slots <- Slots, mine <- mine
PoolSpec == Pool!Spec
=============================================================================
