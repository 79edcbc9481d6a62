# A TLA+ model of a small Java virtual machine

The program in `src/` is a JVM written in C: a bytecode interpreter, a class
loader, a heap whose objects are reached through a table of addresses, and a
collector thread that stops the Java threads before it works. This directory
holds TLA+ modules of that program, the TLC configurations that check them
on small instances, and proofs, checked by TLAPS, of what holds for every
instance. `PROJECT.json` lists components, runs, mutants, the source lines of
every definition, the disagreements found, the hazards and the theorems.

    tlc -workers 2 -config MCSafepoint.cfg MCSafepoint.tla     # a run
    tlapm SafepointProofs.tla                                  # the proofs of a module

## 1. Inventory

### The components

**Stop-the-world protocol** (`gc.c`). State: `gcWantsToRun`, `requestedMode`,
`numThreadsWaiting` (atomic, unsigned), `gcCycle`, the registry `jthreads` /
`numThreads` / `maxNumThreads`, all but the counter guarded, some of the time, by
`gcRunningMutex`. Operations: `savePoint` (before every instruction, and after
every request), `requestGC`, `registerThread`, `unregisterThread`; the collector's
`gcLoop` and `runGC`. Hard: the flag and the counters are read without the mutex,
the test compares two numbers that are loaded one after the other, and threads
come and go meanwhile. Correct when: no registered thread executes while the
collector works; a wanted collection takes place; a forced major collection is
not forgotten; threads get out again.

**Thread life cycle** (`jthread.c`, `main.c`). State: a thread's stack of frames,
its id; the launcher's progress through `main`. Operations: `threadStart`,
`threadRoutine`, `destroyThread`, and the end of `main`. Hard: a thread registers
itself some time after it was created; the launcher allocates objects and passes
save points without ever being registered.

**Object allocation** (`heap.c`, `mm.c`). State: `edenNextPos` and the other
generations' positions, under `allocationMutex`. Operations: `allocateObject`,
`allocateArrayObject`, `newObject`, `newArray`, and the moves between generations
(which nothing calls). Hard: a collection is requested and awaited with the mutex
held; sizes are rounded up after they were compared. Correct when: objects lie in
eden and apart, nothing is allocated during a collection, and a failed allocation
harms nobody else.

**Address table** (`indirection.c`). State: the mapped table, `numPages`,
`numAddresses`, the list of free slots and `numFragmentedFree`, under two
mutexes, and accessed without any. Operations: `allocateSlot`, `freeSlot`,
`getRawAddress`, `setRawAddress`, `rebuildFreeList` (by the collector, after 8192 freed
slots: never, as a table takes 15), `compactAddressTable` (commented out). Hard: a slot moves between the list and the
end of the table in two critical sections; `mremap` may move the table under an
unlocked store; calls fail in between. Correct when: a slot has one user at a
time, and slots in use are not taken for free.

**Re-entrant lock** (`jlock.c`). State: a mutex, `owner`, `acquiredCount`.
Operations: `jlock_lock`, `jlock_unlock` (and `jlock_wait`, `jlock_notify(_all)`, which
nothing calls).
Hard: `owner` is read without the mutex. Correct when: it is a monitor.

**Class initialisation** (`bytecode_interpreter.c`). State: `status` and `lock` of
each class, the frames of each thread. Operations: `initializeClass`, the static
initialisers it runs in a nested `run`, `throwException`. Hard: `status` is read
outside the lock, initialisers recurse into other classes, any step may fail, and
a busy loop waits for other threads. Correct when: an initialiser runs once and
alone, superclasses first, and callers get a true answer.

**Bytecode interpreter** (`bytecode_interpreter.c`, `jthread.c`). State: pc, operand
stack, a stack of type tags beside it, locals, `exception`. Operations: the handlers of
about 200 instructions, which peek, pop and push cells one at a time and look at tags to
know how wide a value is. Hard: a handler that returns 0 is executed again, on what it
has left of the stack; cells and tags are written by different calls; `lookupswitch`
searches by recursion. Correct when: each handler does to stack, locals and pc what its
instruction promises, or nothing.

**Class loader** (`classloader.c`) with **hash map** (`hashmap.c`). State: the map of
loaded classes, the `class_t` records and their status, `classLoadingLock`.
Operations: `loadClass`, `loadPrimitiveClass`, `loadArrayClass`, `loadClass0`,
`parseClassFile`; `ht_put`, `ht_get`, `ht_contains`, `ht_delete`, `expandHashmap`. Hard:
loading recurses into superclasses and interfaces with the unfinished class already in
the map; any allocation may fail, and the clean-up takes the class out again; the map
grows while it is used. Correct when: a class is finished after its ancestors, a cyclic
hierarchy is refused, a class is loaded once, the map lists the finished classes.

**Parsers** (`constantpool.c`, `attributes.c`) and **descriptors** (`dataTypes.c`,
`classfile.c`). No state of their own; they write the `class_t`: constants, field
layout, numbers of parameters, the code of methods (copied, not looked at). Hard: constants and parameters that
count twice. Correct when: indexes are those of the file, fields do not overlap, a
parameter has the local variable and the type its descriptor gives it.

**Objects** (`object.c`): element access by the type of an array. **Command line**
(`main.c`), **strings** (`utils.c`, `stringutils.c`): sequential code over data.

### How they interact

Java threads and the launcher call everything; the collector is the only other
thread. `run` calls `savePoint` before each instruction. An instruction may
allocate (`newObject` takes a slot, then memory; the memory may call `requestGC` and
`savePoint`), may initialise classes (which runs instructions, allocates strings and
may throw, which initialises and allocates again), and may enter monitors. The difficult
behaviours come from three ways to wait that do not know of each other: the save
point's loop, mutexes (`allocationMutex`, class locks, monitors), and the busy loop
of `initializeClass`. Only the first lets the collector go on.

The program starts one Java thread: `threadStart` is called at `main.c:212` alone, and
`README.md:21` says that threads cannot be created yet. The code is written for any
number, and the models have several. What needs a second Java thread to go wrong is
a hazard of the day it can be created, and no disagreement that a run shows is of that kind.

## 2. Modules

| Module | Models | Composes |
|---|---|---|
| `Safepoint` | the protocol, the registry, the life of threads and of `main` | |
| `Runtime` | the allocator | `Safepoint` |
| `SlotPool` | what the address table promises | |
| `AddressTable` | `indirection.c` under threads that allocate objects | refines `SlotPool` |
| `Monitor` | what a re-entrant lock promises | |
| `JLock` | `jlock.c`, one shared access a step | refines `Monitor` |
| `ClassInit` | `initializeClass`, nested initialisers, exceptions | uses monitors |
| `ClassInitGC` | the same with save points and a collector | `ClassInit`, `Safepoint` |
| `Instructions` | what the mnemonics promise: operands, results, lengths | |
| `TypedStack` | a frame of verified code, by the instruction set | `Instructions` |
| `Interpreter` | the handlers on operand stack, tags, locals and pc | refines `TypedStack` |
| `Values` | what arithmetic, comparisons and switches compute | |
| `ClassFile` | parsers and descriptors, as operators | |
| `HashMap` | `hashmap.c`, as actions of its caller | |
| `ClassSpace` | what a class loader promises | |
| `ClassLoader` | `classloader.c` under several threads | `ClassFile`, `HashMap`; refines `ClassSpace` |

`MC<module>` holds the instance and, where a run looks for a disagreement, the
property a comment of the code states. `SafepointProofs`, `JLockProofs`,
`RuntimeProofs`, `AddressTableProofs`, `ClassInitProofs` (with those of `ClassInitGC`),
`ValuesProofs`, `ClassLoaderProofs` and `InterpreterProofs` hold the proofs. Operators commented "Mutant" are altered forms of the definition that follows;
no specification uses them.

### Safepoint

`pc[p]` is the point of thread `p` in `savePoint` (lines 40, 41, 42 and 44 of `gc.c`)
or in its life; `registered` is the set of threads in `jthreads`. A step is one access to
`gcWantsToRun` or `numThreadsWaiting`, or a whole critical section of
`gcRunningMutex`; the collector alone holds that mutex over several steps
(`GCHolds`). The comparison at line 120 is two steps in either order, with the first
value kept in `seen`. `numThreadsWaiting` counts modulo `Modulus`, as the decrement at
line 45 is not tied to the increment at line 41. Three variables are history:
`counted` (incremented and not yet decremented), `debt` (decrements without
increment) and `late` (registered after the collector loaded `numThreads`).
Failures included: `pthread_create`, `realloc` in `registerThread`, and a `main` class
that is missing. The passes over the heap are stubs in the code and have no state;
what the model keeps is which of them a cycle makes (`OldPass`).

### Runtime

Adds `allocationMutex`, `edenNextPos`, where each thread is in `allocateObject`
(`activity`), which collection it has asked for (`attempt`), and the extents of the
objects. `GiveUp` returns without unlocking, as line 62 of `heap.c` does. `majored` is
history: the processes since whose last request for a collection a cycle has passed over the
old heap. (None is under way when the request is made: both need `gcRunningMutex`.) The steps of
the protocol are those of `Safepoint` with the allocator's guards; the allocator adds its own
state, and the properties are about that state.

### AddressTable

`mapping` and `mapped` are what the operating system has; `addressTable`, `numPages` are
what the program believes. An unlocked access is two steps, the load of the
field and the store through it. `mremap` may move the table or fail; `malloc` may fail. A
store to memory that is not mapped ends the process (`fault`). `mine` is
history: the slots each thread holds. `rebuildFreeList` is left out: the collector calls it when
`numFragmentedFree` has reached 8192 (`gc.c:140`), and `allocateSlot` stops at 15 slots.

### JLock

A step is one access to `owner`, `acquiredCount` or the mutex. `depth` is
history: entries less exits.

### ClassInit and ClassInitGC

`stack[t]` is a sequence of frames, each a class and a point in `initializeClass`;
the bottom frame is the thread's own code. `result[t]` is the answer of the call that
just returned. An initialiser's code is abstracted to which classes it may need
(`Triggers`), whether it returns or throws. Constants that need a string may fail;
throwing needs `ErrorClass` initialised, and ends the process if that fails.
`ClassInitGC` interleaves it with `Safepoint`: steps of `initializeClass` are inside an
instruction, initialisers pass save points between instructions, and allocations may
request collections.

### Instructions, TypedStack and Interpreter

`Instructions` is written from the opcode table (`javaBytecode.csv`) and the mnemonics: for
each instruction the cells it takes, those it leaves and its length. It is the
reference the handlers are compared with. `Interpreter` has one action per handler (or
group of handlers that share their code); the stack is a sequence of cells, each with what it holds
(a value of a type, one half of a wide value, or `Junk`) and whether its tag says "wide".
The method's code is any verified code: the next instruction is any one the verifier would
accept, or the same one again if the handler returned 0 (`retry`). `TypedStack`
executes the instructions as promised; an instruction of `KnownToFail` may go wrong in
it once, after which nothing is promised and both models end. So the refinement
`InstructionSet` says of every other instruction that it does the right thing in every
frame that verified code can build, whatever was thrown on the way. The frame is
one that `initializeClass` makes for a static initialiser. That of `main`, which `createThread` gives the size of a
pointer (`jthread.c:40`), is left out: what becomes of parts that lie over each other
depends on the allocator. No handler makes a call, so returns
with values and `ret` to a caller do not happen. `result = "failed"` is never
reached, as no handler returns the code for it.

### Values

One execution of one instruction on words of `Bits` bits. The result is a word or one of
the outcomes C has: an exception, a trap, an undefined value. `Search` takes one step
for each recursive call of `lookupswitch_binary_search`.

### ClassFile, HashMap and ClassLoader

A file is a record: constants with tags and references, fields and methods with the
index of their descriptor, descriptors as sequences of letters. `ClassFile` gives what
each parser makes of it. The parser of constants gives a long or double one index, so it
ends too late and takes the flags of the class for the tag of a constant: refused, unless the
class is abstract or synthetic, when that byte is 4, 6 or 16. Files of that last kind are left
out, as what becomes of them depends on every byte behind the constants. `ParameterModulus` is
the width of `numParameters`, 2^8 in the code, and a number of parameters is kept modulo it. The
attributes of methods have no state in the model but that they may be refused or find no memory. `HashMap` keeps a bucket as its list of keys; `stale` are buckets that point to a
node that was freed, `overlaid` says that the allocation at `hashmap.c:26`, a pointer's
size for a whole struct, made the first two buckets hold fields of the struct (a
nondeterministic choice at the start). `calls` is the stack of `loadClass0` in the one
thread that holds the lock; a call goes through lookup, superclass, interfaces and
members, and each allocation may fail; that of the fields is not tested, and the clean-up
after any failure of the members crashes. `asked` is empty until a thread asks for a class. `complete` is history: names of which there is a
finished class. A file is assumed to hold the class of its name. `FilesAssumption` says of
the files that what the parsers fill arrays from are sequences, and that the indexes an
accepted file gives of its parents lead to names.

`ClassSpace` knows which classes are usable and which of them are found again (`kept`): a
class whose node `ht_put` had no memory for is finished, and returned, but may be refused
when it is asked for next. `TypeOK` bounds the depth of the calls: two for each class with
a file, its own and that of an array class above it, and two more for each allocation that failed,
as a class that is not in the map may be begun again. `ParsedRight` compares the finished
records with the files; about the fields of an object it speaks when all ancestors are
loaded classes: an array class is given the size of a header whatever `java/lang/Object` has,
so that a class below one would overlap those fields, and the record of a class that is loaded
again is empty for a while.

## 3. Runs

| Run | Instance | Shows |
|---|---|---|
| `safepoint` | 2 Java threads, launcher, collector; registry of 1 that must grow; 2 uncounted passes; major cycle every 2 | the invariants and liveness of the protocol |
| `address_table` | 2 threads, pages of 2 entries, slot limit 3, table up to 5 | one place per slot, protected entries, the count, refinement of `SlotPool`, operations return |
| `jlock` | 3 threads, depth 3 | the fields agree, refinement of `Monitor`, no starvation |
| `runtime` | 2 threads and launcher, eden of 4, alignment 2, sizes 1 and 2 | objects apart, nothing allocated during a collection, NULL only after a major collection |
| `classinit` | 2 threads; superclass and subclass whose initialisers need each other, and the error class | exclusive, in order, final, truthful; no way to block but a circle |
| `classinit_gc` | 2 threads, one class and the error class, collector | classes do not change in a stopped world; only crossed waits block |
| `interpreter` | two locals of types int and long, pushes up to depth 2 (stacks up to 6 cells) | refinement of the instruction set |
| `values` | all pairs of 4-bit words; all tables of up to 3 keys | truncating division, ordering comparisons, `lookupswitch` finds its entry and `tableswitch` its first, the search ends where it can |
| `classloader` | 2 threads; `Derived` over `Base` over `Object`, an interface, an array, a primitive; 14 sets of files, an array class as a superclass among them; 1 failing allocation | refinement of `ClassSpace`, the map, the layout, why loads fail, loads return |
| `safepoint_allows_gc` | as `safepoint` | *violated*: a wanted collection may never come |
| `main_waits` | 1 Java thread | *violated*: `main` may return before its thread registers |
| `minor_tried` | 1 Java thread and launcher, size 3 in an eden of 4 | *violated*: the launcher's collection is never made |

**Bounds.** Two Java threads are enough for every pairwise race, and the launcher and
the collector make four actors; that three or more behave the same is what the proofs
say, and so of longer stacks, deeper hierarchies and wider words. `InitialCapacity = 1` makes the registry grow
and fail to grow with the second thread. `MaxPasses` bounds how many uncounted save
points are explored (each adds one to `debt`; a second shows that debts add up).
`Modulus = 8` lets the counter wrap below 0 without coming near the number of threads,
as 2^64 does. Eden holds two small objects, so that the third allocation finds it
full at once; sizes 1 and 2 are one that needs rounding and one that does not. Pages of
two entries make a table of five grow twice; slot limit 3 is met while slots are
free. (In the code 15 slots are far less than the 512 of a page, so that the table grows only
after two threads stepped over the limit together, which tests for equality; the instance
reaches `mremap` directly, and leaves the limit in.) `MaxFrames` is not reached in `classinit` (a larger one gives the same
states).

In `interpreter` every type appears on the stack, but locals only as int and
long: handlers ask a type for its width alone, and two locals are what a long needs.
The largest instruction takes and leaves six cells on stacks of four (`dup2_x2`), so
pushing up to depth 2, and moving cells at the depth they need, meets every shape of
operands with and without something below; larger bounds multiply the states only. Four
bits give words on both sides of zero, the least word, quotients that truncate and differences
that overflow; three keys give a search both halves, an empty one and one of one entry. In
`classloader` there are 6 buckets instead of 16, so that the sixth class finds the
map more than three quarters full (the thirteenth in the code); two names share a
bucket and one lies in the first two; `ParameterModulus` is 6, so that one descriptor's count just fits and one wraps; `SizeModulus` is 36 so that one of the bases is larger than its size
can say; one allocation fails, at every place.

**Deadlock.** Every run says `CHECK_DEADLOCK FALSE`: the process may end (the launcher
returns, a fault, a crash, `exit(1)`, an answer), it may block for good, which the
liveness properties talk about, and `Values` and `Interpreter` end with their instruction or
program.

**Fairness.** Weak fairness on the steps of a thread that can go on: the scheduler of
the operating system runs every thread. Strong fairness on taking a mutex that is
free again and again: the code relies on it, as the collector releases
`gcRunningMutex` only around a `sched_yield` (`gc.c:121-123`). The timer has no fairness in
`Safepoint` (collections must start because they were requested). In `ClassInitGC` a
thread in the save point's loop sees the flag down if it is down again and again:
`gcInterval` lies between two collections. An initialiser, a program of the user's, is
assumed to end (`Ends`, and the last clause of `ClassInit`'s `Fairness`): the interpreter
repeats an instruction whose exception was created, so an initialiser that fails for ever
at the same instruction is such a program that does not end. In `ClassLoader` the holder
of the lock goes on and each thread gets the lock some time; in `Values` a search goes on.
Nothing obliges a thread to
call the allocator, to start threads or to finish.

**What `Balanced` is.** Because of `gc.c:45` liveness of collections fails outright
(`safepoint_allows_gc`). To say what else holds, `BalancedProgress` and
`InitializationEnds` look at behaviours in which every thread was counted when it entered the loop. Those are the behaviours the
code would have if the decrement were made conditional, with a collection pending at
every save point. The violation of `minor_tried` needs no decrement that was not matched: a
repair of line 45 would not touch it.

## 4. Disagreements

Shown by runs:

* `gc.c:45` decrements a counter it did not increment; after one save point passed
  without a collection pending, no collection is possible and all threads spin.
* `heap.c:55`: the launcher makes the arguments of `main` before there is a Java thread. If they do not fit
  in eden, it counts itself and waits, while the collector waits for a number of registered threads
  equal to that of the waiting, 0 and 1.
* `main.c:215` looks at `numThreads`, which the new thread raises itself; until it has, `main` may return
  and end the process.

Kept in the models as the code has them; where a property below names an exception, this is
the reason.

*Threads.* `heap.c:54` waits for a collection with `allocationMutex` held, and a registered thread blocked at
line 51 never reaches a save point; `bytecode_interpreter.c:109` spins without one, the same
circle (the exception of `InitializationEnds`). `indirection.c:87` stores through a
pointer that another thread's `mremap` may have replaced, into the old mapping or into
nothing (`fault`). `heap.c:62` and `indirection.c:96` return with a mutex locked.
`indirection.c:75` takes `sizeof` bytes for bits, so the table is full at 15 slots, free
ones or not; `indirection.c:155` shrinks the mapping but not `numPages`. a collection by the timer is a full one only every eighth
time (`gc.c:31`, `gc.c:136`). `jlock.c:52`, in the uncalled wait, does not restore `owner` and
`acquiredCount`.

*Instructions* (`KnownToFail` of `Interpreter`, `ArithmeticLaws`, `SearchEnds`). Several
handlers throw after they have popped their operands and are then executed again without
them; none returns the code `bytecode_interpreter.h:12` has for an exception. `dup` and
`dup2` pass the tag on before or after it is set and peek below the base; `l2d` tags a
double as int; `jsr` pushes the address of its operand; `xstore_n` looks for the type as
deep as its index; `xaload` takes elements of char, long and double arrays for others, as
`newarray` numbers them differently; `arraylength` returns nothing; `new` and `anewarray` cut
an index to 8 bits; `getfield` and `putfield` count offsets in objects, `putfield` pops the object
first; `getstatic` of a small type leaves the rest of its cell as it was; the `invoke`
instructions call nothing. `tableswitch` reads entries one byte apart.
`lookupswitch` does not end for a missing key above the lowest. The quotient of
the least word and -1 traps; a shift by more than the width, which the JVM masks, is
undefined in C; `lcmp` looks at the sign of a difference that may overflow.

*Loading* (`Explained`, `TableSound`, `ParsedRight`). `hashmap.c:26` allocates a pointer's
size for the struct; `hashmap.c:74` reads the node after the last when the map grows, at
the 13th class; `hashmap.c:129` leaves a bucket pointing at the node it frees. Nobody gets
to see that one, because the only caller of `ht_delete` then crashes: the clean-up begins at
`constantPool[0]`, which is NULL (`classloader.c:394`). A class that is not on the class path
ends in `fileno(NULL)` (`classloader.c:420`). A class whose node could not be allocated is
returned all the same and loaded again next time. `constantpool.c:51` gives a long or
double one index, so a class file with one is refused (or misread, and then left out here). `dataTypes.c:64`
counts an array of long or double twice, and `getTypeFromMethodDescriptor` counts wide
parameters once. Sizes of objects wrap at 16 bits, numbers of parameters at 8: `classloader.c:301` stores
a count of 16 bits in a field of 8 (`classfile.h:148`), so that a method whose parameters take more
than 255 cells, which nothing refuses, has too few.

## 5. Proofs

For every finite set of threads and all values of the numbers that satisfy the
`ASSUME`s (which TLC evaluates in the runs).

**SafepointProofs.** `TypeOK` is inductive alone; the counter stays in its range because
increment and decrement wrap. `StopTheWorld` is not inductive: that two numbers were equal
says nothing without knowing what the numbers count. `IInv` adds: `Accounting` (the counter
is the number of counted threads less `debt`, modulo its width), `CountedArePaused`,
`RegistryOK`, `FlagUp` (nobody leaves the loop while the collector looks), `SeenOK` (the
value loaded first still bounds its set when the second is loaded, whichever came
first) and `Enough` (as many threads are paused as were registered). Each conjunct has
its lemma, by the actions that can disturb it; the arithmetic of cardinalities is in
`CountUp`, `CountDown`, `Exchange`. `Modulus > MaxPasses + Cardinality(Threads) + 1` says
the counter is wider than the number of threads and debts, without which equality modulo
the width would mean nothing. From `IInv` follow `RunnersPaidFor` (any number of runners
is matched by counted outsiders) and, without outsiders, `StopTheWorld`.
`ForcedMajorHonoured` needs only that `gcMode` equals `requestedMode` from the moment the
collector reads it to the moment it resets it (`ModeKept`): requests need the mutex.

**JLockProofs.** `IInv` ties program points, mutex, owner and count together, one thread at a
time; the unlocked reads of `owner` are sound because `owner = t` can only be changed by
`t`. (`IInv` of this module and of `Safepoint` were checked by TLC before they were proved; no run
repeats that.) `FieldsAgree` follows, and every step maps to a step of `Monitor` or leaves `depth`
alone: `Spec => MonitorSpec`.

**RuntimeProofs.** The steps of the allocator are built from those of `Safepoint` (`KeepsProtocol`, a
lemma), so the theorems above hold of the composed system.
`AllocatorTypes` is the type invariant, with where a thread is when it allocates.
`EdenNeverOverflows` rests on arithmetic: `edenNextPos` and `EdenSize` are multiples of the
alignment, so room for an object is room for the rounded object (`AlignFits`).
`ObjectsDisjoint` follows from the same invariant.
`NullIsLastResort` needs `MajorInv`: as long as no cycle has passed over the old heap since the
second request, its process is before or in the save point's loop, the flag is up and
`requestedMode`, or the mode of the cycle at work, is that of a forced major collection. Requests of other
threads cannot lower the mode, and the collector resets it only after such a cycle. `EdenKeepsStill` combines `StopTheWorld`,
cited from `SafepointProofs` through an instance (`P`; `SameNext` says that two instances of
`Safepoint` are the same), with `MutexOK`: who is behind `allocationMutex` holds it, at a save
point too.

**AddressTableProofs.** `OnePlace`, a slot is held, listed, about to be listed or past the
end and never two of these, is not inductive: what a thread gives back must be its own
(`LocalIsHeld`: between `allocateSlot` and `freeSlot` its local variable names a slot it
holds), and the unsigned `numFragmentedFree` must not wrap when a listed slot is taken
(`Counted`: it is at least the number of slots listed or about to be). `ImplementsSlotPool` maps
the steps that take a slot from the list or the end to `Allocate`, the one that gives it
back to `Free`, and every other step to a stutter. `SlotsInUseAreProtected` needs one
fact more, that a store hits the entry it is meant for or none (`StoreHits`). The two
halves of `FreeCount` hold for different reasons: the count is raised before a slot is listed
(`Counted`), and only after its entry was cleared, so that what is counted, listed or about to be
listed is among the entries that are protected (`SpareInv`). The theorems are
about `Spec`, in which the collector does nothing to the table.

**ClassInitProofs.** The invariant counts: the depth of a class lock is the number of its
owner's frames behind it (`LockOK` with `Inside`), whatever the stacks look like.
`InitializingIsOwned` rests on it: giving up one of several entries leaves the lock
owned. `Fresh` says that a thread that has passed the first test (line 105) for a class
has no frame at work on that class below; it holds because that test sees the class
INITIALIZING and owned by this thread. `BottomOK` keeps the thread's own frame at the bottom,
`ResultOK` says that only a waiting frame gets an answer. Steps are of two kinds, moves of
the last frame (with or without a call above it: `MovesTo`, `Step`) and returns
(`ReturnFrames`), and the lemmas about each kind are used for all actions of that kind.
`ClinitRunsOnce` follows from ownership (one thread) and `Fresh` (one frame);
`InitializedStays` from `OnlyTheOwner` (nobody but the owner changes the state of a class,
and not of an initialised one); `TrueIsUsable` needs `Finished` as well. `SuperclassFirst`
needs `CallsSuper` (above a frame that initialises its superclass lies the call for that very
class) and `SuperReady` (from then on the superclass is initialised, or a frame not above is
at work on it): the frame that gives a class up is the last of its stack when it does, so none
above relies on it.

Its last section is about `ClassInitGC`, whose steps are built from those of `ClassInit` and
`Safepoint` (two lemmas). So the theorems of both hold of it (`PromisesKept`), and `ClassesKeepStill` follows from `StopTheWorld`: a
thread that could change a class would be in an instruction.

**ValuesProofs.** `SwitchesFind` by `Narrowing`: what `Search` has excluded does not hold
the key; of `tableswitch` it says what the code does, the first entry or the default and otherwise a wrong one. `ArithmeticIsRight`, the laws of division and of the comparisons, needs no history:
an instruction is executed in one step, and what is proved is that step. A
quotient that truncates is got from the one that rounds down by the signs of the operands
(`Division`, `Sides`, `Products`); `WordRange` puts the words around zero. That
`2^Bits` is twice `2^(Bits - 1)` is `PowerAssumption`, a fact of arithmetic the provers do not
have. Proved for every width and every sorted table; that the search ends is checked by TLC.

**InterpreterProofs.** `FrameTypes` and `HandlersImplementInstructions`, for any number of locals,
any set of their types and any depth of the stack. The invariant `IInv` adds to `TypeOK`
that as long as nothing went wrong every tag says what its cell holds (`Right`); it has to,
because handlers ask the tag on top how wide a value is (`TopTag`). Three lemmas end every
handler: it did what the instruction says (`RanOK`), it did something else (`MisdoneOK`) or
it threw and will run again (`ThrewOK`); the last two ask that the instruction is among those
`KnownToFail` names, which is what the theorem excepts, and what it says is that no other
belongs there. `Replaced` says what a handler that pops its operands and pushes its result leaves;
`MoveRuns` does it for the instructions that only move cells, whose handlers count from the top
and whose promise counts from the bottom. The mnemonics are taken apart once
(`Categories`, `ByName`, and the lemmas `...Forms`), and `SameInstrs` and `SameRun` say that
the two instances of `Instructions` mean the same.

**ClassLoaderProofs.** About all sets of files that `FilesAssumption` allows, any threads,
any finite set of names and any number of buckets and of failing allocations.

* `LoaderInv` is the invariant all the rest starts from. `Typed` holds the types and that the map is
  sound; `Stack` what each call has behind it (a call that looks for its third interface has
  the first two finished) and that the call above is for a parent of the one below, so
  that a name is among those it can reach (`Reaches`); `Loading` that the classes in the making
  are those of the calls; `Finished` that parents of finished classes are finished and
  no finished class is its own ancestor. From this follow `LoaderImplementsClassSpace`
  (with `Missing`: a class that is found is never refused), `TableStaysSound` and
  `FailuresAreExplained` (with `Reasons`: if nothing failed, a load that returns NULL is for a
  file that is refused or for a class that is being loaded below).
* `LoaderTypes` needs a bound on the depth of the calls, which nothing in the code counts. A call
  above another for the same class finds it in the map and returns; so calls at work on a
  class, but for the last, are no more than the classes in the making that are listed, and
  those that failed to be listed have cost an allocation each (`Shallow`). Between two of them
  lies the call of an array class at most (`HalfWork`).
* `ClassesAreParsedRight` is about records that several calls have a hand in. The invariant
  `RecordInv` says what is known of the superclass of each class in the making
  (`SupersKnown`) and that there is an assignment of sizes, one to each class ever finished,
  that all records agree with (`Sized`). It is a history written as a quantifier: a class that had
  no room in the map is loaded again, and what was laid out upon its first record must
  still be right beside the second. The sizes satisfy the recursion (own fields on top of the
  superclass's) and, if what the classes above need fits in 16 bits, follow each other without
  a gap (`Stacked`), by counting fields class by class (`NeedAdds`). Within a
  class `PlacesApart` adds up sizes in the order `qsort` left (any order is a permutation, so the
  total is that of the file: `AsManyPlaces`, `WholeExtent`). That as many local variables are
kept as the parameters take is proved where the count fits in `ParameterModulus`. `BeginsWhere` ties the letters a
  descriptor's parameters are counted by to the places where the other parser looks for the type.

  `Reaches` and `Ancestry` are least sets, not recursions, so what is needed of them
  (`ClosureIsLeast`, `UpIsLeast`) can be proved; `Up` is the same set of superclasses by the
  files instead of the records, and the two agree where all are loaded (`AncestorsAreUp`).

**Only model-checked.** Everything about liveness, which is outside what this prover does
(`ENABLED` and fairness), and with it that `lookupswitch_binary_search` ends where it does; and
the three disagreements, which are counterexamples. Every invariant and action
property of the passing runs has its theorem.

## 6. Not modelled, and why

`jlock_wait` and the notifications, the moves of objects between generations
(`heap.c:106` to `184`), `ht_entries`, `ht_destroyHashmap` and
`destroyAndFreeAddressIndirectionInfo`: nothing calls them. `compactAddressTable`: its
call is commented out. The passes of the collector over the heap: stubs in the code.
`rebuildFreeList`: never called, as said above. The frame of `main` (`jthread.c:35` to `43`), and files
of abstract or synthetic classes with a long or double: what they lead to is decided by the
allocator and by the bytes of the file. Typed returns, calls, `ret` and the dispatch of exceptions: stubs, or reached from stubs
only. Contents of arrays and fields, and the conversion of strings: no property is about
them. The search along the class path:
a file is there or not. The command line: a sequential parser of strings that runs once;
the sizes it sets are constants here. The generator of the opcode table and the build files have
no behaviour. Addresses and contents of memory are left out except where two pointers to
the table differ. Weak memory: the atomics and volatiles are taken in program order (see
the head of `Safepoint`); other data races are nondeterministic steps.

## 7. Plan

1. `JLock` composed with `Safepoint`: monitors block outside save points, as the busy loop does.
2. The registry as the array it is.
3. The command line: suffixes and products at the width of `size_t`, and the order of the
   start-up steps.
4. Array and field contents, with `convertToJavaString` on top of them.
5. What a class initialiser promises, as a specification of its own that `ClassInit` and
   `ClassInitGC` implement, and the proof of it.
