---------------------------- MODULE RuntimeProofs -----------------------------
(***************************************************************************)
(* Theorems about Runtime: the allocator keeps to the stop-the-world       *)
(* protocol, and to eden, for every number of threads, every eden and      *)
(* every alignment.                                                        *)
(***************************************************************************)
EXTENDS Runtime, TLAPS

\* Safepoint once more, with the theorems about it.
P == INSTANCE SafepointProofs

-----------------------------------------------------------------------------
(* Arithmetic of ALIGN.                                                    *)

LEMMA Division ==
    ASSUME NEW a \in Nat \ {0}, NEW x \in Nat
    PROVE  /\ x = a * (x \div a) + (x % a)
           /\ x % a \in 0 .. a - 1
           /\ x \div a \in Nat
OBVIOUS

LEMMA MultiplesApart ==
    ASSUME NEW a \in Nat \ {0}, NEW p \in Nat, NEW q \in Nat, p < q
    PROVE  a * p + a <= a * q
OBVIOUS

LEMMA MultipleHasNoRest ==
    ASSUME NEW a \in Nat \ {0}, NEW q \in Nat
    PROVE  a * q \in Nat /\ (a * q) % a = 0
<1> DEFINE x == a * q
           p == x \div a
<1>1. x \in Nat
  OBVIOUS
<1>2. x = a * p + (x % a) /\ x % a \in 0 .. a - 1 /\ p \in Nat
  BY <1>1, Division
<1>3. ~(p < q) /\ ~(q < p)
  <2>1. p < q => a * p + a <= a * q
    BY <1>2, MultiplesApart
  <2>2. q < p => a * q + a <= a * p
    BY <1>2, MultiplesApart
  <2>3. a * p \in Nat
    BY <1>2
  <2> QED
    BY <1>1, <1>2, <2>1, <2>2, <2>3
<1>4. p = q
  BY <1>2, <1>3
<1>5. x % a = 0
  <2>1. a * p = a * q
    BY <1>4
  <2> QED
    BY <1>1, <1>2, <2>1
<1> QED
  BY <1>1, <1>5

\* Multiples of the alignment are closed under what Grant does with them.
LEMMA AlignFits ==
    ASSUME NEW e \in Nat, e % Alignment = 0,
           NEW limit \in Nat, limit % Alignment = 0,
           NEW n \in Nat, limit - e >= n
    PROVE  /\ Align(n) \in Nat
           /\ Align(n) >= n
           /\ (e + Align(n)) % Alignment = 0
           /\ e + Align(n) <= limit
<1> DEFINE A == Alignment
           q == (n + A - 1) \div A
           i == e \div A
           k == limit \div A
<1>0. A \in Nat \ {0}
  BY EdenAssumption
<1>1. /\ n + A - 1 \in Nat
      /\ n + A - 1 = A * q + ((n + A - 1) % A)
      /\ (n + A - 1) % A \in 0 .. A - 1
      /\ q \in Nat
  <2>1. n + A - 1 \in Nat
    BY <1>0
  <2> QED
    BY <1>0, <2>1, Division
<1>2. e = A * i /\ i \in Nat
  BY <1>0, Division
<1>3. limit = A * k /\ k \in Nat
  BY <1>0, Division
<1>4. Align(n) = A * q /\ A * q \in Nat
  <2>1. A * q = q * A /\ A * q \in Nat
    BY <1>0, <1>1
  <2> QED
    BY <2>1 DEF Align
<1>5. A * q >= n /\ A * q < n + A
  BY <1>0, <1>1, <1>4
<1>6. e + A * q = A * (i + q) /\ i + q \in Nat
  BY <1>0, <1>1, <1>2
<1>7. (A * (i + q)) % A = 0
  BY <1>0, <1>6, MultipleHasNoRest
<1>8. A * (i + q) <= A * k
  <2>1. ~(k < i + q)
    <3>1. k < i + q => A * k + A <= A * (i + q)
      BY <1>0, <1>3, <1>6, MultiplesApart
    <3> QED
      BY <1>0, <1>2, <1>3, <1>4, <1>5, <1>6, <3>1
  <2>2. CASE i + q = k
    BY <2>2, <1>3, <1>0
  <2>3. CASE i + q < k
    BY <2>3, <1>0, <1>3, <1>6, <1>4, <1>2, MultiplesApart
  <2> QED
    BY <1>3, <1>6, <2>1, <2>2, <2>3
<1> QED
  BY <1>3, <1>4, <1>5, <1>6, <1>7, <1>8

-----------------------------------------------------------------------------
(* Eden.                                                                   *)

\* edenNextPos is a multiple of the alignment within eden; everything below it
\* is in objects that do not overlap.
EdenInv ==
    /\ size \in [S!Procs -> Nat]
    /\ activity \in [S!Procs -> {"bytecode", "lock", "fit"}]
    /\ edenNextPos \in Nat
    /\ edenNextPos % Alignment = 0
    /\ EdenBounded
    /\ objects \subseteq Nat \X Nat
    /\ \A o \in objects : o[2] < edenNextPos
    /\ \A o, q \in objects : o # q => o[2] < q[1] \/ q[2] < o[1]
    /\ \A o \in objects : o[1] % Alignment = 0
    /\ \A p \in S!Procs : activity[p] # "bytecode" => size[p] > 0
    /\ \A o \in objects : o[1] <= o[2]

LEMMA EdenInit == Init => EdenInv
<1>1. 0 % Alignment = 0
  <2>1. 0 = Alignment * 0
    BY EdenAssumption
  <2> QED
    BY <2>1, MultipleHasNoRest, EdenAssumption
<1> QED
  BY <1>1, EdenAssumption DEF Init, EdenInv, EdenBounded

\* A step that leaves eden and the sizes alone.
LEMMA EdenUnchanged ==
    ASSUME EdenInv, UNCHANGED <<edenNextPos, objects, size>>,
           activity' \in [S!Procs -> {"bytecode", "lock", "fit"}],
           \A p \in S!Procs : activity'[p] # "bytecode" => activity[p] # "bytecode"
    PROVE  EdenInv'
BY DEF EdenInv, EdenBounded

LEMMA EdenNext == EdenInv /\ [Next]_vars => EdenInv'
<1> SUFFICES ASSUME EdenInv, [Next]_vars PROVE EdenInv'
  OBVIOUS
<1> USE EdenAssumption
<1>1. ASSUME NEW p \in S!Procs, Call(p) PROVE EdenInv'
  <2>1. PICK n \in Sizes : size' = [size EXCEPT ![p] = n]
    BY <1>1 DEF Call
  <2>2. /\ UNCHANGED <<edenNextPos, objects>>
        /\ activity' = [activity EXCEPT ![p] = "lock"]
    BY <1>1 DEF Call, Goto
  <2> QED
    BY <2>1, <2>2 DEF EdenInv, EdenBounded
<1>2. ASSUME NEW p \in S!Procs, Grant(p) PROVE EdenInv'
  <2> DEFINE n == size[p]
             o == <<edenNextPos, edenNextPos + n - 1>>
  <2>1. n \in Nat /\ n > 0 /\ EdenSize - edenNextPos >= n
    BY <1>2 DEF Grant, Goto, Fits, EdenInv
  <2>2. /\ Align(n) \in Nat
        /\ Align(n) >= n
        /\ (edenNextPos + Align(n)) % Alignment = 0
        /\ edenNextPos + Align(n) <= EdenSize
    BY <2>1, AlignFits DEF EdenInv
  <2>3. /\ edenNextPos' = edenNextPos + Align(n)
        /\ objects' = objects \cup {o}
        /\ activity' = [activity EXCEPT ![p] = "bytecode"]
        /\ size' = size
    BY <1>2 DEF Grant, Goto
  <2>4. o \in Nat \X Nat /\ o[1] = edenNextPos /\ o[2] = edenNextPos + n - 1
    BY <2>1 DEF EdenInv
  <2>5. o[1] <= o[2] /\ o[2] < edenNextPos' /\ o[1] % Alignment = 0
    BY <2>1, <2>2, <2>3, <2>4 DEF EdenInv
  <2>6. \A q \in objects : q \in Nat \X Nat /\ q[2] < o[1] /\ q[2] < edenNextPos'
    BY <2>2, <2>3, <2>4 DEF EdenInv
  <2>7. objects' \subseteq Nat \X Nat
    BY <2>3, <2>4 DEF EdenInv
  <2>8. \A q, r \in objects' : q # r => q[2] < r[1] \/ r[2] < q[1]
    BY <2>3, <2>6 DEF EdenInv
  <2>9. \A q \in objects' : /\ q[2] < edenNextPos'
                            /\ q[1] % Alignment = 0
                            /\ q[1] <= q[2]
    BY <2>3, <2>5, <2>6 DEF EdenInv
  <2>10. /\ size' \in [S!Procs -> Nat]
         /\ activity' \in [S!Procs -> {"bytecode", "lock", "fit"}]
         /\ \A r \in S!Procs : activity'[r] # "bytecode" => size'[r] > 0
    BY <2>3 DEF EdenInv
  <2>11. /\ edenNextPos' \in Nat
         /\ edenNextPos' % Alignment = 0
         /\ EdenBounded'
    BY <2>2, <2>3 DEF EdenInv, EdenBounded
  <2> QED
    BY <2>7, <2>8, <2>9, <2>10, <2>11 DEF EdenInv
<1>3. ASSUME NEW p \in S!Procs, Lock(p) \/ Collect(p) \/ GiveUp(p) PROVE EdenInv'
  <2>1. UNCHANGED <<edenNextPos, objects, size>>
    BY <1>3 DEF Lock, Collect, AskForGC, GiveUp
  <2>2. /\ activity' \in [S!Procs -> {"bytecode", "lock", "fit"}]
        /\ \A q \in S!Procs : activity'[q] # "bytecode" => activity[q] # "bytecode"
    BY <1>3 DEF Lock, Collect, AskForGC, GiveUp, Goto, EdenInv
  <2> QED
    BY <2>1, <2>2, EdenUnchanged
<1>4. CASE Aside
  BY <1>4, EdenUnchanged DEF Aside, allocVars, EdenInv
<1>5. CASE UNCHANGED vars
  BY <1>5, EdenUnchanged DEF vars, allocVars, EdenInv
<1> QED
  BY <1>1, <1>2, <1>3, <1>4, <1>5 DEF Next, Allocator

\* Eden never overflows, although the comparison with its size comes before
\* the rounding (heap.c:52, 68).
THEOREM EdenNeverOverflows == Spec => []EdenBounded
<1>1. EdenInv => EdenBounded
  BY DEF EdenInv
<1> QED
  BY <1>1, EdenInit, EdenNext, PTL DEF Spec

\* Objects are aligned and disjoint (heap.c:67-68).
THEOREM ObjectsDisjoint == Spec => []ObjectsApart
<1>1. EdenInv => ObjectsApart
  BY DEF EdenInv, ObjectsApart
<1> QED
  BY <1>1, EdenInit, EdenNext, PTL DEF Spec

\* What the allocator of a process keeps between its steps.
AllocatorOK ==
    /\ allocationMutex \in S!Procs \cup {NoProc}
    /\ attempt \in [S!Procs -> 0 .. 2]
    /\ size \in [S!Procs -> Sizes \cup {0}]
    /\ majored \in SUBSET S!Procs

LEMMA AllocatorNext == AllocatorOK /\ [Next]_vars => AllocatorOK'
<1> SUFFICES ASSUME AllocatorOK, [Next]_vars PROVE AllocatorOK'
  OBVIOUS
<1>1. ASSUME NEW p \in S!Procs, Call(p) PROVE AllocatorOK'
  BY <1>1 DEF AllocatorOK, Call
<1>2. ASSUME NEW p \in S!Procs, Collect(p) PROVE AllocatorOK'
  <2>1. /\ attempt[p] < 2 /\ attempt' = [attempt EXCEPT ![p] = attempt[p] + 1]
        /\ UNCHANGED <<allocationMutex, size>>
        /\ majored' = majored \ {p}
    BY <1>2 DEF Collect, AskForGC
  <2>2. attempt[p] + 1 \in 0 .. 2
    BY <2>1 DEF AllocatorOK
  <2> QED
    BY <2>1, <2>2 DEF AllocatorOK
<1>3. ASSUME NEW p \in S!Procs, Lock(p) \/ Grant(p) \/ GiveUp(p) PROVE AllocatorOK'
  BY <1>3 DEF AllocatorOK, Lock, Grant, GiveUp
<1>4. CASE Aside
  BY <1>4 DEF AllocatorOK, Aside, allocVars
<1>5. CASE UNCHANGED vars
  BY <1>5 DEF AllocatorOK, allocVars, vars
<1> QED
  BY <1>1, <1>2, <1>3, <1>4, <1>5 DEF Next, Allocator

(***************************************************************************)
(* The allocator's variables keep their types: no allocation asks for more *)
(* than the two collections of the code, whoever blocks on allocationMutex *)
(* meanwhile (heap.c:52-61).                                               *)
(***************************************************************************)
THEOREM AllocatorTypes == Spec => []TypeOK
<1>1. Init => AllocatorOK
  BY DEF Init, AllocatorOK
<1>2. EdenInv /\ AllocatorOK => TypeOK
  BY DEF EdenInv, AllocatorOK, TypeOK
<1> QED
  BY <1>1, <1>2, AllocatorNext, EdenInit, EdenNext, PTL DEF Spec

-----------------------------------------------------------------------------
(* The stop-the-world protocol.                                            *)

\* A step of the allocator is a request or leaves the protocol alone; every
\* other step is one of the protocol's.
LEMMA ProtocolStep == [Next]_vars => [S!Next]_S!vars
<1> SUFFICES ASSUME [Next]_vars PROVE S!Next \/ UNCHANGED safepointVars
  BY DEF safepointVars, S!vars, S!gcVars
<1>1. ASSUME NEW p \in S!Procs, Collect(p) PROVE S!Next
  <2>1. AttemptMode(attempt[p]) \in {S!MINOR_ONLY, S!FORCE_MAJOR}
    BY DEF AttemptMode
  <2> QED
    BY <1>1, <2>1 DEF Collect, AskForGC, S!Next
<1>2. ASSUME NEW p \in S!Procs, Call(p) \/ Lock(p) \/ Grant(p) \/ GiveUp(p)
      PROVE  UNCHANGED safepointVars
  BY <1>2 DEF Call, Lock, Grant, GiveUp
<1>3. CASE Other
  BY <1>3 DEF Other, S!Next
<1>4. CASE UNCHANGED vars
  BY <1>4 DEF vars
<1> QED
  BY <1>1, <1>2, <1>3, <1>4 DEF Next, Allocator

\* The allocator, which blocks on a mutex and asks for collections from behind
\* it, keeps the stop-the-world protocol: what holds of the protocol alone
\* holds with the allocator on top (heap.c:50-73, 75-104).
LEMMA KeepsProtocol == Spec => S!Spec
<1>1. Init => S!Init
  BY DEF Init
<1> QED
  BY <1>1, ProtocolStep, PTL DEF Spec, S!Spec

-----------------------------------------------------------------------------
(* The stopped world.                                                      *)

\* What SafepointProofs takes for granted is what Runtime assumes.
LEMMA SafepointAssumed == P!ThreadsAssumption /\ P!NumbersAssumption
<1>1. P!ThreadsAssumption
  BY ProtocolAssumption DEF P!ThreadsAssumption, P!IsFiniteSet, IsFiniteSet
<1>2. P!Cardinality(Threads) = Cardinality(Threads)
  BY Zenon DEF P!Cardinality, Cardinality
<1>3. P!NumbersAssumption
  BY <1>2, ProtocolAssumption DEF P!NumbersAssumption
<1> QED
  BY <1>1, <1>3

\* S and P are the same module twice.
LEMMA SameInit == S!Init => P!Init
BY DEF S!Init, P!Init, S!Procs, P!Procs, S!NORMAL, P!NORMAL

LEMMA SameCardinality == ASSUME NEW X PROVE P!Cardinality(X) = S!Cardinality(X)
BY Zenon DEF P!Cardinality, S!Cardinality

LEMMA SameNext == [S!Next]_safepointVars => [P!Next]_P!vars
BY SameCardinality
   DEF safepointVars,
       S!numThreads, S!Procs, S!Alive, S!GCHolds, S!InSavePoint, S!Modes,
       S!NORMAL, S!MINOR_ONLY, S!FORCE_MAJOR, S!Increment, S!Decrement,
       S!Larger, S!gcVars, S!threadVars, S!vars,
       P!numThreads, P!Procs, P!Alive, P!GCHolds, P!InSavePoint, P!Modes,
       P!NORMAL, P!MINOR_ONLY, P!FORCE_MAJOR, P!Increment, P!Decrement,
       P!Larger, P!gcVars, P!threadVars, P!vars,
       S!Next, S!Move, S!SavePoint, S!SavePointCheck, S!SavePointCount,
       S!SavePointSpin, S!SavePointResume, S!Spawn, S!ThreadStart, S!Register,
       S!Instruction, S!RequestGC, S!Unregister, S!LauncherStart,
       S!LauncherFail, S!LauncherExit,
       P!Next, P!Move, P!SavePoint, P!SavePointCheck, P!SavePointCount,
       P!SavePointSpin, P!SavePointResume, P!Spawn, P!ThreadStart, P!Register,
       P!Instruction, P!RequestGC, P!Unregister, P!LauncherStart,
       P!LauncherFail, P!LauncherExit,
       S!Collector, S!GCMove, S!GCStart, S!GCLock, S!GCReadThreads,
       S!GCReadWaiting, S!AllWaiting, S!Compared, S!GCRetry, S!GCEnter,
       S!GCClear, S!GCRelease,
       P!Collector, P!GCMove, P!GCStart, P!GCLock, P!GCReadThreads,
       P!GCReadWaiting, P!AllWaiting, P!Compared, P!GCRetry, P!GCEnter,
       P!GCClear, P!GCRelease

\* Who is behind allocationMutex holds it, through savePoint too.
MutexOK ==
    /\ registered \subseteq Threads
    /\ activity \in [S!Procs -> {"bytecode", "lock", "fit"}]
    /\ \A p \in S!Procs : activity[p] = "fit" => allocationMutex = p

LEMMA MutexInit == Init => MutexOK
BY DEF Init, MutexOK, S!Init

LEMMA MutexNext == MutexOK /\ [Next]_vars => MutexOK'
<1> SUFFICES ASSUME MutexOK, [Next]_vars PROVE MutexOK'
  OBVIOUS
<1>1. registered' \subseteq Threads
  <2>1. [S!Next]_S!vars
    BY ProtocolStep
  <2> QED
    BY <2>1 DEF MutexOK, S!vars, S!Next, S!SavePoint, S!SavePointCheck, S!SavePointCount,
                S!SavePointSpin, S!SavePointResume, S!RequestGC, S!ThreadStart, S!Spawn,
                S!Register, S!Instruction, S!Unregister, S!LauncherStart, S!LauncherFail,
                S!LauncherExit, S!Collector, S!GCStart, S!GCLock, S!GCReadThreads,
                S!GCReadWaiting, S!GCRetry, S!GCEnter, S!GCClear, S!GCRelease, S!GCMove
<1>2. ASSUME NEW p \in S!Procs, Call(p) \/ Grant(p) \/ Collect(p) \/ GiveUp(p) PROVE MutexOK'
  BY <1>1, <1>2 DEF MutexOK, Call, Grant, Collect, AskForGC, GiveUp, Goto
<1>3. ASSUME NEW p \in S!Procs, Lock(p) PROVE MutexOK'
  BY <1>1, <1>3, EdenAssumption DEF MutexOK, Lock, Goto, S!Procs
<1>4. CASE Aside
  BY <1>1, <1>4 DEF MutexOK, Aside, allocVars
<1>5. CASE UNCHANGED vars
  BY <1>1, <1>5 DEF MutexOK, allocVars, vars
<1> QED
  BY <1>2, <1>3, <1>4, <1>5 DEF Next, Allocator

\* The composition keeps the world stopped as Safepoint alone does.
LEMMA ProtocolHolds == Spec => []P!IInv
<1>1. P!Spec => []P!IInv
  BY P!Invariance, SafepointAssumed
<1>2. S!Spec => P!Spec
  BY SameInit, SameNext, PTL DEF S!Spec, P!Spec, safepointVars, S!vars
<1> QED
  BY <1>1, <1>2, KeepsProtocol, PTL

\* No registered thread gets memory while the collector works on a stopped
\* world, the one in the middle of an allocation included (heap.c:54-58).
THEOREM EdenKeepsStill == Spec => EdenStill
<1> DEFINE Stopped == /\ gcPc = "collect"
                      /\ late = {}
                      /\ counted \subseteq registered
                      /\ allocationMutex \in registered
           Still == Stopped => edenNextPos' = edenNextPos
<1>1. ASSUME P!StopTheWorld, MutexOK, [Next]_vars, Stopped PROVE edenNextPos' = edenNextPos
  <2>1. \A t \in registered : pc[t] # "run"
    BY <1>1 DEF P!StopTheWorld
  <2>2. ASSUME NEW p \in S!Procs, Grant(p) PROVE FALSE
    <3>1. p = allocationMutex
      BY <1>1, <2>2 DEF MutexOK, Grant, Goto
    <3>2. p # Launcher
      BY <1>1, <3>1, ProtocolAssumption DEF MutexOK
    <3> QED
      BY <1>1, <2>1, <2>2, <3>1, <3>2 DEF Grant, Goto, Executing
  <2>3. ASSUME NEW p \in S!Procs, Call(p) \/ Lock(p) \/ Collect(p) \/ GiveUp(p)
        PROVE  edenNextPos' = edenNextPos
    BY <2>3 DEF Call, Lock, Collect, AskForGC, GiveUp
  <2>4. CASE Aside
    BY <2>4 DEF Aside, allocVars
  <2>5. CASE UNCHANGED vars
    BY <2>5 DEF vars, allocVars
  <2> QED
    BY <1>1, <2>2, <2>3, <2>4, <2>5 DEF Next, Allocator
<1>2. P!StopTheWorld /\ MutexOK /\ [Next]_vars => [Still]_vars
  BY <1>1
<1>3. P!IInv => P!StopTheWorld
  BY P!StopFromInv, SafepointAssumed
<1> QED
  BY <1>2, <1>3, ProtocolHolds, MutexInit, MutexNext, PTL DEF Spec, EdenStill

-----------------------------------------------------------------------------
(* NULL is the last resort.                                                *)

\* What is used of the protocol's invariant.
ProtocolFacts ==
    /\ requestedMode \in {0, 1, 2}
    /\ DOMAIN pc = S!Procs
    /\ pc[Launcher] = "startup" => pc[MainThread] = "new"

LEMMA FactsHold == P!IInv => ProtocolFacts
BY DEF P!IInv, P!TypeOK, P!Modes, P!NORMAL, P!MINOR_ONLY, P!FORCE_MAJOR,
       P!MainOnce, P!Procs, S!Procs, ProtocolFacts

\* p waits for the major collection of its allocation.
Awaits(p) == activity[p] = "fit" /\ attempt[p] = 2 /\ p \notin majored

\* Such a process cannot leave savePoint, and the cycle that lets it out passes
\* over the old heap.
MajorComing(p) ==
    /\ pc[p] \in {"check", "count", "spin"}
    /\ gcWantsToRun
    /\ gcPc # "release"
    /\ requestedMode = 2
    /\ gcPc = "collect" => gcMode = 2

MajorInv ==
    \A p \in S!Procs : /\ activity[p] = "lock" => attempt[p] = 0
                       /\ Awaits(p) => MajorComing(p)

LEMMA MajorInit == Init => MajorInv
BY DEF Init, MajorInv, Awaits

LEMMA MajorAllocator ==
    ASSUME MajorInv, AllocatorOK, MutexOK, ProtocolFacts, NEW p \in S!Procs, Allocator(p)
    PROVE  MajorInv'
<1>1. CASE Call(p)
  BY <1>1 DEF Call, Goto, safepointVars, MajorInv, Awaits, MajorComing, AllocatorOK, MutexOK
<1>2. CASE Lock(p)
  BY <1>2 DEF Lock, Goto, safepointVars, MajorInv, Awaits, MajorComing, AllocatorOK, MutexOK
<1>3. CASE Grant(p)
  BY <1>3 DEF Grant, Goto, safepointVars, MajorInv, Awaits, MajorComing, AllocatorOK, MutexOK
<1>4. CASE GiveUp(p)
  BY <1>4 DEF GiveUp, Goto, safepointVars, MajorInv, Awaits, MajorComing, AllocatorOK, MutexOK
<1>5. CASE Collect(p)
  <2>1. /\ activity[p] = "fit" /\ activity' = activity
        /\ attempt[p] < 2 /\ attempt' = [attempt EXCEPT ![p] = attempt[p] + 1]
        /\ majored' = majored \ {p}
        /\ gcPc \notin {"collect", "release"} /\ gcPc' = gcPc
        /\ pc' = [pc EXCEPT ![p] = "check"]
        /\ gcWantsToRun'
        /\ requestedMode' = S!Larger(requestedMode, AttemptMode(attempt[p]))
    BY <1>5 DEF Collect, AskForGC, S!RequestGC, S!Move, S!GCHolds, S!gcVars
  <2>2. attempt[p] \in {0, 1}
    BY <2>1 DEF AllocatorOK
  <2>3. attempt[p] = 1 => requestedMode' = 2
    BY <2>1, <2>2 DEF S!Larger, AttemptMode, S!FORCE_MAJOR, ProtocolFacts
  <2>4. ASSUME NEW q \in S!Procs, q # p PROVE ~Awaits(q)'
    BY <2>1, <2>4 DEF Awaits, MutexOK
  <2>5. activity'[p] # "lock" /\ (Awaits(p)' => MajorComing(p)')
    BY <2>1, <2>2, <2>3 DEF Awaits, MajorComing, AllocatorOK, ProtocolFacts
  <2>6. ASSUME NEW q \in S!Procs, q # p, activity'[q] = "lock" PROVE attempt'[q] = 0
    BY <2>1, <2>6 DEF MajorInv, AllocatorOK
  <2> QED
    BY <2>4, <2>5, <2>6 DEF MajorInv
<1> QED
  BY <1>1, <1>2, <1>3, <1>4, <1>5 DEF Allocator

LEMMA MajorOther ==
    ASSUME MajorInv, ProtocolFacts, Other, Aside
    PROVE  MajorInv'
<1>1. UNCHANGED <<activity, attempt>>
  BY DEF Aside, allocVars
<1>2. SUFFICES ASSUME NEW q \in S!Procs, Awaits(q)' PROVE MajorComing(q)'
  BY <1>1 DEF MajorInv
<1>3. ~MajorEnds /\ majored' = majored
  BY <1>2 DEF Aside, Awaits
<1>4. Awaits(q) /\ MajorComing(q)
  BY <1>1, <1>2, <1>3 DEF Awaits, MajorInv
<1>5. ASSUME NEW p \in S!Procs, S!SavePoint(p) PROVE MajorComing(q)'
  BY <1>4, <1>5 DEF S!SavePoint, S!SavePointCheck, S!SavePointCount, S!SavePointSpin,
     S!SavePointResume, S!Move, S!gcVars, MajorComing, ProtocolFacts
<1>6. ASSUME NEW t \in Threads, NEW u \in Threads,
             S!Register(t) \/ S!Instruction(t) \/ S!Unregister(t) \/ S!ThreadStart(t, u)
      PROVE  MajorComing(q)'
  BY <1>4, <1>6 DEF S!Register, S!Instruction, S!Unregister, S!ThreadStart, S!Spawn,
     S!Move, S!gcVars, MajorComing, ProtocolFacts
<1>7. CASE S!LauncherStart
  BY <1>4, <1>7 DEF S!LauncherStart, S!gcVars, MajorComing, ProtocolFacts
<1>8. CASE S!LauncherFail \/ S!LauncherExit
  BY <1>4, <1>8 DEF S!LauncherFail, S!LauncherExit, S!Move, S!gcVars, MajorComing, ProtocolFacts
<1>9. CASE S!GCClear
  <2>1. MajorEnds
    BY <1>4, <1>9 DEF S!GCClear, S!GCMove, MajorEnds, S!OldPass, S!MINOR_ONLY, S!FORCE_MAJOR,
       MajorComing
  <2> QED
    BY <1>3, <2>1
<1>10. CASE S!GCRelease
  BY <1>4, <1>10 DEF S!GCRelease, S!GCMove, MajorComing
<1>11. ASSUME NEW from \in {"threadsRead", "waitingRead"}, S!GCRetry(from) \/ S!GCEnter(from)
       PROVE  MajorComing(q)'
  BY <1>4, <1>11 DEF S!GCRetry, S!GCEnter, S!GCMove, MajorComing
<1>12. CASE S!GCStart \/ S!GCLock \/ S!GCReadThreads \/ S!GCReadWaiting
  BY <1>4, <1>12 DEF S!GCStart, S!GCLock, S!GCReadThreads, S!GCReadWaiting, S!GCMove, MajorComing
<1> QED
  BY <1>5, <1>6, <1>7, <1>8, <1>9, <1>10, <1>11, <1>12 DEF Other, S!Collector

LEMMA MajorNext ==
    MajorInv /\ AllocatorOK /\ MutexOK /\ ProtocolFacts /\ [Next]_vars => MajorInv'
<1> SUFFICES ASSUME MajorInv, AllocatorOK, MutexOK, ProtocolFacts, [Next]_vars
             PROVE  MajorInv'
  OBVIOUS
<1>1. CASE UNCHANGED vars
  BY <1>1 DEF vars, allocVars, safepointVars, MajorInv, Awaits, MajorComing
<1> QED
  BY <1>1, MajorAllocator, MajorOther DEF Next

\* An allocation returns NULL only after a major collection that began and
\* ended since it asked for one (heap.c:58-62).
THEOREM NullIsLastResort == Spec => []NullAfterMajor
<1>1. MajorInv => NullAfterMajor
  BY DEF MajorInv, NullAfterMajor, Awaits, MajorComing, Executing
<1>2. Init => AllocatorOK
  BY DEF Init, AllocatorOK
<1> QED
  BY <1>1, <1>2, MajorInit, MajorNext, FactsHold, ProtocolHolds, AllocatorNext,
     MutexInit, MutexNext, PTL DEF Spec
=============================================================================
