------------------------------- MODULE Runtime -------------------------------
(***************************************************************************)
(* The allocator (heap.c) on top of the stop-the-world protocol.  While a  *)
(* thread executes an instruction ("run", or "startup" for the launcher)   *)
(* it may be inside allocateObject or allocateArrayObject, which hold      *)
(* allocationMutex while they ask for a collection and wait for it.        *)
(*                                                                         *)
(* The passes of the collector are stubs, so a collection frees nothing.   *)
(***************************************************************************)
EXTENDS Integers, FiniteSets

CONSTANTS Threads, MainThread, Launcher, InitialCapacity, MajorPeriod, Modulus,
          MaxPasses         \* those of Safepoint

CONSTANTS
    EdenSize,       \* maxHeap >> 2
    Alignment,      \* of ALIGN: 8
    Sizes,          \* the sizes in bytes that programs allocate
    NoProc          \* holder of a free allocationMutex

\* main() takes only multiples of 4096 for -Xmx (main.c:76), and initHeap
\* gives eden a quarter of it.
ASSUME EdenAssumption ==
    /\ Alignment \in Nat \ {0}
    /\ EdenSize \in Nat
    /\ EdenSize % Alignment = 0
    /\ Sizes \subseteq Nat \ {0}
    /\ NoProc \notin Threads \cup {Launcher}

\* What Safepoint assumes of its constants.
ASSUME ProtocolAssumption ==
    /\ IsFiniteSet(Threads)
    /\ MainThread \in Threads
    /\ Launcher \notin Threads
    /\ InitialCapacity \in Nat \ {0}
    /\ MajorPeriod \in Nat \ {0}
    /\ MaxPasses \in Nat
    /\ Modulus \in Nat
    /\ Modulus > MaxPasses + Cardinality(Threads) + 1

VARIABLES pc, registered, maxNumThreads, gcWantsToRun, numThreadsWaiting,
          requestedMode, gcPc, seen, gcMode, gcCycle, counted, debt, late

S == INSTANCE Safepoint

safepointVars == <<pc, registered, maxNumThreads, gcWantsToRun, numThreadsWaiting,
                   requestedMode, gcPc, seen, gcMode, gcCycle, counted, debt, late>>

VARIABLES
    allocationMutex,    \* the process that holds it
    edenNextPos,
    activity,           \* of each process: "bytecode", or in the allocator:
                        \*   "lock" (before the mutex), "fit" (behind it)
    attempt,            \* of each process: collections this allocation asked for
    size,               \* of each process: the bytes it allocates
    objects,            \* history: <<first, last>> bytes of each object made
    majored             \* history: processes since whose last request for a
                        \*   collection the old heap has been passed over

allocVars == <<allocationMutex, edenNextPos, activity, attempt, size, objects>>
vars == <<safepointVars, allocVars, majored>>

\* Mutants of ALIGN: round down, and round up even what is aligned.
AlignDown(n) == (n \div Alignment) * Alignment
AlignPast(n) == (n \div Alignment) * Alignment + Alignment

Align(n) == ((n + Alignment - 1) \div Alignment) * Alignment

Executing(p) == pc[p] = IF p = Launcher THEN "startup" ELSE "run"

Init ==
    /\ S!Init
    /\ allocationMutex = NoProc
    /\ edenNextPos = 0
    /\ activity = [p \in S!Procs |-> "bytecode"]
    /\ attempt = [p \in S!Procs |-> 0]
    /\ size = [p \in S!Procs |-> 0]
    /\ objects = {}
    /\ majored = {}

-----------------------------------------------------------------------------
(* allocateObject and allocateArrayObject                                  *)

Goto(p, from, to) ==
    /\ S!Alive
    /\ Executing(p)
    /\ activity[p] = from
    /\ activity' = [activity EXCEPT ![p] = to]

Call(p) ==
    /\ Goto(p, "bytecode", "lock")
    /\ \E n \in Sizes : size' = [size EXCEPT ![p] = n]
    /\ attempt' = [attempt EXCEPT ![p] = 0]
    /\ UNCHANGED <<safepointVars, allocationMutex, edenNextPos, objects, majored>>

Lock(p) ==
    /\ allocationMutex = NoProc
    /\ Goto(p, "lock", "fit")
    /\ allocationMutex' = p
    /\ UNCHANGED <<safepointVars, edenNextPos, attempt, size, objects, majored>>

\* edenSize - edenNextPos does not wrap: see EdenBounded.
Fits(p) == EdenSize - edenNextPos >= size[p]

\* Advance edenNextPos and unlock.
Grant(p) ==
    /\ Fits(p)
    /\ Goto(p, "fit", "bytecode")
    /\ edenNextPos' = edenNextPos + Align(size[p])
    /\ objects' = objects \cup {<<edenNextPos, edenNextPos + size[p] - 1>>}
    /\ allocationMutex' = NoProc
    /\ UNCHANGED <<safepointVars, attempt, size, majored>>

\* Mutant: the attempt's number is the mode.
NumberAsMode(n) == n

AttemptMode(n) == IF n = 0 THEN S!MINOR_ONLY ELSE S!FORCE_MAJOR

\* Ask for a collection, still holding allocationMutex, and wait at a save
\* point.
AskForGC(p) ==
    /\ activity[p] = "fit"
    /\ S!RequestGC(p, AttemptMode(attempt[p]))
    /\ attempt' = [attempt EXCEPT ![p] = @ + 1]
    /\ majored' = majored \ {p}
    /\ UNCHANGED <<allocationMutex, edenNextPos, activity, size, objects>>

\* Mutant: one collection too many.
CollectOnceMore(p) == ~Fits(p) /\ attempt[p] <= 2 /\ AskForGC(p)

\* No room: a minor, then a major collection.
Collect(p) == ~Fits(p) /\ attempt[p] < 2 /\ AskForGC(p)

\* NULL is returned; nothing unlocks allocationMutex.
GiveUp(p) ==
    /\ ~Fits(p)
    /\ attempt[p] = 2
    /\ Goto(p, "fit", "bytecode")
    /\ UNCHANGED <<safepointVars, allocationMutex, edenNextPos, attempt, size, objects,
                   majored>>

Allocator(p) == Call(p) \/ Lock(p) \/ Grant(p) \/ Collect(p) \/ GiveUp(p)

-----------------------------------------------------------------------------
(* Everything else a process does, it does outside the allocator.          *)

Bytecode(p) == activity[p] = "bytecode"

\* The collector is through with a cycle that passed over the old heap.
MajorEnds == gcPc = "collect" /\ gcPc' # "collect" /\ S!OldPass

\* The step of the protocol that is taken leaves the allocator alone.
Aside == /\ UNCHANGED allocVars
         /\ majored' = IF MajorEnds THEN S!Procs ELSE majored

Other ==
    \/ \E p \in S!Procs : S!SavePoint(p)
    \/ \E t \in Threads :
          \/ S!Register(t)
          \/ Bytecode(t) /\ (S!Instruction(t) \/ S!Unregister(t))
          \/ \E u \in Threads : Bytecode(t) /\ S!ThreadStart(t, u)
    \/ Bytecode(Launcher) /\ (S!LauncherStart \/ S!LauncherFail)
    \/ S!LauncherExit
    \/ S!Collector

Next == \/ \E p \in S!Procs : Allocator(p)
        \/ Other /\ Aside

Spec == Init /\ [][Next]_vars

\* As in Safepoint; inside the allocator a process goes on, and a mutex that
\* is free again and again is eventually granted.
Fairness ==
    /\ \A t \in Threads :
          /\ WF_vars(S!Register(t) /\ Aside)
          /\ WF_vars(Bytecode(t) /\ S!Instruction(t) /\ Aside)
    /\ \A p \in S!Procs :
          /\ WF_vars((S!SavePointCheck(p) \/ S!SavePointCount(p) \/ S!SavePointSpin(p))
                        /\ Aside)
          /\ SF_vars(S!SavePointResume(p) /\ Aside)
          /\ SF_vars(Lock(p))
          /\ WF_vars(Grant(p) \/ GiveUp(p))
          /\ SF_vars(Collect(p))
    /\ WF_vars(Bytecode(Launcher) /\ S!LauncherStart /\ Aside)
    /\ WF_vars(S!LauncherExit /\ Aside)
    /\ WF_vars(gcWantsToRun /\ S!GCStart /\ Aside)
    /\ WF_vars(gcPc # "idle" /\ S!Collector /\ Aside)

FairSpec == Spec /\ Fairness

-----------------------------------------------------------------------------
TypeOK ==
    /\ allocationMutex \in S!Procs \cup {NoProc}
    /\ edenNextPos \in Nat
    /\ activity \in [S!Procs -> {"bytecode", "lock", "fit"}]
    /\ attempt \in [S!Procs -> 0 .. 2]
    /\ size \in [S!Procs -> Sizes \cup {0}]
    /\ \A o \in objects : o[1] \in Nat /\ o[2] \in Nat
    /\ majored \in SUBSET S!Procs

(***************************************************************************)
(* The unsigned difference edenSize - edenNextPos never wraps, although it *)
(* is compared with a size that is only rounded up afterwards (heap.c:52,  *)
(* 68).                                                                    *)
(***************************************************************************)
EdenBounded == edenNextPos <= EdenSize

(***************************************************************************)
(* Objects are aligned and no two of them share a byte, whoever allocated  *)
(* them and after however many collections (heap.c:67-68).                 *)
(***************************************************************************)
ObjectsApart ==
    /\ \A o \in objects : o[1] % Alignment = 0 /\ o[1] <= o[2] /\ o[2] < edenNextPos
    /\ \A o, q \in objects : o # q => o[2] < q[1] \/ q[2] < o[1]

(***************************************************************************)
(* No registered thread gets memory while the collector works on a stopped *)
(* world, not even the one whose allocation asked for the collection and   *)
(* which holds allocationMutex all along (heap.c:54-58).                   *)
(***************************************************************************)
EdenStill ==
    [][(/\ gcPc = "collect"
        /\ late = {}
        /\ counted \subseteq registered
        /\ allocationMutex \in registered) => edenNextPos' = edenNextPos]_vars

(***************************************************************************)
(* NULL is the last resort (heap.c:58-62): when an allocation is about to  *)
(* return it, a cycle that passed over the old heap has begun and ended    *)
(* since it asked for the second collection, whatever weaker requests,     *)
(* save points and cycles of others came in between.                       *)
(***************************************************************************)
NullAfterMajor ==
    \A p \in S!Procs : (Executing(p) /\ activity[p] = "fit" /\ attempt[p] = 2)
                           => p \in majored
=============================================================================
