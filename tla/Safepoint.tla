------------------------------ MODULE Safepoint ------------------------------
(***************************************************************************)
(* The stop-the-world protocol of the JVM (gc.c) together with the life of *)
(* the threads that take part in it: the collector thread (gcLoop, runGC), *)
(* the Java threads (threadRoutine, run) and the process's first thread,   *)
(* which here is the Launcher (main).                                      *)
(*                                                                         *)
(* A step is one access to shared memory or one critical section.  The     *)
(* mutex gcRunningMutex is held across steps only by the collector, so     *)
(* GCHolds stands for it.  The volatile and atomic variables are accessed  *)
(* in program order (the build's target gives no weaker outcome here: each *)
(* store is followed by a locked operation before the loads that matter).  *)
(***************************************************************************)
EXTENDS Integers, FiniteSets

CONSTANTS
    Threads,          \* the Java threads that may ever exist
    MainThread,       \* the one main() creates
    Launcher,         \* the process's first thread, never registered
    InitialCapacity,  \* slots of jthreads after initGC (4 in the code)
    MajorPeriod,      \* every MajorPeriod-th cycle visits the old heap (8)
    Modulus,          \* numThreadsWaiting counts modulo this (2^64)
    MaxPasses         \* bound: save points passed without being counted

Procs == Threads \cup {Launcher}

ASSUME ThreadsAssumption ==
    /\ IsFiniteSet(Threads)
    /\ MainThread \in Threads
    /\ Launcher \notin Threads

ASSUME NumbersAssumption ==
    /\ InitialCapacity \in Nat \ {0}
    /\ MajorPeriod \in Nat \ {0}
    /\ MaxPasses \in Nat
    /\ Modulus \in Nat
    /\ Modulus > MaxPasses + Cardinality(Threads) + 1

NORMAL == 0
MINOR_ONLY == 1
FORCE_MAJOR == 2
Modes == {NORMAL, MINOR_ONLY, FORCE_MAJOR}

VARIABLES
    pc,                 \* where each thread is
    registered,         \* the threads in jthreads[0 .. numThreads - 1]
    maxNumThreads,      \* allocated length of jthreads
    gcWantsToRun,
    numThreadsWaiting,
    requestedMode,
    gcPc,               \* where the collector is in gcLoop and runGC
    seen,               \* first operand it read of numThreads != numThreadsWaiting
    gcMode,             \* its local copy of requestedMode
    gcCycle,            \* modulo MajorPeriod
    counted,            \* history: threads that incremented the counter and
                        \*   have not decremented it yet
    debt,               \* history: decrements that had no increment
    late                \* history: threads registered since numThreads was read

threadVars == <<pc, registered, maxNumThreads>>
gcVars == <<gcPc, seen, gcMode, gcCycle>>
vars == <<pc, registered, maxNumThreads, gcWantsToRun, numThreadsWaiting,
          requestedMode, gcPc, seen, gcMode, gcCycle, counted, debt, late>>

(***************************************************************************)
(* Program points.  Of a Java thread: "new", "starting" (pthread_create    *)
(* done, registerThread not yet run), "run" (executing an instruction),    *)
(* "done"; inside savePoint: "check" (line 40), "count" (41), "spin" (42), *)
(* "resume" (44).  Of the launcher: "startup", "waiting", "exited",        *)
(* "failed", and the points of savePoint.                                  *)
(***************************************************************************)
InSavePoint == {"check", "count", "spin", "resume"}
ThreadPoints == {"new", "starting", "run", "done"} \cup InSavePoint
LauncherPoints == {"startup", "waiting", "exited", "failed"} \cup InSavePoint
GCPoints == {"idle", "lock", "test", "threadsRead", "waitingRead", "collect",
             "release"}

numThreads == Cardinality(registered)

\* When main returns the process ends, and every thread with it.
Alive == pc[Launcher] \notin {"exited", "failed"}

\* Mutants: the test runs without the mutex; the mutex is not given up between
\* two tests.
GCHoldsLate == gcPc \in {"collect", "release"}
GCHoldsThroughout == gcPc # "idle"

\* The collector owns gcRunningMutex.
GCHolds == gcPc \in {"test", "threadsRead", "waitingRead", "collect", "release"}

\* Mutant: a signed decrement.
SignedDecrement(n) == n - 1

\* Unsigned increment and decrement of numThreadsWaiting.
Increment(n) == IF n = Modulus - 1 THEN 0 ELSE n + 1
Decrement(n) == IF n = 0 THEN Modulus - 1 ELSE n - 1

\* Mutant: the last request wins.
LastRequest(a, b) == b

Larger(a, b) == IF a > b THEN a ELSE b

\* Does this cycle call _oldHeapGC?
OldPass == /\ gcMode # MINOR_ONLY
           /\ gcMode = FORCE_MAJOR \/ gcCycle = 0

Init ==
    /\ pc = [p \in Procs |-> IF p = Launcher THEN "startup" ELSE "new"]
    /\ registered = {}
    /\ maxNumThreads = InitialCapacity
    /\ gcWantsToRun = FALSE
    /\ numThreadsWaiting = 0
    /\ requestedMode = NORMAL
    /\ gcPc = "idle"
    /\ seen = 0
    /\ gcMode = NORMAL
    /\ gcCycle = 0
    /\ counted = {}
    /\ debt = 0
    /\ late = {}

Move(p, from, to) ==
    /\ Alive
    /\ pc[p] = from
    /\ pc' = [pc EXCEPT ![p] = to]

-----------------------------------------------------------------------------
(* savePoint, called by run before every instruction and by the allocator. *)

SavePointCheck(p) ==
    /\ Move(p, "check", IF gcWantsToRun THEN "count" ELSE "spin")
    /\ UNCHANGED <<registered, maxNumThreads, gcWantsToRun, numThreadsWaiting,
                   requestedMode, gcVars, counted, debt, late>>

SavePointCount(p) ==
    /\ Move(p, "count", "spin")
    /\ numThreadsWaiting' = Increment(numThreadsWaiting)
    /\ counted' = counted \cup {p}
    /\ UNCHANGED <<registered, maxNumThreads, gcWantsToRun, requestedMode,
                   gcVars, debt, late>>

SavePointSpin(p) ==
    /\ ~gcWantsToRun
    /\ Move(p, "spin", "resume")
    /\ UNCHANGED <<registered, maxNumThreads, gcWantsToRun, numThreadsWaiting,
                   requestedMode, gcVars, counted, debt, late>>

\* Lines 44-46: the decrement happens whether or not line 41 ran.  MaxPasses
\* bounds how often the uncounted case is explored.
SavePointResume(p) ==
    /\ ~GCHolds
    /\ Move(p, "resume", IF p = Launcher THEN "startup" ELSE "run")
    /\ numThreadsWaiting' = Decrement(numThreadsWaiting)
    /\ counted' = counted \ {p}
    /\ \/ /\ p \in counted
          /\ debt' = debt
       \/ /\ p \notin counted
          /\ debt < MaxPasses
          /\ debt' = debt + 1
    /\ UNCHANGED <<registered, maxNumThreads, gcWantsToRun, requestedMode,
                   gcVars, late>>

-----------------------------------------------------------------------------
(* The life of a Java thread: threadStart, threadRoutine and run.          *)

\* threadStart: pthread_create works, or the thread is destroyed.
Spawn(t) ==
    /\ pc[t] = "new"
    /\ \E to \in {"starting", "done"} : Move(t, "new", to)
    /\ UNCHANGED <<registered, maxNumThreads, gcWantsToRun, numThreadsWaiting,
                   requestedMode, gcVars, counted, debt, late>>

\* A running thread starts another one.  No bytecode reaches threadStart yet;
\* the collector and the registry are written for it all the same.
ThreadStart(p, t) ==
    /\ pc[p] = "run"
    /\ t # MainThread
    /\ Spawn(t)

\* registerThread: there is room, or the array doubles, or realloc fails and
\* threadRoutine goes on without looking at the result.
Register(t) ==
    /\ Move(t, "starting", "check")
    /\ \/ /\ numThreads < maxNumThreads
          /\ registered' = registered \cup {t}
          /\ UNCHANGED maxNumThreads
       \/ /\ numThreads = maxNumThreads
          /\ registered' = registered \cup {t}
          /\ maxNumThreads' = 2 * maxNumThreads
       \/ /\ numThreads = maxNumThreads
          /\ UNCHANGED <<registered, maxNumThreads>>
    /\ late' = IF gcPc \in {"threadsRead", "collect"}
               THEN late \cup (registered' \ registered) ELSE late
    /\ UNCHANGED <<gcWantsToRun, numThreadsWaiting, requestedMode, gcVars,
                   counted, debt>>

\* One instruction has been executed, the next save point is reached.
Instruction(t) ==
    /\ Move(t, "run", "check")
    /\ UNCHANGED <<registered, maxNumThreads, gcWantsToRun, numThreadsWaiting,
                   requestedMode, gcVars, counted, debt, late>>

\* requestGC and the savePoint after it, from an allocation that found eden
\* full; the launcher allocates too, for the arguments of main.
RequestGC(p, mode) ==
    /\ ~GCHolds
    /\ Move(p, IF p = Launcher THEN "startup" ELSE "run", "check")
    /\ gcWantsToRun' = TRUE
    /\ requestedMode' = Larger(requestedMode, mode)
    /\ UNCHANGED <<registered, maxNumThreads, numThreadsWaiting, gcVars,
                   counted, debt, late>>

\* The outermost frame returned: unregisterThread, destroyThread.
Unregister(t) ==
    /\ Move(t, "run", "done")
    /\ registered' = registered \ {t}
    /\ late' = late \ {t}
    /\ UNCHANGED <<maxNumThreads, gcWantsToRun, numThreadsWaiting,
                   requestedMode, gcVars, counted, debt>>

-----------------------------------------------------------------------------
(* The launcher: the end of main().                                        *)

LauncherStart ==
    /\ \E to \in {"starting", "done"} :
          pc' = [pc EXCEPT ![Launcher] = "waiting", ![MainThread] = to]
    /\ Alive /\ pc[Launcher] = "startup"
    /\ UNCHANGED <<registered, maxNumThreads, gcWantsToRun, numThreadsWaiting,
                   requestedMode, gcVars, counted, debt, late>>

\* No such class, or no main method.
LauncherFail ==
    /\ Move(Launcher, "startup", "failed")
    /\ UNCHANGED <<registered, maxNumThreads, gcWantsToRun, numThreadsWaiting,
                   requestedMode, gcVars, counted, debt, late>>

LauncherExit ==
    /\ numThreads = 0
    /\ Move(Launcher, "waiting", "exited")
    /\ UNCHANGED <<registered, maxNumThreads, gcWantsToRun, numThreadsWaiting,
                   requestedMode, gcVars, counted, debt, late>>

-----------------------------------------------------------------------------
(* The collector.                                                          *)

GCMove(from, to) ==
    /\ Alive
    /\ gcPc = from
    /\ gcPc' = to
    /\ UNCHANGED <<pc, registered, maxNumThreads, numThreadsWaiting, counted,
                   debt>>

\* gcLoop calls runGC because the timer ran out or a request is pending.
GCStart ==
    /\ GCMove("idle", "lock")
    /\ gcWantsToRun' = TRUE
    /\ UNCHANGED <<requestedMode, seen, gcMode, gcCycle, late>>

GCLock ==
    /\ GCMove("lock", "test")
    /\ UNCHANGED <<gcWantsToRun, requestedMode, seen, gcMode, gcCycle, late>>

\* C leaves the order of the two loads in numThreads != numThreadsWaiting open.
GCReadThreads ==
    /\ GCMove("test", "threadsRead")
    /\ seen' = numThreads
    /\ late' = {}
    /\ UNCHANGED <<gcWantsToRun, requestedMode, gcMode, gcCycle>>

GCReadWaiting ==
    /\ GCMove("test", "waitingRead")
    /\ seen' = numThreadsWaiting
    /\ UNCHANGED <<gcWantsToRun, requestedMode, gcMode, gcCycle, late>>

\* Mutant: the loop waits only while numThreads is larger.
EnoughWaiting == \/ gcPc = "threadsRead" /\ seen <= numThreadsWaiting
                 \/ gcPc = "waitingRead" /\ seen >= numThreads

\* The second load and the comparison.
AllWaiting == \/ gcPc = "threadsRead" /\ seen = numThreadsWaiting
              \/ gcPc = "waitingRead" /\ seen = numThreads

Compared(from) == late' = IF from = "waitingRead" THEN {} ELSE late

\* Not all threads wait: unlock, yield, lock again.
GCRetry(from) ==
    /\ ~AllWaiting
    /\ GCMove(from, "lock")
    /\ seen' = 0
    /\ Compared(from)
    /\ UNCHANGED <<gcWantsToRun, requestedMode, gcMode, gcCycle>>

GCEnter(from) ==
    /\ AllWaiting
    /\ GCMove(from, "collect")
    /\ seen' = 0
    /\ gcMode' = requestedMode
    /\ gcCycle' = (gcCycle + 1) % MajorPeriod
    /\ Compared(from)
    /\ UNCHANGED <<gcWantsToRun, requestedMode>>

\* Mutant: the request is not cleared.
GCForgetsToClear ==
    /\ GCMove("collect", "release")
    /\ UNCHANGED <<gcWantsToRun, requestedMode, seen, gcMode, gcCycle, late>>

\* The passes and rebuildFreeList are over: let the threads out of the loop.
GCClear ==
    /\ GCMove("collect", "release")
    /\ gcWantsToRun' = FALSE
    /\ UNCHANGED <<requestedMode, seen, gcMode, gcCycle, late>>

GCRelease ==
    /\ GCMove("release", "idle")
    /\ requestedMode' = NORMAL
    /\ gcMode' = NORMAL
    /\ late' = {}
    /\ UNCHANGED <<gcWantsToRun, seen, gcCycle>>

-----------------------------------------------------------------------------
SavePoint(p) == \/ SavePointCheck(p)
                \/ SavePointCount(p)
                \/ SavePointSpin(p)
                \/ SavePointResume(p)

Collector == \/ GCStart
             \/ GCLock
             \/ GCReadThreads
             \/ GCReadWaiting
             \/ \E from \in {"threadsRead", "waitingRead"} :
                   GCRetry(from) \/ GCEnter(from)
             \/ GCClear
             \/ GCRelease

Next == \/ \E p \in Procs : SavePoint(p)
        \/ \E p \in Procs, mode \in {MINOR_ONLY, FORCE_MAJOR} : RequestGC(p, mode)
        \/ \E p, t \in Threads : ThreadStart(p, t)
        \/ \E t \in Threads : Register(t) \/ Instruction(t) \/ Unregister(t)
        \/ LauncherStart
        \/ LauncherFail
        \/ LauncherExit
        \/ Collector

Spec == Init /\ [][Next]_vars

\* What the system's scheduler gives: no thread that can go on is left out for
\* ever, and one that retries a mutex the collector keeps releasing gets it.
\* A thread may stay away from requestGC, from starting threads and from
\* returning, but it executes instructions.  The timer is left without
\* fairness: the collector must start only when it is asked to.
Fairness ==
    /\ \A t \in Threads : WF_vars(Register(t)) /\ WF_vars(Instruction(t))
    /\ \A p \in Procs : /\ WF_vars(SavePointCheck(p))
                        /\ WF_vars(SavePointCount(p))
                        /\ WF_vars(SavePointSpin(p))
                        /\ SF_vars(SavePointResume(p))
    /\ WF_vars(LauncherStart)
    /\ WF_vars(LauncherExit)
    /\ WF_vars(gcWantsToRun /\ GCStart)
    /\ WF_vars(Collector /\ gcPc # "idle")

FairSpec == Spec /\ Fairness

-----------------------------------------------------------------------------
TypeOK ==
    /\ pc \in [Procs -> ThreadPoints \cup LauncherPoints]
    /\ pc[Launcher] \in LauncherPoints
    /\ \A t \in Threads : pc[t] \in ThreadPoints
    /\ registered \in SUBSET Threads
    /\ maxNumThreads \in Nat \ {0}
    /\ gcWantsToRun \in BOOLEAN
    /\ numThreadsWaiting \in 0 .. Modulus - 1
    /\ requestedMode \in Modes
    /\ gcPc \in GCPoints
    /\ seen \in 0 .. Modulus - 1
    /\ gcMode \in Modes
    /\ gcCycle \in 0 .. MajorPeriod - 1
    /\ counted \in SUBSET Procs
    /\ debt \in 0 .. MaxPasses
    /\ late \in SUBSET Threads

\* n as an unsigned value of numThreadsWaiting's width, for -Modulus <= n < Modulus.
Wrap(n) == IF n < 0 THEN n + Modulus ELSE n

\* The counter is the number of counted threads less the unmatched decrements.
Accounting == numThreadsWaiting = Wrap(Cardinality(counted) - debt)

\* A thread that has incremented the counter and not decremented it is in the
\* loop of savePoint or blocked on the mutex behind it.
CountedArePaused == \A p \in counted : pc[p] \in {"spin", "resume"}

\* The main thread is created once.
MainOnce == pc[Launcher] \notin {"waiting", "exited"} => pc[MainThread] = "new"

\* Only threads between registerThread and unregisterThread are in jthreads,
\* and there is room for them.
RegistryOK ==
    /\ \A t \in registered : pc[t] \in InSavePoint \cup {"run"}
    /\ numThreads <= maxNumThreads

\* From line 118 to line 181 the flag stays up, whoever requested a collection.
FlagUp == gcPc \notin {"idle", "release"} => gcWantsToRun

\* What the collector has read is still good for the decision it takes.
SeenOK ==
    /\ gcPc = "threadsRead" => /\ Cardinality(registered \ late) <= seen
                               /\ seen <= Cardinality(Threads)
    /\ gcPc = "waitingRead" =>
          \E c \in 0 .. Cardinality(counted) : seen = Wrap(c - debt)

\* While the collector works at least as many threads are paused as were
\* registered when it counted.
Enough == gcPc = "collect" => Cardinality(registered \ late) <= Cardinality(counted)

IInv == /\ TypeOK
        /\ Accounting
        /\ CountedArePaused
        /\ MainOnce
        /\ RegistryOK
        /\ FlagUp
        /\ SeenOK
        /\ Enough

(***************************************************************************)
(* No registered thread executes an instruction while the collector works, *)
(* provided no thread registered during the collector's test and only      *)
(* registered threads were counted.  (runGC's test at gc.c:120 compares    *)
(* two numbers, not two sets, and reads them one after the other.)         *)
(***************************************************************************)
StopTheWorld ==
    (gcPc = "collect" /\ late = {} /\ counted \subseteq registered)
        => \A t \in registered : pc[t] # "run"

(***************************************************************************)
(* A thread that runs while the collector works is paid for: there are at  *)
(* most as many as outsiders (late or never registered) that were counted  *)
(* in their place.  It bounds what the two exceptions above can do.        *)
(***************************************************************************)
RunnersPaidFor ==
    gcPc = "collect" =>
        Cardinality({t \in registered \ late : pc[t] = "run"})
            <= Cardinality(counted \ (registered \ late))

(***************************************************************************)
(* A forced major collection is never lost: requestedMode leaves           *)
(* FORCE_MAJOR only at the end of a cycle that passed over the old heap,   *)
(* whatever weaker requests came in between (gc.c:103, 126, 182).          *)
(***************************************************************************)
ForcedMajorHonoured ==
    [][(requestedMode = FORCE_MAJOR /\ requestedMode' # FORCE_MAJOR)
          => gcPc = "release" /\ OldPass]_vars

(***************************************************************************)
(* As long as every decrement was matched and only registered threads were *)
(* counted, a requested collection ends (or the process does).             *)
(***************************************************************************)
Balanced == /\ debt = 0
            /\ counted \subseteq registered
            /\ \A p \in Procs : pc[p] \in {"spin", "resume"} => p \in counted
BalancedProgress ==
    ([]Balanced) => (gcWantsToRun ~> (~gcWantsToRun \/ ~Alive))

(***************************************************************************)
(* A counted thread that left the loop of savePoint gets past the mutex,   *)
(* however often the collector takes it again (gc.c:44, 119-124).          *)
(***************************************************************************)
ResumeProgress ==
    \A p \in Procs : (pc[p] = "resume" /\ p \in counted)
                         ~> (pc[p] # "resume" \/ ~Alive)

=============================================================================
