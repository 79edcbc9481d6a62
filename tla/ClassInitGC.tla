----------------------------- MODULE ClassInitGC ------------------------------
(***************************************************************************)
(* The initialisation of classes (ClassInit) by threads that stop at save  *)
(* points for the collector (Safepoint).  initializeClass runs within an   *)
(* instruction, pc[t] = "run"; the code of a <clinit> is a nested run,     *)
(* with a save point before each of its instructions.                      *)
(***************************************************************************)
EXTENDS ClassInit, FiniteSets

CONSTANTS MainThread, Launcher, InitialCapacity, MajorPeriod, Modulus, MaxPasses

\* What Safepoint assumes of its constants.
ASSUME ProtocolAssumption ==
    /\ IsFiniteSet(Threads)
    /\ MainThread \in Threads
    /\ Launcher \notin Threads
    /\ InitialCapacity \in Nat \ {0}
    /\ MajorPeriod \in Nat \ {0}
    /\ MaxPasses \in Nat
    /\ Modulus \in Nat
    /\ Modulus > MaxPasses + Cardinality(Threads) + 1

VARIABLES pc, registered, maxNumThreads, gcWantsToRun, numThreadsWaiting,
          requestedMode, gcPc, seen, gcMode, gcCycle, counted, debt, late

S == INSTANCE Safepoint

safepointVars == <<pc, registered, maxNumThreads, gcWantsToRun, numThreadsWaiting,
                   requestedMode, gcPc, seen, gcMode, gcCycle, counted, debt, late>>
allVars == <<vars, safepointVars>>

GCInit == Init /\ S!Init

\* A step within an instruction.
Executing(t) == S!Alive /\ pc[t] = "run"

InitializeStep(t) ==
    /\ Executing(t)
    /\ InitializeClass(t)
    /\ UNCHANGED safepointVars

BytecodeStep(t) ==
    /\ Executing(t)
    /\ Bytecode(t)
    /\ UNCHANGED safepointVars

\* Between two instructions, of the thread's own code or of an initialiser.
InCodeOnly(t) == At(t, "code") /\ result[t] = NoResult

NextInstruction(t) ==
    /\ InCodeOnly(t)
    /\ S!Instruction(t)
    /\ UNCHANGED vars

\* An instruction, a constant string or an exception finds eden full.
Allocate(t) ==
    /\ \/ InCodeOnly(t)
       \/ At(t, "constants") /\ Top(t).class \in WithStrings
       \/ (At(t, "throw") \/ At(t, "throwConstant")) /\ Returned(t, TRUE)
    /\ \E mode \in {S!MINOR_ONLY, S!FORCE_MAJOR} : S!RequestGC(t, mode)
    /\ UNCHANGED vars

\* A thread's last frame returns.
Finish(t) ==
    /\ InCodeOnly(t)
    /\ Top(t).class = NoClass
    /\ S!Unregister(t)
    /\ UNCHANGED vars

\* What happens whatever the threads are initialising.
Other ==
    /\ running
    /\ \/ \E p \in S!Procs : S!SavePoint(p)
       \/ \E t \in Threads : S!Register(t)
       \/ \E t, u \in Threads : InCodeOnly(t) /\ S!ThreadStart(t, u)
       \/ S!LauncherStart
       \/ S!LauncherFail
       \/ S!LauncherExit
       \/ S!Collector
    /\ UNCHANGED vars

GCNext == \/ \E t \in Threads : \/ InitializeStep(t)
                                \/ BytecodeStep(t)
                                \/ NextInstruction(t)
                                \/ Allocate(t)
                                \/ Finish(t)
          \/ Other

GCSpec == GCInit /\ [][GCNext]_allVars

\* What may be interrupted by collections again and again, but not for ever: an
\* allocation asks for two at most, and the constants, like the instructions of
\* an initialiser, come to an end.
Ends(t) == \/ Constants(t) \/ StringFails(t) \/ Thrown(t)
           \/ ClinitReturns(t) \/ ClinitThrows(t)

\* What a thread does next, whatever it is at.
ThreadStep(t) ==
    \/ InitializeStep(t)
    \/ BytecodeStep(t)
    \/ NextInstruction(t)
    \/ running /\ (S!Register(t) \/ S!SavePoint(t)) /\ UNCHANGED vars

\* A thread that can go on goes on.  Class locks and the collector's mutex are
\* granted to a thread that finds them free again and again; as gcInterval
\* passes between two collections of the timer, a thread in savePoint's loop
\* sees the flag down.
GCFairness ==
    /\ \A t \in Threads :
          /\ WF_allVars(ThreadStep(t))
          /\ SF_allVars(Executing(t) /\ (BusyWait(t) \/ Lock(t)) /\ UNCHANGED safepointVars)
          /\ SF_allVars(Executing(t) /\ Ends(t) /\ UNCHANGED safepointVars)
          /\ SF_allVars(running /\ (S!SavePointSpin(t) \/ S!SavePointResume(t)) /\ UNCHANGED vars)
    /\ WF_allVars(running /\ (gcWantsToRun \/ gcPc # "idle") /\ S!Collector /\ UNCHANGED vars)

GCFairSpec == GCSpec /\ GCFairness

-----------------------------------------------------------------------------
(***************************************************************************)
(* No class changes its state, and no class lock its owner, while the      *)
(* collector works on a stopped world, not even through a thread that is   *)
(* deep in an initialiser (bytecode_interpreter.c:21, 184).                *)
(***************************************************************************)
ClassesStill ==
    [][(/\ gcPc = "collect"
        /\ late = {}
        /\ counted \subseteq registered
        /\ \A t \in Threads : pc[t] \in S!InSavePoint \cup {"run"} => t \in registered)
            => UNCHANGED <<status, owner, depth>>]_allVars

\* A thread in an instruction waits for one that waits for the collector.
Crossed == \E t, u \in Threads : WaitsFor(t, u) /\ pc[t] = "run" /\ pc[u] \in S!InSavePoint

(***************************************************************************)
(* A thread in initializeClass gets out of it again, whatever collections  *)
(* it runs into, unless it comes to such a wait across the two modules:    *)
(* nothing else that initializeClass and savePoint do to each other can    *)
(* hold it up (bytecode_interpreter.c:21, 109, 112).                       *)
(***************************************************************************)
InitializationEnds ==
    ([]S!Balanced) =>
        \A t \in Threads :
            Len(stack[t]) > 1 ~> (Len(stack[t]) = 1 \/ Crossed \/ ~running \/ ~S!Alive)
=============================================================================
