--------------------------- MODULE SafepointProofs ---------------------------
(***************************************************************************)
(* Theorems about Safepoint, for every set of threads and every value of   *)
(* the other constants.                                                    *)
(***************************************************************************)
EXTENDS Safepoint, FiniteSetTheorems, TLAPS

\* Every set of threads is finite and smaller than the counter's modulus.
LEMMA ThreadSets ==
    ASSUME NEW S \in SUBSET Threads
    PROVE  /\ IsFiniteSet(S)
           /\ Cardinality(S) \in 0 .. Modulus - 1
<1>1. IsFiniteSet(S) /\ Cardinality(S) <= Cardinality(Threads)
  BY FS_Subset, ThreadsAssumption
<1>2. Cardinality(S) \in Nat /\ Cardinality(Threads) \in Nat
  BY <1>1, FS_CardinalityType, ThreadsAssumption
<1> QED
  BY <1>1, <1>2, NumbersAssumption

\* So is every set of processes, with room for MaxPasses below the modulus.
LEMMA ProcSets ==
    ASSUME NEW S \in SUBSET Procs
    PROVE  /\ IsFiniteSet(S)
           /\ Cardinality(S) \in Nat
           /\ Cardinality(S) + MaxPasses < Modulus
<1>1. /\ IsFiniteSet(Procs)
      /\ Cardinality(Procs) = Cardinality(Threads) + 1
  BY FS_AddElement, ThreadsAssumption DEF Procs
<1>2. IsFiniteSet(S) /\ Cardinality(S) <= Cardinality(Procs)
  BY <1>1, FS_Subset
<1>3. Cardinality(S) \in Nat /\ Cardinality(Threads) \in Nat
  BY <1>2, FS_CardinalityType, ThreadsAssumption
<1> QED
  BY <1>1, <1>2, <1>3, NumbersAssumption

\* The counter's arithmetic stays in range.
LEMMA CounterRange ==
    ASSUME NEW n \in 0 .. Modulus - 1
    PROVE  /\ Increment(n) \in 0 .. Modulus - 1
           /\ Decrement(n) \in 0 .. Modulus - 1
BY NumbersAssumption DEF Increment, Decrement

LEMMA TypeInit == Init => TypeOK
<1>1. Cardinality(Threads) \in Nat
  BY FS_CardinalityType, ThreadsAssumption
<1>2. Modulus > 0
  BY <1>1, NumbersAssumption
<1>3. ASSUME Init
      PROVE  /\ pc \in [Procs -> ThreadPoints \cup LauncherPoints]
             /\ pc[Launcher] \in LauncherPoints
             /\ \A t \in Threads : pc[t] \in ThreadPoints
  BY <1>3, ThreadsAssumption
  DEF Init, Procs, ThreadPoints, LauncherPoints
<1>4. ASSUME Init
      PROVE  /\ maxNumThreads \in Nat \ {0}
             /\ numThreadsWaiting \in 0 .. Modulus - 1
             /\ seen \in 0 .. Modulus - 1
             /\ gcCycle \in 0 .. MajorPeriod - 1
             /\ debt \in 0 .. MaxPasses
  BY <1>2, <1>4, NumbersAssumption DEF Init
<1>5. ASSUME Init
      PROVE  /\ registered \in SUBSET Threads
             /\ gcWantsToRun \in BOOLEAN
             /\ requestedMode \in Modes
             /\ gcPc \in GCPoints
             /\ gcMode \in Modes
             /\ counted \in SUBSET Procs
             /\ late \in SUBSET Threads
  BY <1>5 DEF Init, GCPoints, Modes
<1> QED
  BY <1>3, <1>4, <1>5 DEF TypeOK

LEMMA TypeNext == TypeOK /\ [Next]_vars => TypeOK'
<1> SUFFICES ASSUME TypeOK, [Next]_vars PROVE TypeOK'
  OBVIOUS
<1> USE ThreadsAssumption, NumbersAssumption
    DEF TypeOK, Procs, ThreadPoints, LauncherPoints, InSavePoint, GCPoints,
        gcVars
<1>1. ASSUME NEW p \in Procs, SavePointCheck(p) PROVE TypeOK'
  BY <1>1 DEF SavePointCheck, Move
<1>2. ASSUME NEW p \in Procs, SavePointCount(p) PROVE TypeOK'
  BY <1>2, CounterRange DEF SavePointCount, Move
<1>3. ASSUME NEW p \in Procs, SavePointSpin(p) PROVE TypeOK'
  BY <1>3 DEF SavePointSpin, Move
<1>4. ASSUME NEW p \in Procs, SavePointResume(p) PROVE TypeOK'
  BY <1>4, CounterRange DEF SavePointResume, Move
<1>5. ASSUME NEW p \in Procs, NEW mode \in {MINOR_ONLY, FORCE_MAJOR},
             RequestGC(p, mode)
      PROVE  TypeOK'
  BY <1>5 DEF RequestGC, Move, Larger, Modes, NORMAL, MINOR_ONLY, FORCE_MAJOR
<1>6. ASSUME NEW p \in Threads, NEW t \in Threads, ThreadStart(p, t) PROVE TypeOK'
  BY <1>6 DEF ThreadStart, Spawn, Move
<1>7. ASSUME NEW t \in Threads, Register(t) PROVE TypeOK'
  BY <1>7 DEF Register, Move
<1>8. ASSUME NEW t \in Threads, Instruction(t) PROVE TypeOK'
  BY <1>8 DEF Instruction, Move
<1>9. ASSUME NEW t \in Threads, Unregister(t) PROVE TypeOK'
  BY <1>9 DEF Unregister, Move
<1>10. CASE LauncherStart
  BY <1>10 DEF LauncherStart
<1>11. CASE LauncherFail
  BY <1>11 DEF LauncherFail, Move
<1>12. CASE LauncherExit
  BY <1>12 DEF LauncherExit, Move
<1>13. CASE Collector
  <2>1. CASE GCStart \/ GCLock \/ GCReadWaiting \/ GCClear \/ GCRelease
    BY <1>13, <2>1
    DEF GCStart, GCLock, GCReadWaiting, GCClear, GCRelease, GCMove, Modes, NORMAL
  <2>2. CASE GCReadThreads
    BY <2>2, ThreadSets DEF GCReadThreads, GCMove, numThreads
  <2>3. ASSUME NEW from \in {"threadsRead", "waitingRead"}, GCRetry(from)
        PROVE  TypeOK'
    BY <2>3 DEF GCRetry, GCMove, Compared
  <2>4. ASSUME NEW from \in {"threadsRead", "waitingRead"}, GCEnter(from)
        PROVE  TypeOK'
    <3>1. (gcCycle + 1) % MajorPeriod \in 0 .. MajorPeriod - 1
      OBVIOUS
    <3> QED
      BY <2>4, <3>1 DEF GCEnter, GCMove, Compared
  <2> QED
    BY <1>13, <2>1, <2>2, <2>3, <2>4 DEF Collector
<1>14. CASE UNCHANGED vars
  BY <1>14 DEF vars
<1> QED
  BY <1>1, <1>2, <1>3, <1>4, <1>5, <1>6, <1>7, <1>8, <1>9, <1>10, <1>11, <1>12,
     <1>13, <1>14
  DEF Next, SavePoint

\* Every variable keeps the type the code declares it with; above all,
\* numThreadsWaiting stays in the range of an unsigned integer (gc.c:15).
THEOREM TypeCorrect == Spec => []TypeOK
<1> QED
  BY TypeInit, TypeNext, PTL DEF Spec

-----------------------------------------------------------------------------
(* The inductive invariant.                                                *)

LEMMA InvInit == Init => IInv
<1> SUFFICES ASSUME Init PROVE IInv
  OBVIOUS
<1>1. TypeOK
  BY TypeInit
<1>2. Cardinality(registered) = 0 /\ Cardinality(counted) = 0
  BY FS_EmptySet DEF Init
<1>3. Accounting
  BY <1>2 DEF Init, Accounting, Wrap
<1>4. MainOnce /\ CountedArePaused /\ FlagUp /\ SeenOK /\ Enough
  BY ThreadsAssumption
  DEF Init, MainOnce, CountedArePaused, FlagUp, SeenOK, Enough, Procs
<1>5. RegistryOK
  BY <1>2, NumbersAssumption DEF Init, RegistryOK, numThreads
<1> QED
  BY <1>1, <1>3, <1>4, <1>5 DEF IInv

\* Accounting survives an increment by a thread that was not counted, and a
\* decrement by one that was, or was not.
LEMMA CountUp ==
    ASSUME TypeOK, Accounting, NEW p \in Procs, SavePointCount(p), p \notin counted
    PROVE  Accounting'
<1>1. /\ Cardinality(counted \cup {p}) = Cardinality(counted) + 1
      /\ Cardinality(counted) \in Nat
      /\ Cardinality(counted \cup {p}) + MaxPasses < Modulus
  BY FS_AddElement, ProcSets DEF TypeOK
<1> QED
  BY <1>1, NumbersAssumption
  DEF TypeOK, Accounting, SavePointCount, Increment, Wrap

LEMMA CountDown ==
    ASSUME TypeOK, Accounting, NEW p \in Procs, SavePointResume(p)
    PROVE  Accounting'
<1>1. /\ Cardinality(counted) \in Nat
      /\ Cardinality(counted) + MaxPasses < Modulus
  BY ProcSets DEF TypeOK
<1>2. CASE p \in counted
  <2>1. Cardinality(counted \ {p}) = Cardinality(counted) - 1
    BY <1>2, FS_RemoveElement, ProcSets DEF TypeOK
  <2>2. Cardinality(counted) >= 1
    BY <1>1, <1>2, FS_EmptySet, ProcSets DEF TypeOK
  <2> QED
    BY <1>1, <1>2, <2>1, <2>2, NumbersAssumption
    DEF TypeOK, Accounting, SavePointResume, Decrement, Wrap
<1>3. CASE p \notin counted
  <2>1. counted \ {p} = counted
    BY <1>3
  <2>2. /\ counted' = counted
        /\ debt' = debt + 1
        /\ debt \in 0 .. MaxPasses - 1
        /\ numThreadsWaiting' = Decrement(numThreadsWaiting)
    BY <1>3, <2>1, NumbersAssumption DEF SavePointResume, TypeOK
  <2>3. CASE Cardinality(counted) > debt
    BY <1>1, <2>2, <2>3, NumbersAssumption DEF Accounting, Decrement, Wrap
  <2>4. CASE Cardinality(counted) = debt
    BY <1>1, <2>2, <2>4, NumbersAssumption DEF Accounting, Decrement, Wrap
  <2>5. CASE Cardinality(counted) < debt
    BY <1>1, <2>2, <2>5, NumbersAssumption DEF Accounting, Decrement, Wrap
  <2> QED
    BY <1>1, <2>2, <2>3, <2>4, <2>5
<1> QED
  BY <1>2, <1>3

LEMMA MainOnceNext == IInv /\ [Next]_vars => MainOnce'
<1> SUFFICES ASSUME IInv, [Next]_vars PROVE MainOnce'
  OBVIOUS
<1> USE ThreadsAssumption DEF IInv, MainOnce, TypeOK, Procs
<1>1. ASSUME NEW p \in Procs, SavePoint(p) PROVE MainOnce'
  BY <1>1 DEF SavePoint, SavePointCheck, SavePointCount, SavePointSpin,
              SavePointResume, Move
<1>2. ASSUME NEW p \in Procs, NEW mode \in {MINOR_ONLY, FORCE_MAJOR},
             RequestGC(p, mode)
      PROVE  MainOnce'
  BY <1>2 DEF RequestGC, Move
<1>3. ASSUME NEW t \in Threads,
             \/ \E p \in Threads : ThreadStart(p, t)
             \/ Register(t) \/ Instruction(t) \/ Unregister(t)
      PROVE  MainOnce'
  BY <1>3 DEF ThreadStart, Spawn, Register, Instruction, Unregister, Move
<1>4. CASE LauncherStart \/ LauncherFail \/ LauncherExit
  BY <1>4 DEF LauncherStart, LauncherFail, LauncherExit, Move
<1>5. CASE UNCHANGED pc
  BY <1>5
<1> QED
  BY <1>1, <1>2, <1>3, <1>4, <1>5
  DEF Next, Collector, GCStart, GCLock, GCReadThreads, GCReadWaiting,
      GCRetry, GCEnter, GCClear, GCRelease, GCMove, vars

LEMMA AccountingNext == IInv /\ [Next]_vars => Accounting'
<1> SUFFICES ASSUME IInv, [Next]_vars PROVE Accounting'
  OBVIOUS
<1> USE DEF IInv
<1>1. ASSUME NEW p \in Procs, SavePointCount(p) PROVE Accounting'
  <2>1. p \notin counted
    BY <1>1 DEF CountedArePaused, SavePointCount, Move
  <2> QED
    BY <1>1, <2>1, CountUp
<1>2. ASSUME NEW p \in Procs, SavePointResume(p) PROVE Accounting'
  BY <1>2, CountDown
<1>3. ASSUME UNCHANGED <<counted, debt, numThreadsWaiting>> PROVE Accounting'
  BY <1>3 DEF Accounting
<1> QED
  BY <1>1, <1>2, <1>3
  DEF Next, SavePoint, SavePointCheck, SavePointSpin, RequestGC, ThreadStart,
      Spawn, Register, Instruction, Unregister, LauncherStart, LauncherFail,
      LauncherExit, Collector, GCStart, GCLock, GCReadThreads, GCReadWaiting,
      GCRetry, GCEnter, GCClear, GCRelease, GCMove, vars

LEMMA PausedNext == IInv /\ [Next]_vars => CountedArePaused'
<1> SUFFICES ASSUME IInv, [Next]_vars PROVE CountedArePaused'
  OBVIOUS
<1> USE DEF IInv, CountedArePaused, TypeOK
<1>1. ASSUME NEW p \in Procs, SavePoint(p) PROVE CountedArePaused'
  BY <1>1 DEF SavePoint, SavePointCheck, SavePointCount, SavePointSpin,
              SavePointResume, Move
<1>2. ASSUME NEW p \in Procs, NEW mode \in {MINOR_ONLY, FORCE_MAJOR},
             RequestGC(p, mode)
      PROVE  CountedArePaused'
  BY <1>2 DEF RequestGC, Move
<1>3. ASSUME NEW t \in Threads,
             \/ \E p \in Threads : ThreadStart(p, t)
             \/ Register(t) \/ Instruction(t) \/ Unregister(t)
      PROVE  CountedArePaused'
  BY <1>3 DEF ThreadStart, Spawn, Register, Instruction, Unregister, Move
<1>4. CASE LauncherStart \/ LauncherFail \/ LauncherExit
  <2>1. CASE LauncherFail \/ LauncherExit
    BY <2>1 DEF LauncherFail, LauncherExit, Move
  <2>2. CASE LauncherStart
    <3>1. MainThread \notin counted
      BY <2>2, ThreadsAssumption DEF LauncherStart, MainOnce
    <3> QED
      BY <2>2, <3>1 DEF LauncherStart
  <2> QED
    BY <1>4, <2>1, <2>2
<1>5. CASE UNCHANGED <<pc, counted>>
  BY <1>5
<1> QED
  BY <1>1, <1>2, <1>3, <1>4, <1>5
  DEF Next, Collector, GCStart, GCLock, GCReadThreads, GCReadWaiting,
      GCRetry, GCEnter, GCClear, GCRelease, GCMove, vars

\* Registration and its end keep jthreads within its allocation.
LEMMA RegistryNext == IInv /\ [Next]_vars => RegistryOK'
<1> SUFFICES ASSUME IInv, [Next]_vars PROVE RegistryOK'
  OBVIOUS
<1> USE DEF IInv
<1>1. /\ IsFiniteSet(registered)
      /\ numThreads \in Nat
      /\ numThreads <= maxNumThreads
      /\ maxNumThreads \in Nat \ {0}
  BY ThreadSets DEF TypeOK, RegistryOK, numThreads
<1>2. ASSUME NEW t \in Threads, Register(t) PROVE RegistryOK'
  <2>1. t \notin registered
    BY <1>2 DEF Register, Move, RegistryOK, InSavePoint
  <2>2. Cardinality(registered \cup {t}) = numThreads + 1
    BY <1>1, <2>1, FS_AddElement DEF numThreads
  <2>3. numThreads' <= maxNumThreads'
    <3>1. CASE /\ numThreads < maxNumThreads
               /\ registered' = registered \cup {t}
               /\ UNCHANGED maxNumThreads
      BY <1>1, <2>2, <3>1 DEF numThreads
    <3>2. CASE /\ numThreads = maxNumThreads
               /\ registered' = registered \cup {t}
               /\ maxNumThreads' = 2 * maxNumThreads
      BY <1>1, <2>2, <3>2 DEF numThreads
    <3>3. CASE UNCHANGED <<registered, maxNumThreads>>
      BY <1>1, <3>3 DEF numThreads
    <3> QED
      BY <1>2, <3>1, <3>2, <3>3 DEF Register
  <2>4. \A u \in registered' : pc'[u] \in InSavePoint \cup {"run"}
    <3>1. /\ pc' = [pc EXCEPT ![t] = "check"]
          /\ registered' \subseteq registered \cup {t}
          /\ registered \subseteq Threads
      BY <1>2 DEF Register, Move, TypeOK
    <3> QED
      BY <3>1 DEF RegistryOK, TypeOK, Procs, InSavePoint
  <2> QED
    BY <2>3, <2>4 DEF RegistryOK
<1>3. ASSUME NEW t \in Threads, Unregister(t) PROVE RegistryOK'
  <2>1. Cardinality(registered') <= numThreads
    BY <1>1, <1>3, FS_Subset DEF Unregister, numThreads
  <2>2. Cardinality(registered') \in Nat
    BY <1>1, <1>3, FS_Subset, FS_CardinalityType DEF Unregister
  <2>3. numThreads' <= maxNumThreads'
    BY <1>1, <1>3, <2>1, <2>2 DEF Unregister, numThreads
  <2>4. \A u \in registered' : pc'[u] \in InSavePoint \cup {"run"}
    BY <1>3 DEF Unregister, Move, RegistryOK, TypeOK, Procs
  <2> QED
    BY <2>3, <2>4 DEF RegistryOK
<1>4. ASSUME UNCHANGED <<registered, maxNumThreads>>,
             \A u \in registered : pc'[u] \in InSavePoint \cup {"run"}
      PROVE  RegistryOK'
  BY <1>4 DEF RegistryOK, numThreads
<1> USE DEF RegistryOK, TypeOK, Procs, InSavePoint
<1>5. ASSUME NEW p \in Procs, SavePoint(p) PROVE RegistryOK'
  BY <1>4, <1>5, ThreadsAssumption
  DEF SavePoint, SavePointCheck, SavePointCount, SavePointSpin,
      SavePointResume, Move
<1>6. ASSUME NEW p \in Procs, NEW mode \in {MINOR_ONLY, FORCE_MAJOR},
             RequestGC(p, mode)
      PROVE  RegistryOK'
  BY <1>4, <1>6 DEF RequestGC, Move
<1>7. ASSUME NEW t \in Threads,
             (\E p \in Threads : ThreadStart(p, t)) \/ Instruction(t)
      PROVE  RegistryOK'
  BY <1>4, <1>7 DEF ThreadStart, Spawn, Instruction, Move
<1>8. CASE LauncherStart \/ LauncherFail \/ LauncherExit
  BY <1>4, <1>8, ThreadsAssumption
  DEF LauncherStart, LauncherFail, LauncherExit, Move, MainOnce
<1>9. CASE UNCHANGED <<pc, registered, maxNumThreads>>
  BY <1>4, <1>9
<1> QED
  BY <1>2, <1>3, <1>5, <1>6, <1>7, <1>8, <1>9
  DEF Next, Collector, GCStart, GCLock, GCReadThreads, GCReadWaiting,
      GCRetry, GCEnter, GCClear, GCRelease, GCMove, vars

\* Between line 118 and line 181 nobody but the collector clears the flag.
LEMMA FlagNext == IInv /\ [Next]_vars => FlagUp'
BY DEF IInv, TypeOK, FlagUp, Next, SavePoint, SavePointCheck, SavePointCount,
       SavePointSpin, SavePointResume, RequestGC, ThreadStart, Spawn, Register,
       Instruction, Unregister, LauncherStart, LauncherFail, LauncherExit,
       Collector, GCStart, GCLock, GCReadThreads, GCReadWaiting, GCRetry,
       GCEnter, GCClear, GCRelease, GCMove, GCPoints, Move, vars, gcVars

\* While the collector decides and works, threads join the registered ones
\* only as late ones.
LEMMA OnlyLateJoin ==
    ASSUME IInv, [Next]_vars,
           gcPc \in {"threadsRead", "collect"},
           gcPc' \in {"threadsRead", "collect"}
    PROVE  /\ registered' \ late' \subseteq registered \ late
           /\ Cardinality(registered' \ late') <= Cardinality(registered \ late)
<1>1. registered' \ late' \subseteq registered \ late
  BY DEF Next, SavePoint, SavePointCheck, SavePointCount, SavePointSpin,
         SavePointResume, RequestGC, ThreadStart, Spawn, Register, Instruction,
         Unregister, LauncherStart, LauncherFail, LauncherExit, Collector,
         GCStart, GCLock, GCReadThreads, GCReadWaiting, GCRetry, GCEnter,
         GCClear, GCRelease, GCMove, Compared, vars
<1>2. IsFiniteSet(registered \ late)
  BY ThreadSets DEF IInv, TypeOK
<1> QED
  BY <1>1, <1>2, FS_Subset

\* While the collector holds the mutex nobody decrements the counter.
LEMMA OnlyIncrements ==
    ASSUME IInv, [Next]_vars, GCHolds
    PROVE  /\ counted \subseteq counted'
           /\ debt' = debt
           /\ Cardinality(counted) <= Cardinality(counted')
           /\ Cardinality(counted) \in Nat
           /\ Cardinality(counted') \in Nat
<1>1. counted \subseteq counted' /\ debt' = debt
  BY DEF Next, SavePoint, SavePointCheck, SavePointCount, SavePointSpin,
         SavePointResume, RequestGC, ThreadStart, Spawn, Register, Instruction,
         Unregister, LauncherStart, LauncherFail, LauncherExit, Collector,
         GCStart, GCLock, GCReadThreads, GCReadWaiting, GCRetry, GCEnter,
         GCClear, GCRelease, GCMove, vars
<1>2. counted' \in SUBSET Procs /\ counted \in SUBSET Procs
  BY TypeNext DEF IInv, TypeOK
<1>3. IsFiniteSet(counted') /\ Cardinality(counted') \in Nat
  BY <1>2, ProcSets
<1> QED
  BY <1>1, <1>2, <1>3, ProcSets, FS_Subset

\* Outside the collector's own steps its program counter and seen stay.
LEMMA CollectorOnly ==
    ASSUME [Next]_vars
    PROVE  Collector \/ UNCHANGED <<gcPc, seen>>
BY DEF Next, SavePoint, SavePointCheck, SavePointCount, SavePointSpin,
       SavePointResume, RequestGC, ThreadStart, Spawn, Register, Instruction,
       Unregister, LauncherStart, LauncherFail, LauncherExit, gcVars, vars

LEMMA SeenNext == IInv /\ [Next]_vars => SeenOK'
<1> SUFFICES ASSUME IInv, [Next]_vars PROVE SeenOK'
  OBVIOUS
<1>1. ASSUME gcPc' = "threadsRead"
      PROVE  /\ Cardinality(registered' \ late') <= seen'
             /\ seen' <= Cardinality(Threads)
  <2>1. CASE GCReadThreads
    <3>1. registered' \ late' = registered /\ seen' = Cardinality(registered)
      BY <2>1 DEF GCReadThreads, GCMove, numThreads
    <3>2. /\ Cardinality(registered) <= Cardinality(Threads)
          /\ Cardinality(registered) \in Nat
      BY ThreadSets, FS_Subset, ThreadsAssumption DEF IInv, TypeOK
    <3> QED
      BY <3>1, <3>2
  <2>2. CASE UNCHANGED <<gcPc, seen>>
    <3>1. /\ Cardinality(registered' \ late') <= Cardinality(registered \ late)
          /\ Cardinality(registered \ late) <= seen
          /\ seen <= Cardinality(Threads)
      BY <1>1, <2>2, OnlyLateJoin DEF IInv, SeenOK
    <3>2. /\ Cardinality(registered' \ late') \in Nat
          /\ Cardinality(registered \ late) \in Nat
          /\ seen \in Nat
      BY TypeNext, ThreadSets, NumbersAssumption DEF IInv, TypeOK
    <3> QED
      BY <2>2, <3>1, <3>2
  <2> QED
    BY <1>1, <2>1, <2>2, CollectorOnly
    DEF Collector, GCStart, GCLock, GCReadWaiting, GCRetry, GCEnter, GCClear,
        GCRelease, GCMove
<1>2. ASSUME gcPc' = "waitingRead"
      PROVE  \E c \in 0 .. Cardinality(counted') : seen' = Wrap(c - debt')
  <2>1. CASE GCReadWaiting
    <3>1. /\ seen' = Wrap(Cardinality(counted) - debt)
          /\ counted' = counted
          /\ debt' = debt
      BY <2>1 DEF GCReadWaiting, GCMove, IInv, Accounting
    <3>2. Cardinality(counted) \in 0 .. Cardinality(counted)
      BY ProcSets DEF IInv, TypeOK
    <3> QED
      BY <3>1, <3>2
  <2>2. CASE UNCHANGED <<gcPc, seen>>
    <3>1. PICK c \in 0 .. Cardinality(counted) : seen = Wrap(c - debt)
      BY <1>2, <2>2 DEF IInv, SeenOK
    <3>2. /\ debt' = debt
          /\ Cardinality(counted) <= Cardinality(counted')
          /\ Cardinality(counted) \in Nat
          /\ Cardinality(counted') \in Nat
      BY <1>2, <2>2, OnlyIncrements DEF GCHolds
    <3>3. c \in 0 .. Cardinality(counted')
      BY <3>2
    <3> QED
      BY <2>2, <3>1, <3>2, <3>3 DEF Wrap
  <2> QED
    BY <1>2, <2>1, <2>2, CollectorOnly
    DEF Collector, GCStart, GCLock, GCReadThreads, GCRetry, GCEnter, GCClear,
        GCRelease, GCMove
<1> QED
  BY <1>1, <1>2 DEF SeenOK

LEMMA EnoughNext == IInv /\ [Next]_vars => Enough'
<1> SUFFICES ASSUME IInv, [Next]_vars, gcPc' = "collect"
             PROVE  Cardinality(registered' \ late') <= Cardinality(counted')
  BY DEF Enough
<1>1. /\ Cardinality(registered \ late) \in Nat
      /\ Cardinality(registered' \ late') \in Nat
      /\ Cardinality(registered) \in Nat
      /\ Cardinality(registered) <= Cardinality(Threads)
      /\ Cardinality(Threads) \in Nat
      /\ Cardinality(counted) \in Nat
      /\ debt \in 0 .. MaxPasses
  BY TypeNext, ThreadSets, ProcSets, FS_Subset, ThreadsAssumption
  DEF IInv, TypeOK
<1>2. ASSUME GCEnter("threadsRead")
      PROVE  Cardinality(registered' \ late') <= Cardinality(counted')
  <2>1. /\ gcPc = "threadsRead"
        /\ seen = Wrap(Cardinality(counted) - debt)
        /\ counted' = counted
    BY <1>2 DEF GCEnter, GCMove, AllWaiting, IInv, Accounting
  <2>2. /\ Cardinality(registered' \ late') <= Cardinality(registered \ late)
        /\ Cardinality(registered \ late) <= seen
        /\ seen <= Cardinality(Threads)
    BY <1>2, <2>1, OnlyLateJoin DEF IInv, SeenOK
  <2>3. seen <= Cardinality(counted)
    BY <1>1, <2>1, <2>2, NumbersAssumption DEF Wrap
  <2>4. seen \in Nat
    BY NumbersAssumption DEF IInv, TypeOK
  <2> QED
    BY <1>1, <2>1, <2>2, <2>3, <2>4
<1>3. ASSUME GCEnter("waitingRead")
      PROVE  Cardinality(registered' \ late') <= Cardinality(counted')
  <2>1. /\ seen = Cardinality(registered)
        /\ registered' \ late' = registered
        /\ counted' = counted
    BY <1>3 DEF GCEnter, GCMove, AllWaiting, Compared, numThreads
  <2>2. PICK c \in 0 .. Cardinality(counted) : seen = Wrap(c - debt)
    BY <1>3 DEF GCEnter, GCMove, IInv, SeenOK
  <2>3. Cardinality(registered) <= Cardinality(counted)
    BY <1>1, <2>1, <2>2, NumbersAssumption DEF Wrap
  <2> QED
    BY <2>1, <2>3
<1>4. ASSUME gcPc = "collect"
      PROVE  Cardinality(registered' \ late') <= Cardinality(counted')
  <2>1. Cardinality(registered' \ late') <= Cardinality(registered \ late)
    BY <1>4, OnlyLateJoin
  <2>2. Cardinality(registered \ late) <= Cardinality(counted)
    BY <1>4 DEF IInv, Enough
  <2>3. /\ Cardinality(counted) <= Cardinality(counted')
        /\ Cardinality(counted') \in Nat
    BY <1>4, OnlyIncrements DEF GCHolds
  <2> QED
    BY <1>1, <2>1, <2>2, <2>3
<1> QED
  BY <1>2, <1>3, <1>4, CollectorOnly
  DEF Collector, GCStart, GCLock, GCReadThreads, GCReadWaiting, GCRetry,
      GCClear, GCRelease, GCMove

LEMMA InvNext == IInv /\ [Next]_vars => IInv'
BY TypeNext, AccountingNext, PausedNext, MainOnceNext, RegistryNext, FlagNext,
   SeenNext, EnoughNext
DEF IInv

\* The counter, the registry and the two loads of the collector agree in
\* every reachable state as IInv says (gc.c:39-78, 117-124).
THEOREM Invariance == Spec => []IInv
<1> QED
  BY InvInit, InvNext, PTL DEF Spec

-----------------------------------------------------------------------------
(* What the invariant is for.                                              *)


\* If C has as many elements as M, those of M that are not in C are no more
\* than those of C that are not in M.
LEMMA Exchange ==
    ASSUME NEW M, NEW C, IsFiniteSet(M), IsFiniteSet(C),
           Cardinality(M) <= Cardinality(C),
           NEW R \in SUBSET (M \ C)
    PROVE  Cardinality(R) <= Cardinality(C \ M)
<1>1. /\ IsFiniteSet(M \ C)
      /\ Cardinality(M \ C) = Cardinality(M) - Cardinality(M \cap C)
      /\ Cardinality(C \ M) = Cardinality(C) - Cardinality(C \cap M)
  BY FS_Difference
<1>2. IsFiniteSet(R) /\ Cardinality(R) <= Cardinality(M \ C)
  BY <1>1, FS_Subset
<1>3. C \cap M = M \cap C
  OBVIOUS
<1>4. /\ Cardinality(R) \in Nat
      /\ Cardinality(M) \in Nat
      /\ Cardinality(C) \in Nat
      /\ Cardinality(M \cap C) \in Nat
  BY <1>2, FS_CardinalityType, FS_Intersection
<1>5. Cardinality(R) <= Cardinality(M) - Cardinality(M \cap C)
  BY <1>1, <1>2
<1>6. Cardinality(C \ M) = Cardinality(C) - Cardinality(M \cap C)
  BY <1>1, <1>3
<1> QED
  BY <1>4, <1>5, <1>6

LEMMA RunnersFromInv == IInv => RunnersPaidFor
<1> SUFFICES ASSUME IInv, gcPc = "collect"
             PROVE  Cardinality({t \in registered \ late : pc[t] = "run"})
                       <= Cardinality(counted \ (registered \ late))
  BY DEF RunnersPaidFor
<1>1. /\ IsFiniteSet(registered \ late)
      /\ IsFiniteSet(counted)
      /\ Cardinality(registered \ late) <= Cardinality(counted)
  BY ThreadSets, ProcSets DEF IInv, TypeOK, Enough
<1>2. {t \in registered \ late : pc[t] = "run"}
         \in SUBSET ((registered \ late) \ counted)
  BY DEF IInv, CountedArePaused
<1> QED
  BY <1>1, <1>2, Exchange

\* No thread runs on another's account: a registered thread executes while
\* the collector works only if an outsider was counted in its place
\* (gc.c:39-47, 117-127).
THEOREM RunnersSafe == Spec => []RunnersPaidFor
<1> QED
  BY Invariance, RunnersFromInv, PTL

LEMMA StopFromInv == IInv => StopTheWorld
<1> SUFFICES ASSUME IInv, gcPc = "collect", late = {}, counted \subseteq registered,
                    NEW t \in registered
             PROVE  pc[t] # "run"
  BY DEF StopTheWorld
<1>1. registered \ late = registered
  OBVIOUS
<1>2. /\ IsFiniteSet(registered)
      /\ Cardinality(registered) <= Cardinality(counted)
  BY <1>1, ThreadSets DEF IInv, TypeOK, Enough
<1>3. Cardinality(counted) <= Cardinality(registered)
  BY <1>2, FS_Subset
<1>4. Cardinality(registered) \in Nat /\ Cardinality(counted) \in Nat
  BY ThreadSets, ProcSets DEF IInv, TypeOK
<1>5. counted = registered
  BY <1>2, <1>3, <1>4, FS_Subset
<1> QED
  BY <1>5 DEF IInv, CountedArePaused

\* The world is stopped while the collector works, outside the two cases the
\* property names (gc.c:120-126, bytecode_interpreter.c:19-26).
THEOREM WorldStopped == Spec => []StopTheWorld
<1> QED
  BY Invariance, StopFromInv, PTL

-----------------------------------------------------------------------------
(* Requests.                                                               *)

\* The mode a cycle works with is the mode requested, until it is over.
ModeKept == gcPc \in {"collect", "release"} => gcMode = requestedMode

LEMMA ModeNext == TypeOK /\ ModeKept /\ [Next]_vars => ModeKept'
BY DEF TypeOK, ModeKept, Next, SavePoint, SavePointCheck, SavePointCount,
       SavePointSpin, SavePointResume, RequestGC, ThreadStart, Spawn, Register,
       Instruction, Unregister, LauncherStart, LauncherFail, LauncherExit,
       Collector, GCStart, GCLock, GCReadThreads, GCReadWaiting, GCRetry,
       GCEnter, GCClear, GCRelease, GCMove, GCHolds, Move, vars, gcVars

\* A requested major collection is carried out, whatever else is requested
\* before the collector gets to it (gc.c:103, 126, 136, 182).
THEOREM MajorHonoured == Spec => ForcedMajorHonoured
<1>1. Init => ModeKept
  BY DEF Init, ModeKept
<1>2. TypeOK /\ ModeKept /\ [Next]_vars
         => [(requestedMode = FORCE_MAJOR /\ requestedMode' # FORCE_MAJOR)
                => gcPc = "release" /\ OldPass]_vars
  <2> SUFFICES ASSUME TypeOK, ModeKept, Next, 
                      requestedMode = FORCE_MAJOR, requestedMode' # FORCE_MAJOR
               PROVE  gcPc = "release" /\ OldPass
    BY DEF vars
  <2>1. ASSUME NEW p \in Procs, NEW mode \in {MINOR_ONLY, FORCE_MAJOR},
               RequestGC(p, mode)
        PROVE  FALSE
    BY <2>1 DEF RequestGC, Larger, FORCE_MAJOR, MINOR_ONLY
  <2>2. CASE GCRelease
    BY <2>2 DEF GCRelease, GCMove, ModeKept, OldPass, FORCE_MAJOR, MINOR_ONLY
  <2> QED
    BY <2>1, <2>2
    DEF Next, SavePoint, SavePointCheck, SavePointCount, SavePointSpin,
        SavePointResume, ThreadStart, Spawn, Register, Instruction, Unregister,
        LauncherStart, LauncherFail, LauncherExit, Collector, GCStart, GCLock,
        GCReadThreads, GCReadWaiting, GCRetry, GCEnter, GCClear, GCMove
<1> QED
  BY <1>1, <1>2, TypeInit, TypeNext, ModeNext, PTL DEF Spec, ForcedMajorHonoured
=============================================================================
