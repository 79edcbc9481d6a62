----------------------------- MODULE JLockProofs -----------------------------
(***************************************************************************)
(* Theorems about JLock, for every set of threads and depth of nesting.    *)
(***************************************************************************)
EXTENDS JLock, TLAPS

LEMMA InvInit == Init => IInv
BY JLockAssumption DEF Init, IInv, TypeOK, PointsOK, Points, Busy

\* Within the bound the count neither wraps nor underflows.
LEMMA CountStep ==
    ASSUME NEW n \in 1 .. MaxDepth
    PROVE  /\ n < MaxDepth => (n + 1) % CountSize = n + 1
           /\ (n - 1) % CountSize = n - 1
           /\ 1 % CountSize = 1
BY JLockAssumption

LEMMA InvNext == IInv /\ [Next]_vars => IInv'
<1> SUFFICES ASSUME IInv, [Next]_vars PROVE IInv'
  OBVIOUS
<1> USE JLockAssumption DEF IInv, TypeOK, PointsOK, Points, Busy, Goto
<1>1. ASSUME NEW t \in Threads, Enter(t) PROVE IInv'
  BY <1>1 DEF Enter
<1>2. ASSUME NEW t \in Threads, ReadOwner(t) PROVE IInv'
  BY <1>2 DEF ReadOwner
<1>3. ASSUME NEW t \in Threads, Reenter(t) PROVE IInv'
  <2>1. /\ acquiredCount' = acquiredCount + 1
        /\ acquiredCount = depth[t]
        /\ \A u \in Threads \ {t} : depth[u] = 0
    BY <1>3, CountStep DEF Reenter
  <2> QED
    BY <1>3, <2>1 DEF Reenter
<1>4. ASSUME NEW t \in Threads, Acquire(t) PROVE IInv'
  BY <1>4 DEF Acquire
<1>5. ASSUME NEW t \in Threads, SetOwner(t) PROVE IInv'
  BY <1>5 DEF SetOwner
<1>6. ASSUME NEW t \in Threads, SetCount(t) PROVE IInv'
  <2>0. depth[t] = 0 /\ conditionMutex = t
    BY <1>6 DEF SetCount
  <2>1. /\ acquiredCount' = 1
        /\ depth' = [depth EXCEPT ![t] = 1]
        /\ \A u \in Threads \ {t} : depth[u] = 0
    <3>1. depth' = [depth EXCEPT ![t] = depth[t] + 1] /\ acquiredCount' = 1
      BY <1>6 DEF SetCount
    <3>2. \A u \in Threads \ {t} : ~(depth[u] > 0) /\ depth[u] \in 0 .. MaxDepth
      BY <2>0
    <3> QED
      BY <2>0, <3>1, <3>2
  <2>2. MaxDepth >= 1
    BY <1>6 DEF SetCount
  <2>3. TypeOK'
    BY <1>6, <2>1, <2>2 DEF SetCount
  <2>4. PointsOK(t)'
    BY <1>6, <2>1 DEF SetCount
  <2>5. ASSUME NEW u \in Threads \ {t} PROVE PointsOK(u)'
    BY <1>6, <2>1 DEF SetCount
  <2> QED
    BY <2>3, <2>4, <2>5
<1>7. ASSUME NEW t \in Threads, Exit(t) PROVE IInv'
  BY <1>7 DEF Exit
<1>8. ASSUME NEW t \in Threads, Decrement(t) PROVE IInv'
  <2>1. /\ acquiredCount' = acquiredCount - 1
        /\ acquiredCount = depth[t]
        /\ \A u \in Threads \ {t} : depth[u] = 0
    BY <1>8, CountStep DEF Decrement
  <2> QED
    BY <1>8, <2>1 DEF Decrement
<1>9. ASSUME NEW t \in Threads, ClearOwner(t) PROVE IInv'
  BY <1>9 DEF ClearOwner
<1>10. ASSUME NEW t \in Threads, Release(t) PROVE IInv'
  BY <1>10 DEF Release
<1>11. CASE UNCHANGED vars
  BY <1>11 DEF vars
<1> QED
  BY <1>1, <1>2, <1>3, <1>4, <1>5, <1>6, <1>7, <1>8, <1>9, <1>10, <1>11
  DEF Next, Lock, Unlock

\* The inductive invariant: owner, acquiredCount, the mutex and the program
\* points of jlock_lock and jlock_unlock determine each other.
THEOREM Invariance == Spec => []IInv
<1> QED
  BY InvInit, InvNext, PTL DEF Spec

\* Between calls the fields say who is inside, and how deep (jlock.c:15-38).
THEOREM Agreement == Spec => []FieldsAgree
<1>1. IInv => FieldsAgree
  BY DEF IInv, TypeOK, PointsOK, FieldsAgree, Busy
<1> QED
  BY <1>1, Invariance, PTL

\* A step of jlock_lock or jlock_unlock is an entry, an exit or nothing.
LEMMA StepSimulation == IInv /\ [Next]_vars => [M!Next]_depth
<1> SUFFICES ASSUME IInv, [Next]_vars PROVE [M!Next]_depth
  OBVIOUS
<1> USE JLockAssumption DEF IInv, TypeOK, PointsOK, Busy, Goto
<1>1. ASSUME NEW t \in Threads, Reenter(t) \/ SetCount(t) PROVE M!Enter(t)
  <2>1. \A u \in Threads \ {t} : depth[u] = 0
    BY <1>1 DEF Reenter, SetCount
  <2> QED
    BY <1>1, <2>1 DEF Reenter, SetCount, M!Enter
<1>2. ASSUME NEW t \in Threads, Decrement(t) PROVE M!Leave(t)
  BY <1>2 DEF Decrement, M!Leave
<1> QED
  BY <1>1, <1>2
  DEF Next, Lock, Unlock, M!Next, vars, Enter, ReadOwner, Acquire, SetOwner,
      Exit, ClearOwner, Release

\* The lock implements the re-entrant monitor (jlock.h:11).
THEOREM ImplementsMonitor == Spec => MonitorSpec
<1>1. Init => M!Init
  BY DEF Init, M!Init
<1> QED
  BY <1>1, Invariance, StepSimulation, PTL DEF Spec, MonitorSpec, M!Spec
=============================================================================
