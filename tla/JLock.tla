-------------------------------- MODULE JLock --------------------------------
(***************************************************************************)
(* jlock_t (jlock.c) under the threads that use it, in monitorenter and    *)
(* monitorexit of the interpreter and in initializeClass.  One step is one *)
(* access to owner, to acquiredCount or to the mutex.                      *)
(***************************************************************************)
EXTENDS Integers

CONSTANTS
    Threads,    \* thread ids, never 0 (jthread.c:14)
    NoThread,   \* the owner 0, and the holder of a free mutex
    CountSize,  \* acquiredCount counts modulo this (2^32)
    MaxDepth    \* bound: how deep a thread nests its entries

ASSUME JLockAssumption ==
    /\ NoThread \notin Threads
    /\ CountSize \in Nat
    /\ MaxDepth \in Nat
    /\ MaxDepth < CountSize

VARIABLES
    owner,
    acquiredCount,
    conditionMutex,     \* the thread that holds it
    pc,
    depth               \* history: entries less exits a thread has made

vars == <<owner, acquiredCount, conditionMutex, pc, depth>>

Init ==
    /\ owner = NoThread
    /\ acquiredCount = 0
    /\ conditionMutex = NoThread
    /\ pc = [t \in Threads |-> "idle"]
    /\ depth = [t \in Threads |-> 0]

Goto(t, from, to) == pc[t] = from /\ pc' = [pc EXCEPT ![t] = to]

-----------------------------------------------------------------------------
(* jlock_lock                                                              *)

\* monitorenter on a non-null object; the bound is on the nesting only.
Enter(t) ==
    /\ depth[t] < MaxDepth
    /\ Goto(t, "idle", "lock")
    /\ UNCHANGED <<owner, acquiredCount, conditionMutex, depth>>

ReadOwner(t) ==
    /\ Goto(t, "lock", IF owner = t THEN "reenter" ELSE "mutex")
    /\ UNCHANGED <<owner, acquiredCount, conditionMutex, depth>>

Reenter(t) ==
    /\ Goto(t, "reenter", "idle")
    /\ acquiredCount' = (acquiredCount + 1) % CountSize
    /\ depth' = [depth EXCEPT ![t] = @ + 1]
    /\ UNCHANGED <<owner, conditionMutex>>

Acquire(t) ==
    /\ conditionMutex = NoThread
    /\ Goto(t, "mutex", "owner")
    /\ conditionMutex' = t
    /\ UNCHANGED <<owner, acquiredCount, depth>>

SetOwner(t) ==
    /\ Goto(t, "owner", "count")
    /\ owner' = t
    /\ UNCHANGED <<acquiredCount, conditionMutex, depth>>

\* Mutant: the count is left as the last holder had it.
KeepCount(t) ==
    /\ Goto(t, "count", "idle")
    /\ depth' = [depth EXCEPT ![t] = @ + 1]
    /\ UNCHANGED <<owner, acquiredCount, conditionMutex>>

SetCount(t) ==
    /\ Goto(t, "count", "idle")
    /\ acquiredCount' = 1
    /\ depth' = [depth EXCEPT ![t] = @ + 1]
    /\ UNCHANGED <<owner, conditionMutex>>

-----------------------------------------------------------------------------
(* monitorexit and jlock_unlock                                            *)

\* monitorexit throws IllegalMonitorStateException for a thread that does not
\* own the monitor; jlock_unlock would ignore it all the same.
Exit(t) ==
    /\ Goto(t, "idle", IF owner = t THEN "decrement" ELSE "idle")
    /\ UNCHANGED <<owner, acquiredCount, conditionMutex, depth>>

\* Mutant: one exit gives the lock up, however deep the nesting.
DecrementToZero(t) ==
    /\ Goto(t, "decrement", "clear")
    /\ acquiredCount' = 0
    /\ depth' = [depth EXCEPT ![t] = @ - 1]
    /\ UNCHANGED <<owner, conditionMutex>>

\* The count is one less; what follows depends on whether it is 0 now.
Decrement(t) ==
    /\ acquiredCount' = (acquiredCount - 1) % CountSize
    /\ Goto(t, "decrement", IF acquiredCount' = 0 THEN "clear" ELSE "idle")
    /\ depth' = [depth EXCEPT ![t] = @ - 1]
    /\ UNCHANGED <<owner, conditionMutex>>

\* Mutant: the mutex is given up first, the owner cleared after it.
ReleaseFirst(t) ==
    /\ Goto(t, "clear", "release")
    /\ conditionMutex' = NoThread
    /\ UNCHANGED <<owner, acquiredCount, depth>>

ClearOwner(t) ==
    /\ Goto(t, "clear", "release")
    /\ owner' = NoThread
    /\ UNCHANGED <<acquiredCount, conditionMutex, depth>>

\* Mutant: the mutex stays locked.
ForgetRelease(t) ==
    /\ Goto(t, "release", "idle")
    /\ UNCHANGED <<owner, acquiredCount, conditionMutex, depth>>

Release(t) ==
    /\ Goto(t, "release", "idle")
    /\ conditionMutex' = NoThread
    /\ UNCHANGED <<owner, acquiredCount, depth>>

-----------------------------------------------------------------------------
Lock(t) == \/ Enter(t) \/ ReadOwner(t) \/ Reenter(t) \/ Acquire(t)
           \/ SetOwner(t) \/ SetCount(t)

Unlock(t) == \/ Exit(t) \/ Decrement(t) \/ ClearOwner(t) \/ Release(t)

Next == \E t \in Threads : Lock(t) \/ Unlock(t)

Spec == Init /\ [][Next]_vars

\* A thread inside a call goes on, and a mutex that is free again and again is
\* eventually granted.
CallFairness ==
    \A t \in Threads : /\ WF_vars(pc[t] # "idle" /\ (Lock(t) \/ Unlock(t)))
                       /\ SF_vars(Acquire(t))

FairSpec == Spec /\ CallFairness

-----------------------------------------------------------------------------
Points == {"idle", "lock", "reenter", "mutex", "owner", "count", "decrement",
           "clear", "release"}

TypeOK ==
    /\ owner \in Threads \cup {NoThread}
    /\ acquiredCount \in 0 .. CountSize - 1
    /\ conditionMutex \in Threads \cup {NoThread}
    /\ pc \in [Threads -> Points]
    /\ depth \in [Threads -> 0 .. MaxDepth]

(***************************************************************************)
(* The lock's fields agree with the nesting: between calls the thread      *)
(* inside is the owner and its count is its depth, and a thread that is    *)
(* out does not keep the mutex (jlock.c:29: "no other thread should act on *)
(* jlock->acquiredCount").                                                 *)
(***************************************************************************)
FieldsAgree ==
    \A t \in Threads : pc[t] = "idle" =>
        IF depth[t] > 0 THEN owner = t /\ acquiredCount = depth[t]
                        ELSE owner # t /\ conditionMutex # t

\* The lock implements the monitor.
M == INSTANCE Monitor WITH Threads <- Threads, depth <- depth
MonitorSpec == M!Spec

Busy == {"owner", "count", "reenter", "decrement", "clear", "release"}

\* What a thread's program point says of the fields and the mutex.
PointsOK(t) ==
    /\ pc[t] \in {"mutex", "owner", "count", "clear", "release"} => depth[t] = 0
    /\ pc[t] \in {"reenter", "decrement"} => depth[t] > 0
    /\ pc[t] \in {"lock", "reenter", "mutex", "owner", "count"} => depth[t] < MaxDepth
    /\ (conditionMutex = t) <=> (depth[t] > 0 \/ pc[t] \in Busy)
    /\ (owner = t) <=> (depth[t] > 0 \/ pc[t] \in {"count", "clear"})
    /\ depth[t] > 0 => acquiredCount = depth[t]

(***************************************************************************)
(* The fields, the mutex and the program points determine each other: the  *)
(* unlocked reads of owner (jlock.c:16, 28) are as good as locked ones,    *)
(* because only the reading thread ever stores its own id there.           *)
(***************************************************************************)
IInv == TypeOK /\ \A t \in Threads : PointsOK(t)

(***************************************************************************)
(* Nobody waits for ever at the lock if everybody who is inside leaves     *)
(* again and again.                                                        *)
(***************************************************************************)
EntryProgress ==
    (\A t \in Threads : []<>(depth[t] = 0))
        => \A t \in Threads : pc[t] = "mutex" ~> pc[t] # "mutex"
=============================================================================
