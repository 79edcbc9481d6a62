------------------------------ MODULE ClassInit -------------------------------
(***************************************************************************)
(* The initialisation of classes: initializeClass and what it calls, by    *)
(* several threads at once (bytecode_interpreter.c).  A thread has a stack *)
(* of frames: at the bottom its own code, above it the calls of            *)
(* initializeClass in progress, in which the code of a <clinit> may run.   *)
(*                                                                         *)
(* The lock of a class is a re-entrant monitor (JLock implements Monitor). *)
(***************************************************************************)
EXTENDS Integers, Sequences, SequencesExt

CONSTANTS
    Threads,
    NoThread,       \* owner of a free class lock
    Classes,
    NoClass,        \* superClass == NULL; also the "class" of a thread's own code
    Super,          \* the superClass of each class
    WithClinit,     \* classes with a static initialiser
    WithStrings,    \* classes with a static field of a constant string
    ErrorClass,     \* java/lang/ExceptionInInitializerError
    Triggers,       \* classes the code of each initialiser may need initialised
    NoResult,       \* no call has just returned
    MaxFrames       \* bound: frames of a thread's stack

ASSUME ClassInitAssumption ==
    /\ NoThread \notin Threads
    /\ NoClass \notin Classes
    /\ ErrorClass \in Classes
    /\ Super \in [Classes -> Classes \cup {NoClass}]
    /\ WithClinit \subseteq Classes
    /\ WithStrings \subseteq Classes
    /\ Triggers \in [Classes \cup {NoClass} -> SUBSET Classes]
    /\ MaxFrames \in Nat

VARIABLES
    status,     \* of each class
    owner,      \* owner of its lock
    depth,      \* how often the owner has entered it
    stack,      \* the frames of each thread, the innermost last
    result,     \* what the call that just returned to the last frame says
    running     \* the process has not called exit(1)

vars == <<status, owner, depth, stack, result, running>>

LOADED == 1
INITIALIZING == 2
INITIALIZED == 3

Init ==
    /\ status = [c \in Classes |-> LOADED]
    /\ owner = [c \in Classes |-> NoThread]
    /\ depth = [c \in Classes |-> 0]
    /\ stack = [t \in Threads |-> <<[class |-> NoClass, at |-> "code"]>>]
    /\ result = [t \in Threads |-> NoResult]
    /\ running = TRUE

-----------------------------------------------------------------------------
(* Frames.                                                                 *)

Top(t) == Last(stack[t])

At(t, point) == running /\ Top(t).at = point

Goto(t, point) ==
    stack' = [stack EXCEPT ![t] = Front(@) \o <<[Top(t) EXCEPT !.at = point]>>]

\* The last frame goes to point and calls initializeClass(c).
CallThen(t, c, point) ==
    /\ Len(stack[t]) < MaxFrames
    /\ stack' = [stack EXCEPT ![t] =
                    Front(@) \o <<[Top(t) EXCEPT !.at = point],
                                  [class |-> c, at |-> "self"]>>]

Return(t, ok) ==
    /\ stack' = [stack EXCEPT ![t] = Front(@)]
    /\ result' = [result EXCEPT ![t] = [class |-> Top(t).class, ok |-> ok]]

Returned(t, ok) == result[t] # NoResult /\ result[t].ok = ok
Consume(t) == result' = [result EXCEPT ![t] = NoResult]

lockVars == <<owner, depth>>

\* Mutant: the lock is left twice.
UnlockTwice(c) ==
    /\ depth' = [depth EXCEPT ![c] = @ - 2]
    /\ owner' = [owner EXCEPT ![c] = IF depth[c] <= 2 THEN NoThread ELSE @]

Unlock(c) ==
    /\ depth' = [depth EXCEPT ![c] = @ - 1]
    /\ owner' = [owner EXCEPT ![c] = IF depth[c] = 1 THEN NoThread ELSE @]

-----------------------------------------------------------------------------
(* initializeClass                                                         *)

\* Mutant: in the middle of any initialisation the class counts as initialised.
CheckAnybody(t) ==
    /\ At(t, "self")
    /\ IF status[Top(t).class] = INITIALIZING
       THEN Return(t, TRUE)
       ELSE Goto(t, "busy") /\ UNCHANGED result
    /\ UNCHANGED <<status, lockVars, running>>

\* In the middle of the initialisation by this thread the class counts as
\* initialised.
CheckSelf(t) ==
    /\ At(t, "self")
    /\ LET c == Top(t).class
       IN  IF status[c] = INITIALIZING /\ owner[c] = t
           THEN Return(t, TRUE)
           ELSE Goto(t, "busy") /\ UNCHANGED result
    /\ UNCHANGED <<status, lockVars, running>>

\* The busy loop: it is left by a read of anything but INITIALIZING.
BusyWait(t) ==
    /\ At(t, "busy")
    /\ status[Top(t).class] # INITIALIZING
    /\ Goto(t, "recheck")
    /\ UNCHANGED <<status, lockVars, result, running>>

Recheck(t) ==
    /\ At(t, "recheck")
    /\ IF status[Top(t).class] = INITIALIZED
       THEN Return(t, TRUE)
       ELSE Goto(t, "lock") /\ UNCHANGED result
    /\ UNCHANGED <<status, lockVars, running>>

\* Mutant: the lock is taken without looking who has it.
LockAnyway(t) ==
    /\ At(t, "lock")
    /\ LET c == Top(t).class
       IN  /\ owner' = [owner EXCEPT ![c] = t]
           /\ depth' = [depth EXCEPT ![c] = @ + 1]
    /\ Goto(t, "locked")
    /\ UNCHANGED <<status, result, running>>

Lock(t) ==
    /\ At(t, "lock")
    /\ LET c == Top(t).class
       IN  /\ owner[c] \in {t, NoThread}
           /\ owner' = [owner EXCEPT ![c] = t]
           /\ depth' = [depth EXCEPT ![c] = @ + 1]
    /\ Goto(t, "locked")
    /\ UNCHANGED <<status, result, running>>

\* Mutant: no second look behind the lock.
BeginUnchecked(t) ==
    /\ At(t, "locked")
    /\ status' = [status EXCEPT ![Top(t).class] = INITIALIZING]
    /\ Goto(t, "super")
    /\ UNCHANGED <<lockVars, result, running>>

\* Behind the lock: somebody else was faster, or the initialisation begins.
Begin(t) ==
    /\ At(t, "locked")
    /\ LET c == Top(t).class
       IN  IF status[c] = INITIALIZED
           THEN Goto(t, "unlockTrue") /\ UNCHANGED status
           ELSE Goto(t, "super") /\ status' = [status EXCEPT ![c] = INITIALIZING]
    /\ UNCHANGED <<lockVars, result, running>>

\* Mutant: the superclass is left for later.
SkipSuper(t) ==
    /\ At(t, "super")
    /\ Goto(t, "constants")
    /\ UNCHANGED <<status, lockVars, result, running>>

CallSuper(t) ==
    /\ At(t, "super")
    /\ LET s == Super[Top(t).class]
       IN  IF s = NoClass THEN Goto(t, "constants") ELSE CallThen(t, s, "superCall")
    /\ UNCHANGED <<status, lockVars, result, running>>

\* The class stays as it was when its superclass cannot be initialised.
SuperReturned(t) ==
    /\ At(t, "superCall")
    /\ \/ /\ Returned(t, TRUE)
          /\ Goto(t, "constants")
          /\ UNCHANGED status
       \/ /\ Returned(t, FALSE)
          /\ Goto(t, "unlockFalse")
          /\ status' = [status EXCEPT ![Top(t).class] = LOADED]
    /\ Consume(t)
    /\ UNCHANGED <<lockVars, running>>

\* Static fields get their constant values; without a <clinit> that is all.
Constants(t) ==
    /\ At(t, "constants")
    /\ LET c == Top(t).class
       IN  IF c \in WithClinit
           THEN Goto(t, "code") /\ UNCHANGED status
           ELSE /\ Goto(t, "unlockTrue")
                /\ status' = [status EXCEPT ![c] = INITIALIZED]
    /\ UNCHANGED <<lockVars, result, running>>

\* A string cannot be created: the class is given up before the exception is
\* created, which needs a class to be initialised in turn.
StringFails(t) ==
    /\ At(t, "constants")
    /\ Top(t).class \in WithStrings
    /\ CallThen(t, ErrorClass, "throwConstant")
    /\ status' = [status EXCEPT ![Top(t).class] = LOADED]
    /\ UNCHANGED <<lockVars, result, running>>

\* run(clinit) returned 0.
ClinitReturns(t) ==
    /\ At(t, "code")
    /\ Top(t).class # NoClass
    /\ result[t] = NoResult
    /\ status' = [status EXCEPT ![Top(t).class] = INITIALIZED]
    /\ Goto(t, "unlockTrue")
    /\ UNCHANGED <<lockVars, result, running>>

\* Mutant: the class stays in the state it was in.
ClinitThrowsKeepsStatus(t) ==
    /\ At(t, "code")
    /\ Top(t).class # NoClass
    /\ result[t] = NoResult
    /\ Goto(t, "unlockFalse")
    /\ UNCHANGED <<status, lockVars, result, running>>

\* run(clinit) returned 1.
ClinitThrows(t) ==
    /\ At(t, "code")
    /\ Top(t).class # NoClass
    /\ result[t] = NoResult
    /\ status' = [status EXCEPT ![Top(t).class] = LOADED]
    /\ Goto(t, "unlockFalse")
    /\ UNCHANGED <<lockVars, result, running>>

Leave(t) ==
    /\ \/ At(t, "unlockTrue") /\ Return(t, TRUE)
       \/ At(t, "unlockFalse") /\ Return(t, FALSE)
    /\ Unlock(Top(t).class)
    /\ UNCHANGED <<status, running>>

-----------------------------------------------------------------------------
(* Bytecode, of a thread's own or of an initialiser, and throwException.   *)

\* new, newarray, a field or a string constant needs an initialised class.
Trigger(t) ==
    /\ At(t, "code")
    /\ result[t] = NoResult
    /\ \E c \in Triggers[Top(t).class] : CallThen(t, c, "code")
    /\ UNCHANGED <<status, lockVars, result, running>>

TriggerReturned(t) ==
    /\ At(t, "code")
    /\ \/ Returned(t, TRUE) /\ UNCHANGED stack
       \/ Returned(t, FALSE) /\ CallThen(t, ErrorClass, "throw")
    /\ Consume(t)
    /\ UNCHANGED <<status, lockVars, running>>

\* throwException: without the exception's class, or an instance of it, the
\* process exits.
Thrown(t) ==
    /\ \/ /\ At(t, "throw")
          /\ Returned(t, TRUE)
          /\ Goto(t, "code")
          /\ running' = TRUE
       \/ /\ At(t, "throwConstant")
          /\ Returned(t, TRUE)
          /\ Goto(t, "unlockFalse")
          /\ running' = TRUE
       \/ /\ At(t, "throw") \/ At(t, "throwConstant")
          /\ result[t] # NoResult
          /\ running' = FALSE
          /\ UNCHANGED stack
    /\ Consume(t)
    /\ UNCHANGED <<status, lockVars>>

-----------------------------------------------------------------------------
InitializeClass(t) ==
    \/ CheckSelf(t) \/ BusyWait(t) \/ Recheck(t) \/ Lock(t) \/ Begin(t)
    \/ CallSuper(t) \/ SuperReturned(t) \/ Constants(t) \/ StringFails(t)
    \/ ClinitReturns(t) \/ ClinitThrows(t) \/ Leave(t)

Bytecode(t) == Trigger(t) \/ TriggerReturned(t) \/ Thrown(t)

Next == \E t \in Threads : InitializeClass(t) \/ Bytecode(t)

Spec == Init /\ [][Next]_vars

\* A thread goes on; a class whose state or lock lets a thread pass again and
\* again lets it pass; and initialisers are programs that end.
Fairness ==
    \A t \in Threads :
        /\ WF_vars((InitializeClass(t) \/ Bytecode(t)) /\ Len(stack[t]) > 1)
        /\ WF_vars(TriggerReturned(t) \/ Thrown(t))
        /\ SF_vars(BusyWait(t))
        /\ SF_vars(Lock(t))
        /\ \A c \in WithClinit :
              SF_vars(Top(t).class = c /\ (ClinitReturns(t) \/ ClinitThrows(t)))

FairSpec == Spec /\ Fairness

-----------------------------------------------------------------------------
Points == {"self", "busy", "recheck", "lock", "locked", "super", "superCall",
           "constants", "throwConstant", "code", "throw", "unlockTrue",
           "unlockFalse"}

TypeOK ==
    /\ status \in [Classes -> {LOADED, INITIALIZING, INITIALIZED}]
    /\ owner \in [Classes -> Threads \cup {NoThread}]
    /\ depth \in [Classes -> Nat]
    /\ stack \in [Threads -> Seq([class : Classes \cup {NoClass}, at : Points])]
    /\ \A t \in Threads : stack[t] # <<>>
    /\ result \in [Threads -> {NoResult} \cup [class : Classes, ok : BOOLEAN]]
    /\ running \in BOOLEAN

Frames(t) == {stack[t][i] : i \in 1 .. Len(stack[t])}

\* The frames of t that work on class c behind its lock.
Working(t, c) ==
    \E f \in Frames(t) : f.class = c /\ f.at \in {"super", "superCall", "constants", "code", "throw"}

\* A frame in which bytecode runs, or an exception of it is being created.
InCode(f) == f.at \in {"code", "throw"}

(***************************************************************************)
(* A class is being initialised as long as, and only as long as, the       *)
(* thread that owns its lock is at it: nobody waits in the busy loop       *)
(* (line 109) for a thread that has left, and the test for "this thread"   *)
(* (line 105), made without the lock, is right.                            *)
(***************************************************************************)
InitializingIsOwned ==
    \A c \in Classes : \A t \in Threads :
        Working(t, c) <=> status[c] = INITIALIZING /\ owner[c] = t

(***************************************************************************)
(* The static initialiser of a class runs in one frame of one thread at a  *)
(* time, whoever reads its status when (lines 105, 109, 110, 114).         *)
(***************************************************************************)
ClinitExclusive ==
    \A c \in WithClinit : \A t, u \in Threads :
        \A i \in 1 .. Len(stack[t]), j \in 1 .. Len(stack[u]) :
            /\ stack[t][i].class = c /\ InCode(stack[t][i])
            /\ stack[u][j].class = c /\ InCode(stack[u][j])
            => t = u /\ i = j

(***************************************************************************)
(* While the initialiser of a class runs, its superclass is initialised,   *)
(* or this very thread is at it further down its stack (line 121).         *)
(***************************************************************************)
SuperFirst ==
    \A t \in Threads : \A f \in Frames(t) :
        (f.class # NoClass /\ InCode(f) /\ Super[f.class] # NoClass) =>
            LET s == Super[f.class]
            IN  status[s] = INITIALIZED \/ (status[s] = INITIALIZING /\ owner[s] = t)

(***************************************************************************)
(* When initializeClass returns true the class can be used: it is          *)
(* initialised, or this thread is initialising it, and both last until     *)
(* the caller goes on.                                                     *)
(***************************************************************************)
TrueMeansUsable ==
    \A t \in Threads :
        (result[t] # NoResult /\ result[t].ok) =>
            LET c == result[t].class
            IN  status[c] = INITIALIZED \/ (status[c] = INITIALIZING /\ owner[c] = t)

\* An initialised class is never initialised again or given up (line 114).
InitializedIsFinal ==
    [][\A c \in Classes : status[c] = INITIALIZED => status'[c] = INITIALIZED]_vars

\* t is kept in initializeClass by u, which is at the class or holds its lock.
WaitsFor(t, u) ==
    LET c == Top(t).class
    IN  /\ t # u
        /\ \/ Top(t).at = "busy" /\ status[c] = INITIALIZING
           \/ Top(t).at = "lock"
        /\ owner[c] = u

\* Threads whose initialisers need each other's classes.
Circle == \E W \in SUBSET Threads \ {{}} : \A t \in W : \E u \in W : WaitsFor(t, u)

(***************************************************************************)
(* Every initializeClass returns, whichever threads run it at the same     *)
(* time and however often it fails, unless threads wait for each other in  *)
(* a circle, as those of any JVM may when initialisers need each other.    *)
(* There is no other way to get stuck: not in the busy loop (line 109) and *)
(* not at a lock (line 112).                                               *)
(***************************************************************************)
CallsReturn ==
    \A t \in Threads : Len(stack[t]) > 1 ~> (Len(stack[t]) = 1 \/ Circle \/ ~running)
=============================================================================
