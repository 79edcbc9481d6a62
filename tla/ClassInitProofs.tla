--------------------------- MODULE ClassInitProofs ---------------------------
(***************************************************************************)
(* Theorems about ClassInit, for every number of threads and every         *)
(* hierarchy of classes; and, at the end, about ClassInitGC: it is a       *)
(* behaviour of ClassInit and one of Safepoint at once, so what is proved  *)
(* of each of them holds of both together, and a stopped world includes    *)
(* the states of the classes.                                              *)
(***************************************************************************)
EXTENDS ClassInitGC, FiniteSetTheorems, SequenceTheorems, TLAPS

\* Points of a frame behind the lock of its class, those at which it is working
\* on the class, and those at which another frame may lie above it.
LockedPoints == {"locked", "super", "superCall", "constants", "throwConstant",
                 "code", "throw", "unlockTrue", "unlockFalse"}
WorkPoints == {"super", "superCall", "constants", "code", "throw"}
CallPoints == {"superCall", "throwConstant", "code", "throw"}

\* A thread's own code is at the bottom, and nothing but code.
BottomOK ==
    \A t \in Threads : \A i \in DOMAIN stack[t] :
        /\ i < Len(stack[t]) => stack[t][i].at \in CallPoints
        /\ i = 1 <=> stack[t][i].class = NoClass
        /\ i = 1 => stack[t][i].at \in {"code", "throw"}

\* A call returns to a frame that waits for it.
ResultOK == \A t \in Threads : result[t] # NoResult => Top(t).at \in CallPoints

\* The frames of t behind the lock of c: as many as it has entered the lock.
Inside(t, c) == {i \in DOMAIN stack[t] : stack[t][i].class = c /\ stack[t][i].at \in LockedPoints}
LockOK ==
    \A c \in Classes :
        /\ owner[c] = NoThread => depth[c] = 0
        /\ \A t \in Threads : /\ IsFiniteSet(Inside(t, c))
                              /\ Cardinality(Inside(t, c)) = IF owner[c] = t THEN depth[c] ELSE 0

\* A thread that has passed the first test is not at the class further down.
Fresh ==
    \A t \in Threads : \A i, j \in DOMAIN stack[t] :
        (j < i /\ stack[t][i].at # "self" /\ stack[t][j].at \in WorkPoints)
            => stack[t][i].class # stack[t][j].class

\* A class that is being initialised is locked.
InitializingIsLocked == \A c \in Classes : status[c] = INITIALIZING => owner[c] # NoThread

IInv == /\ TypeOK /\ BottomOK /\ ResultOK /\ LockOK /\ Fresh
        /\ InitializingIsOwned /\ InitializingIsLocked

-----------------------------------------------------------------------------
(* Stacks.                                                                 *)

Frame == [class : Classes \cup {NoClass}, at : Points]
Results == [class : Classes, ok : BOOLEAN]

LEMMA FrontOf ==
    ASSUME NEW X, NEW s \in Seq(X), s # <<>>
    PROVE  /\ Front(s) \in Seq(X) /\ Len(s) \in Nat \ {0} /\ Len(Front(s)) = Len(s) - 1
           /\ \A i \in 1 .. Len(s) - 1 : Front(s)[i] = s[i]
           /\ Last(s) = s[Len(s)] /\ Last(s) \in X
<1>1. Len(s) \in Nat \ {0} /\ \A i \in 1 .. Len(s) - 1 : s[i] \in X
  BY EmptySeq, ElementOfSeq
<1>2. /\ SubSeq(s, 1, Len(s) - 1) \in Seq(X)
      /\ Len(SubSeq(s, 1, Len(s) - 1)) = IF 1 <= Len(s) - 1 THEN (Len(s) - 1) - 1 + 1 ELSE 0
      /\ \A i \in 1 .. (Len(s) - 1) - 1 + 1 : SubSeq(s, 1, Len(s) - 1)[i] = s[1 + i - 1]
  <2>1. 1 \in Int /\ Len(s) - 1 \in Int
    BY <1>1
  <2> QED
    BY <1>1, <2>1, SubSeqProperties
<1>3. Last(s) = s[Len(s)] /\ s[Len(s)] \in X
  BY <1>1, ElementOfSeq DEF Last
<1>4. /\ Front(s) \in Seq(X) /\ Len(Front(s)) = IF 1 <= Len(s) - 1 THEN (Len(s) - 1) - 1 + 1 ELSE 0
      /\ \A i \in 1 .. (Len(s) - 1) - 1 + 1 : Front(s)[i] = s[1 + i - 1]
  BY <1>2 DEF Front
<1>5. \A i \in 1 .. Len(s) - 1 : i \in 1 .. (Len(s) - 1) - 1 + 1 /\ 1 + i - 1 = i
  BY <1>1
<1>6. \A i \in 1 .. Len(s) - 1 : Front(s)[i] = s[i]
  BY <1>4, <1>5
<1>7. Len(Front(s)) = Len(s) - 1
  <2>1. \A n \in Nat \ {0} : (IF 1 <= n - 1 THEN (n - 1) - 1 + 1 ELSE 0) = n - 1
    OBVIOUS
  <2> QED
    BY <1>1, <1>4, <2>1
<1>8. Front(s) \in Seq(X)
  BY <1>4
<1> QED
  BY <1>1, <1>3, <1>6, <1>7, <1>8, Zenon

LEMMA StackOf ==
    ASSUME TypeOK, NEW t \in Threads
    PROVE  /\ stack[t] \in Seq(Frame) /\ stack[t] # <<>>
           /\ Len(stack[t]) \in Nat \ {0} /\ DOMAIN stack[t] = 1 .. Len(stack[t])
           /\ Top(t) = stack[t][Len(stack[t])] /\ Top(t) \in Frame
<1>1. stack[t] \in Seq(Frame) /\ stack[t] # <<>>
  BY DEF TypeOK, Frame
<1> QED
  BY <1>1, FrontOf, LenProperties DEF Top

\* The last frame of t goes to point, and may call initializeClass from there.
MovesTo(t, point) ==
    LET n == Len(stack[t])
    IN  /\ stack' \in [Threads -> Seq(Frame)]
        /\ \A u \in Threads \ {t} : stack'[u] = stack[u]
        /\ \A i \in 1 .. n - 1 : stack'[t][i] = stack[t][i]
        /\ stack'[t][n].class = Top(t).class /\ stack'[t][n].at = point
        /\ \/ Len(stack'[t]) = n
           \/ /\ Len(stack'[t]) = n + 1 /\ point \in CallPoints
              /\ stack'[t][n + 1].class \in Classes /\ stack'[t][n + 1].at = "self"

LEMMA GotoMoves ==
    ASSUME TypeOK, NEW t \in Threads, NEW point \in Points, Goto(t, point)
    PROVE  MovesTo(t, point)
<1> DEFINE s == stack[t]
           f == [Top(t) EXCEPT !.at = point]
<1>1. s \in Seq(Frame) /\ s # <<>>
  BY DEF TypeOK, Frame
<1>2. Top(t) \in Frame /\ f \in Frame /\ f.class = Top(t).class /\ f.at = point
  <2>1. Top(t) \in Frame
    BY StackOf
  <2> QED
    BY <2>1 DEF Frame
<1>3. stack' = [stack EXCEPT ![t] = Front(s) \o <<f>>]
  BY DEF Goto
<1> HIDE DEF f
<1>4. /\ Front(s) \in Seq(Frame) /\ Len(s) \in Nat \ {0} /\ Len(Front(s)) = Len(s) - 1
      /\ \A i \in 1 .. Len(s) - 1 : Front(s)[i] = s[i]
  BY <1>1, FrontOf
<1> HIDE DEF s
<1>5. /\ Front(s) \o <<f>> \in Seq(Frame) /\ Len(Front(s) \o <<f>>) = Len(s)
      /\ (Front(s) \o <<f>>)[Len(s)] = f
      /\ \A i \in 1 .. Len(s) - 1 : (Front(s) \o <<f>>)[i] = s[i]
  BY <1>2, <1>4
<1> QED
  BY <1>2, <1>3, <1>5 DEF MovesTo, TypeOK, s, Frame

LEMMA CallMoves ==
    ASSUME TypeOK, NEW t \in Threads, NEW point \in CallPoints, NEW c \in Classes, CallThen(t, c, point)
    PROVE  MovesTo(t, point)
<1> DEFINE s == stack[t]
           f == [Top(t) EXCEPT !.at = point]
           g == [class |-> c, at |-> "self"]
<1>1. s \in Seq(Frame) /\ s # <<>>
  BY DEF TypeOK, Frame
<1>2. Top(t) \in Frame /\ f \in Frame /\ f.class = Top(t).class /\ f.at = point
  <2>1. Top(t) \in Frame /\ point \in Points
    BY StackOf DEF CallPoints, Points
  <2> QED
    BY <2>1 DEF Frame
<1>3. g \in Frame /\ g.class = c /\ g.at = "self"
  BY DEF Frame, Points
<1>4. stack' = [stack EXCEPT ![t] = Front(s) \o <<f, g>>]
  BY DEF CallThen
<1> HIDE DEF f, g
<1>5. /\ Front(s) \in Seq(Frame) /\ Len(s) \in Nat \ {0} /\ Len(Front(s)) = Len(s) - 1
      /\ \A i \in 1 .. Len(s) - 1 : Front(s)[i] = s[i]
  BY <1>1, FrontOf
<1> HIDE DEF s
<1>6. /\ Front(s) \o <<f, g>> \in Seq(Frame) /\ Len(Front(s) \o <<f, g>>) = Len(s) + 1
      /\ (Front(s) \o <<f, g>>)[Len(s)] = f /\ (Front(s) \o <<f, g>>)[Len(s) + 1] = g
      /\ \A i \in 1 .. Len(s) - 1 : (Front(s) \o <<f, g>>)[i] = s[i]
  BY <1>2, <1>3, <1>5
<1> QED
  BY <1>2, <1>3, <1>4, <1>6 DEF MovesTo, TypeOK, s, Frame

LEMMA StayMoves ==
    ASSUME TypeOK, NEW t \in Threads, UNCHANGED stack
    PROVE  MovesTo(t, Top(t).at)
BY DEF TypeOK, MovesTo, Top, Last, Frame

-----------------------------------------------------------------------------
(* What a move changes.                                                    *)

\* The last frame of t is past the first test, or about to pass it, and no
\* other frame of t works on its class.
Past(t) == \A j \in 1 .. Len(stack[t]) - 1 :
               stack[t][j].at \in WorkPoints => stack[t][j].class # Top(t).class

LEMMA FreshIsPast ==
    ASSUME TypeOK, Fresh, NEW t \in Threads, Top(t).at # "self"
    PROVE  Past(t)
<1>1. /\ Len(stack[t]) \in Nat \ {0} /\ DOMAIN stack[t] = 1 .. Len(stack[t])
      /\ Top(t) = stack[t][Len(stack[t])]
  BY StackOf
<1> QED
  BY <1>1 DEF Fresh, Past

\* A step of t that is not a return.
Step(t, point) ==
    /\ MovesTo(t, point) /\ Past(t)
    /\ point \in Points \ {"self"}
    /\ Top(t).class = NoClass => point \in {"code", "throw"}
    /\ result' \in [Threads -> {NoResult} \cup Results]
    /\ \A u \in Threads \ {t} : result'[u] = result[u]
    /\ result'[t] = NoResult
    /\ running' \in BOOLEAN

LEMMA StepFrames ==
    ASSUME IInv, NEW t \in Threads, NEW point, Step(t, point)
    PROVE  /\ BottomOK' /\ Fresh' /\ ResultOK'
           /\ \A u \in Threads : stack'[u] # <<>>
<1>1. TypeOK /\ BottomOK /\ Fresh /\ ResultOK
  BY DEF IInv
<1> DEFINE n == Len(stack[t])
<1>2. /\ n \in Nat \ {0} /\ stack[t] \in Seq(Frame) /\ Top(t) = stack[t][n]
      /\ stack'[t] \in Seq(Frame)
      /\ DOMAIN stack[t] = 1 .. n /\ DOMAIN stack'[t] = 1 .. Len(stack'[t])
  <2>1. stack'[t] \in Seq(Frame)
    BY DEF Step, MovesTo
  <2> QED
    BY <1>1, <2>1, StackOf, LenProperties
<1>3. /\ \A u \in Threads \ {t} : stack'[u] = stack[u]
      /\ \A i \in 1 .. n - 1 : stack'[t][i] = stack[t][i]
      /\ stack'[t][n].class = stack[t][n].class /\ stack'[t][n].at = point
      /\ \/ Len(stack'[t]) = n
         \/ /\ Len(stack'[t]) = n + 1 /\ point \in CallPoints
            /\ stack'[t][n + 1].class \in Classes /\ stack'[t][n + 1].at = "self"
  BY <1>2 DEF Step, MovesTo
<1> HIDE DEF n
<1>4. BottomOK'
  <2>1. ASSUME NEW i \in DOMAIN stack'[t]
        PROVE  /\ i < Len(stack'[t]) => stack'[t][i].at \in CallPoints
               /\ i = 1 <=> stack'[t][i].class = NoClass
               /\ i = 1 => stack'[t][i].at \in {"code", "throw"}
    <3>1. CASE i < n
      BY <1>1, <1>2, <1>3, <3>1 DEF BottomOK, n
    <3>2. CASE i = n
      <4>1. n = 1 <=> stack[t][n].class = NoClass
        BY <1>1, <1>2 DEF BottomOK
      <4> QED
        BY <1>2, <1>3, <3>2, <4>1 DEF Step
    <3>3. CASE i = n + 1
      BY <1>2, <1>3, <3>3, ClassInitAssumption
    <3> QED
      BY <1>2, <1>3, <3>1, <3>2, <3>3
  <2> QED
    BY <1>1, <1>3, <2>1 DEF BottomOK
<1>5. Fresh'
  <2>1. ASSUME NEW i \in DOMAIN stack'[t], NEW j \in DOMAIN stack'[t],
               j < i, stack'[t][i].at # "self", stack'[t][j].at \in WorkPoints
        PROVE  stack'[t][i].class # stack'[t][j].class
    <3>1. i <= n /\ j \in 1 .. n - 1
      BY <1>2, <1>3, <2>1
    <3>2. CASE i < n
      BY <1>1, <1>2, <1>3, <2>1, <3>1, <3>2 DEF Fresh
    <3>3. CASE i = n
      BY <1>2, <1>3, <2>1, <3>1, <3>3 DEF Step, Past, n
    <3> QED
      BY <1>2, <3>1, <3>2, <3>3
  <2> QED
    BY <1>1, <1>3, <2>1 DEF Fresh
<1>6. ResultOK'
  BY <1>1, <1>3 DEF ResultOK, Step, Top
<1>7. \A u \in Threads : stack'[u] # <<>>
  BY <1>1, <1>2, <1>3 DEF TypeOK
<1> QED
  BY <1>4, <1>5, <1>6, <1>7

\* What a step means for the lock and the work of t at class c, and at others.
StepEffect(t, point) ==
    \A u \in Threads, d \in Classes :
        /\ (u # t \/ d # Top(t).class) =>
              Inside(u, d)' = Inside(u, d) /\ (Working(u, d)' <=> Working(u, d))
        /\ (u = t /\ d = Top(t).class) =>
              /\ Inside(t, d)' = IF point \in LockedPoints THEN Inside(t, d) \cup {Len(stack[t])}
                                                           ELSE Inside(t, d) \ {Len(stack[t])}
              /\ Len(stack[t]) \in Inside(t, d) <=> Top(t).at \in LockedPoints
              /\ Working(t, d)' <=> point \in WorkPoints
              /\ Working(t, d) <=> Top(t).at \in WorkPoints

LEMMA StepAffects ==
    ASSUME IInv, NEW t \in Threads, NEW point, Step(t, point)
    PROVE  StepEffect(t, point)
<1>1. TypeOK
  BY DEF IInv
<1> DEFINE n == Len(stack[t])
           c == Top(t).class
<1>2. /\ n \in Nat \ {0} /\ stack[t] \in Seq(Frame) /\ Top(t) = stack[t][n]
      /\ stack'[t] \in Seq(Frame)
      /\ DOMAIN stack[t] = 1 .. n /\ DOMAIN stack'[t] = 1 .. Len(stack'[t])
  <2>1. stack'[t] \in Seq(Frame)
    BY DEF Step, MovesTo
  <2> QED
    BY <1>1, <2>1, StackOf, LenProperties
<1>3. /\ \A u \in Threads \ {t} : stack'[u] = stack[u]
      /\ \A i \in 1 .. n - 1 : stack'[t][i] = stack[t][i]
      /\ stack'[t][n].class = c /\ stack'[t][n].at = point
      /\ \/ Len(stack'[t]) = n
         \/ Len(stack'[t]) = n + 1 /\ stack'[t][n + 1].at = "self"
      /\ \A j \in 1 .. n - 1 : stack[t][j].at \in WorkPoints => stack[t][j].class # c
  BY <1>2 DEF Step, MovesTo, Past
<1>4. stack[t][n].class = c /\ stack[t][n].at = Top(t).at
  BY <1>2
<1> HIDE DEF n, c
<1>5. ASSUME NEW u \in Threads \ {t}, NEW d \in Classes
      PROVE  Inside(u, d)' = Inside(u, d) /\ (Working(u, d)' <=> Working(u, d))
  BY <1>3 DEF Inside, Working, Frames
<1>6. ASSUME NEW d \in Classes, NEW i \in 1 .. n - 1
      PROVE  i \in Inside(t, d)' <=> i \in Inside(t, d)
  BY <1>2, <1>3 DEF Inside
<1>7. "self" \notin LockedPoints /\ "self" \notin WorkPoints
  BY DEF LockedPoints, WorkPoints
<1>8. ASSUME NEW d \in Classes
      PROVE  /\ n \in Inside(t, d)' <=> d = c /\ point \in LockedPoints
             /\ n \in Inside(t, d) <=> d = c /\ Top(t).at \in LockedPoints
             /\ Inside(t, d)' \subseteq 1 .. n /\ Inside(t, d) \subseteq 1 .. n
  BY <1>2, <1>3, <1>4, <1>7 DEF Inside
<1>9. ASSUME NEW d \in Classes, d # c PROVE Inside(t, d)' = Inside(t, d)
  <2>1. n \notin Inside(t, d)' /\ n \notin Inside(t, d)
    BY <1>8, <1>9
  <2>2. \A i \in 1 .. n : i = n \/ i \in 1 .. n - 1
    BY <1>2
  <2> QED
    BY <1>6, <1>8, <2>1, <2>2
<1>10. ASSUME NEW d \in Classes, d = c
       PROVE  Inside(t, d)' = IF point \in LockedPoints THEN Inside(t, d) \cup {n}
                                                        ELSE Inside(t, d) \ {n}
  <2>1. \A i \in 1 .. n : i = n \/ i \in 1 .. n - 1
    BY <1>2
  <2>2. n \notin 1 .. n - 1 /\ n \in 1 .. n
    BY <1>2
  <2> QED
    BY <1>6, <1>8, <1>10, <2>1, <2>2
<1>11. ASSUME NEW d \in Classes, d # c PROVE Working(t, d)' <=> Working(t, d)
  <2>1. ASSUME Working(t, d)' PROVE Working(t, d)
    <3>1. PICK i \in 1 .. Len(stack'[t]) : stack'[t][i].class = d /\ stack'[t][i].at \in WorkPoints
      BY <2>1 DEF Working, Frames, WorkPoints
    <3>2. i \in 1 .. n - 1
      BY <1>2, <1>3, <1>7, <1>11, <3>1
    <3> QED
      BY <1>2, <1>3, <3>1, <3>2 DEF Working, Frames, WorkPoints
  <2>2. ASSUME Working(t, d) PROVE Working(t, d)'
    <3>1. PICK i \in 1 .. n : stack[t][i].class = d /\ stack[t][i].at \in WorkPoints
      BY <2>2 DEF Working, Frames, WorkPoints, n
    <3>2. i \in 1 .. n - 1
      BY <1>2, <1>4, <1>11, <3>1
    <3>3. i \in 1 .. Len(stack'[t])
      BY <1>2, <1>3, <3>2
    <3> QED
      BY <1>3, <3>1, <3>2, <3>3 DEF Working, Frames, WorkPoints
  <2> QED
    BY <2>1, <2>2
<1>12. ASSUME NEW d \in Classes, d = c PROVE Working(t, d)' <=> point \in WorkPoints
  <2>1. ASSUME Working(t, d)' PROVE point \in WorkPoints
    <3>1. PICK i \in 1 .. Len(stack'[t]) : stack'[t][i].class = d /\ stack'[t][i].at \in WorkPoints
      BY <2>1 DEF Working, Frames, WorkPoints
    <3>2. i \in 1 .. n - 1 \/ i = n
      BY <1>2, <1>3, <1>7, <3>1
    <3> QED
      BY <1>3, <1>12, <3>1, <3>2
  <2>2. ASSUME point \in WorkPoints PROVE Working(t, d)'
    <3>1. n \in 1 .. Len(stack'[t])
      BY <1>2, <1>3
    <3> QED
      BY <1>3, <1>12, <2>2, <3>1 DEF Working, Frames, WorkPoints
  <2> QED
    BY <2>1, <2>2
<1>13. ASSUME NEW d \in Classes, d = c PROVE Working(t, d) <=> Top(t).at \in WorkPoints
  <2>1. ASSUME Working(t, d) PROVE Top(t).at \in WorkPoints
    <3>1. PICK i \in 1 .. n : stack[t][i].class = d /\ stack[t][i].at \in WorkPoints
      BY <2>1 DEF Working, Frames, WorkPoints, n
    <3>2. i \in 1 .. n - 1 \/ i = n
      BY <1>2
    <3> QED
      BY <1>3, <1>4, <1>13, <3>1, <3>2
  <2>2. ASSUME Top(t).at \in WorkPoints PROVE Working(t, d)
    <3>1. n \in 1 .. n
      BY <1>2
    <3> QED
      BY <1>4, <1>13, <2>2, <3>1 DEF Working, Frames, WorkPoints, n
  <2> QED
    BY <2>1, <2>2
<1> QED
  BY <1>5, <1>8, <1>9, <1>10, <1>11, <1>12, <1>13 DEF StepEffect, n, c

-----------------------------------------------------------------------------
(* The steps by what they do to lock and status of the class of the frame. *)

LEMMA StepInv ==
    ASSUME IInv, NEW t \in Threads, NEW point, Step(t, point),
           status' \in [Classes -> {LOADED, INITIALIZING, INITIALIZED}],
           owner' \in [Classes -> Threads \cup {NoThread}],
           depth' \in [Classes -> Nat],
           LockOK', InitializingIsOwned', InitializingIsLocked'
    PROVE  IInv'
<1>1. BottomOK' /\ Fresh' /\ ResultOK' /\ \A u \in Threads : stack'[u] # <<>>
  BY StepFrames
<1>2. /\ stack' \in [Threads -> Seq(Frame)]
      /\ result' \in [Threads -> {NoResult} \cup Results] /\ running' \in BOOLEAN
  BY DEF Step, MovesTo
<1>3. TypeOK'
  BY <1>1, <1>2 DEF TypeOK, Frame, Results
<1> QED
  BY <1>1, <1>3 DEF IInv

\* Neither: the class of the frame is as before.
LEMMA StepKeeps ==
    ASSUME IInv, NEW t \in Threads, NEW point, Step(t, point),
           UNCHANGED <<status, lockVars>>,
           Top(t).class \in Classes => /\ point \in LockedPoints <=> Top(t).at \in LockedPoints
                                       /\ point \in WorkPoints <=> Top(t).at \in WorkPoints
    PROVE  IInv'
<1>1. StepEffect(t, point)
  BY StepAffects
<1>2. status' = status /\ owner' = owner /\ depth' = depth
  BY DEF lockVars
<1>3. ASSUME NEW u \in Threads, NEW d \in Classes
      PROVE  Inside(u, d)' = Inside(u, d) /\ (Working(u, d)' <=> Working(u, d))
  BY <1>1 DEF StepEffect
<1>4. LockOK' /\ InitializingIsOwned' /\ InitializingIsLocked'
  BY <1>2, <1>3 DEF IInv, LockOK, InitializingIsOwned, InitializingIsLocked
<1> QED
  BY <1>2, <1>4, StepInv DEF IInv, TypeOK

\* The work on the class ends, well or not, behind the lock.
LEMMA StepEnds ==
    ASSUME IInv, NEW t \in Threads, NEW point, Step(t, point),
           Top(t).class \in Classes, Top(t).at \in WorkPoints, point \in LockedPoints \ WorkPoints,
           NEW new \in {LOADED, INITIALIZED}, status' = [status EXCEPT ![Top(t).class] = new],
           UNCHANGED lockVars
    PROVE  IInv'
<1> DEFINE c == Top(t).class
<1>1. StepEffect(t, point)
  BY StepAffects
<1>2. owner' = owner /\ depth' = depth
  BY DEF lockVars
<1>3. /\ status' \in [Classes -> {LOADED, INITIALIZING, INITIALIZED}]
      /\ status'[c] # INITIALIZING
      /\ \A d \in Classes \ {c} : status'[d] = status[d]
  BY DEF IInv, TypeOK, LOADED, INITIALIZING, INITIALIZED
<1>4. WorkPoints \subseteq LockedPoints
  BY DEF WorkPoints, LockedPoints
<1>5. ASSUME NEW u \in Threads, NEW d \in Classes PROVE Inside(u, d)' = Inside(u, d)
  BY <1>1, <1>4 DEF StepEffect
<1>6. owner[c] = t
  BY <1>1 DEF StepEffect, IInv, InitializingIsOwned
<1>7. ASSUME NEW u \in Threads PROVE \A d \in Classes : d = c => ~Working(u, d)'
  BY <1>1, <1>6 DEF StepEffect, IInv, InitializingIsOwned
<1>8. ASSUME NEW u \in Threads, NEW d \in Classes \ {c} PROVE Working(u, d)' <=> Working(u, d)
  BY <1>1 DEF StepEffect
<1> HIDE DEF c
<1>9. InitializingIsOwned'
  <2>1. ASSUME NEW d \in Classes, NEW u \in Threads
        PROVE  Working(u, d)' <=> status'[d] = INITIALIZING /\ owner'[d] = u
    <3>1. CASE d = c
      BY <1>3, <1>7, <3>1
    <3>2. CASE d # c
      BY <1>2, <1>3, <1>8, <3>2 DEF IInv, InitializingIsOwned
    <3> QED
      BY <3>1, <3>2
  <2> QED
    BY <2>1 DEF InitializingIsOwned
<1>10. LockOK' /\ InitializingIsLocked'
  BY <1>2, <1>3, <1>5 DEF IInv, LockOK, InitializingIsLocked
<1> QED
  BY <1>2, <1>3, <1>9, <1>10, StepInv DEF IInv, TypeOK

\* The lock is taken, once more or by a new owner.
LEMMA StepLocks ==
    ASSUME IInv, NEW t \in Threads, Step(t, "locked"), Lock(t), Top(t).class \in Classes
    PROVE  IInv'
<1> DEFINE c == Top(t).class
           n == Len(stack[t])
<1>1. StepEffect(t, "locked")
  BY StepAffects
<1>2. /\ Top(t).at = "lock" /\ owner[c] \in {t, NoThread} /\ status' = status
      /\ owner' = [owner EXCEPT ![c] = t] /\ depth' = [depth EXCEPT ![c] = depth[c] + 1]
  BY DEF Lock, At
<1>3. /\ owner \in [Classes -> Threads \cup {NoThread}] /\ depth \in [Classes -> Nat]
      /\ status \in [Classes -> {LOADED, INITIALIZING, INITIALIZED}] /\ NoThread \notin Threads
  BY ClassInitAssumption DEF IInv, TypeOK
<1>4. /\ owner'[c] = t /\ depth'[c] = depth[c] + 1
      /\ owner' \in [Classes -> Threads \cup {NoThread}] /\ depth' \in [Classes -> Nat]
      /\ \A d \in Classes \ {c} : owner'[d] = owner[d] /\ depth'[d] = depth[d]
  BY <1>2, <1>3
<1>5. ASSUME NEW d \in Classes, d = c
      PROVE  /\ Inside(t, d)' = Inside(t, d) \cup {n} /\ n \notin Inside(t, d)
             /\ ~Working(t, d) /\ ~Working(t, d)'
             /\ \A u \in Threads \ {t} : Inside(u, d)' = Inside(u, d) /\ (Working(u, d)' <=> Working(u, d))
  BY <1>1, <1>2, <1>5 DEF StepEffect, LockedPoints, WorkPoints
<1>6. ASSUME NEW d \in Classes \ {c}, NEW u \in Threads
      PROVE  Inside(u, d)' = Inside(u, d) /\ (Working(u, d)' <=> Working(u, d))
  BY <1>1 DEF StepEffect
<1>7. status[c] # INITIALIZING
  BY <1>2, <1>3, <1>5 DEF IInv, InitializingIsOwned, InitializingIsLocked
<1> HIDE DEF c, n
<1>8. LockOK'
  <2>1. ASSUME NEW d \in Classes, d = c, NEW u \in Threads
        PROVE  /\ owner'[d] = NoThread => depth'[d] = 0
               /\ IsFiniteSet(Inside(u, d)')
               /\ Cardinality(Inside(u, d)') = IF owner'[d] = u THEN depth'[d] ELSE 0
    <3>1. /\ IsFiniteSet(Inside(t, d)) /\ Cardinality(Inside(t, d)) = depth[d]
          /\ \A v \in Threads \ {t} : IsFiniteSet(Inside(v, d)) /\ Cardinality(Inside(v, d)) = 0
      BY <1>2, <1>3, <2>1 DEF IInv, LockOK
    <3>2. IsFiniteSet(Inside(t, d) \cup {n}) /\ Cardinality(Inside(t, d) \cup {n}) = depth[d] + 1
      BY <1>5, <2>1, <3>1, FS_AddElement
    <3>3. CASE u = t
      BY <1>3, <1>4, <1>5, <2>1, <3>2, <3>3
    <3>4. CASE u # t
      BY <1>3, <1>4, <1>5, <2>1, <3>1, <3>4
    <3> QED
      BY <3>3, <3>4
  <2>2. ASSUME NEW d \in Classes \ {c}, NEW u \in Threads
        PROVE  /\ owner'[d] = NoThread => depth'[d] = 0
               /\ IsFiniteSet(Inside(u, d)')
               /\ Cardinality(Inside(u, d)') = IF owner'[d] = u THEN depth'[d] ELSE 0
    BY <1>4, <1>6 DEF IInv, LockOK
  <2>3. Threads # {}
    OBVIOUS
  <2> QED
    BY <2>1, <2>2, <2>3 DEF LockOK
<1>9. InitializingIsOwned'
  <2>1. ASSUME NEW d \in Classes, NEW u \in Threads
        PROVE  Working(u, d)' <=> status'[d] = INITIALIZING /\ owner'[d] = u
    <3>1. CASE d = c
      BY <1>2, <1>5, <1>7, <3>1 DEF IInv, InitializingIsOwned
    <3>2. CASE d # c
      BY <1>2, <1>4, <1>6, <3>2 DEF IInv, InitializingIsOwned
    <3> QED
      BY <3>1, <3>2
  <2> QED
    BY <2>1 DEF InitializingIsOwned
<1>10. InitializingIsLocked'
  BY <1>2, <1>3, <1>4 DEF IInv, InitializingIsLocked
<1> QED
  BY <1>2, <1>3, <1>4, <1>8, <1>9, <1>10, StepInv

\* The initialisation begins.
LEMMA StepBegins ==
    ASSUME IInv, NEW t \in Threads, Step(t, "super"), Top(t).class \in Classes, Top(t).at = "locked",
           status' = [status EXCEPT ![Top(t).class] = INITIALIZING], UNCHANGED lockVars
    PROVE  IInv'
<1> DEFINE c == Top(t).class
           n == Len(stack[t])
<1>1. StepEffect(t, "super")
  BY StepAffects
<1>2. owner' = owner /\ depth' = depth
  BY DEF lockVars
<1>3. /\ status' \in [Classes -> {LOADED, INITIALIZING, INITIALIZED}]
      /\ status'[c] = INITIALIZING
      /\ \A d \in Classes \ {c} : status'[d] = status[d]
  BY DEF IInv, TypeOK
<1>4. ASSUME NEW d \in Classes, d = c
      PROVE  /\ Inside(t, d)' = Inside(t, d) /\ n \in Inside(t, d) /\ Working(t, d)'
             /\ \A u \in Threads \ {t} : Inside(u, d)' = Inside(u, d) /\ (Working(u, d)' <=> Working(u, d))
  BY <1>1, <1>4 DEF StepEffect, LockedPoints, WorkPoints
<1>5. ASSUME NEW d \in Classes \ {c}, NEW u \in Threads
      PROVE  Inside(u, d)' = Inside(u, d) /\ (Working(u, d)' <=> Working(u, d))
  BY <1>1 DEF StepEffect
<1>6. owner[c] = t
  <2>1. n \in Inside(t, c) /\ IsFiniteSet(Inside(t, c))
    BY <1>4 DEF IInv, LockOK
  <2>2. Cardinality(Inside(t, c)) # 0
    BY <2>1, FS_EmptySet
  <2> QED
    BY <2>2 DEF IInv, LockOK
<1>7. NoThread \notin Threads
  BY ClassInitAssumption
<1> HIDE DEF c, n
<1>8. InitializingIsOwned'
  <2>1. ASSUME NEW d \in Classes, NEW u \in Threads
        PROVE  Working(u, d)' <=> status'[d] = INITIALIZING /\ owner'[d] = u
    <3>1. CASE d = c
      BY <1>2, <1>3, <1>4, <1>6, <3>1 DEF IInv, InitializingIsOwned
    <3>2. CASE d # c
      BY <1>2, <1>3, <1>5, <3>2 DEF IInv, InitializingIsOwned
    <3> QED
      BY <3>1, <3>2
  <2> QED
    BY <2>1 DEF InitializingIsOwned
<1>9. ASSUME NEW u \in Threads, NEW d \in Classes PROVE Inside(u, d)' = Inside(u, d)
  BY <1>4, <1>5
<1>10. LockOK' /\ InitializingIsLocked'
  BY <1>2, <1>3, <1>6, <1>7, <1>9 DEF IInv, LockOK, InitializingIsLocked
<1> QED
  BY <1>2, <1>3, <1>8, <1>10, StepInv DEF IInv, TypeOK

\* A call returns: its frame, which works on its class no longer, goes.
LEMMA ReturnFrames ==
    ASSUME IInv, NEW t \in Threads, NEW ok \in BOOLEAN, Return(t, ok),
           Top(t).at \notin WorkPoints
    PROVE  /\ Top(t).class \in Classes
           /\ BottomOK' /\ Fresh' /\ ResultOK'
           /\ stack' \in [Threads -> Seq(Frame)] /\ \A u \in Threads : stack'[u] # <<>>
           /\ result' \in [Threads -> {NoResult} \cup Results]
           /\ \A u \in Threads, d \in Classes :
                 /\ Working(u, d)' <=> Working(u, d)
                 /\ (u # t \/ d # Top(t).class) => Inside(u, d)' = Inside(u, d)
                 /\ (u = t /\ d = Top(t).class) =>
                       /\ Inside(u, d)' = Inside(u, d) \ {Len(stack[t])}
                       /\ Len(stack[t]) \in Inside(u, d) <=> Top(t).at \in LockedPoints
<1> DEFINE s == stack[t]
           n == Len(s)
           q == Front(s)
<1>1. TypeOK /\ BottomOK /\ Fresh /\ ResultOK
  BY DEF IInv
<1>2. s \in Seq(Frame) /\ s # <<>> /\ n \in Nat \ {0} /\ DOMAIN s = 1 .. n /\ Top(t) = s[n] /\ s[n] \in Frame
  BY <1>1, StackOf
<1>3. q \in Seq(Frame) /\ Len(q) = n - 1 /\ DOMAIN q = 1 .. n - 1 /\ \A i \in 1 .. n - 1 : q[i] = s[i]
  <2>1. s \in Seq(Frame) /\ s # <<>>
    BY <1>2
  <2> HIDE DEF s
  <2>2. q \in Seq(Frame) /\ Len(q) = n - 1 /\ \A i \in 1 .. n - 1 : q[i] = s[i]
    BY <2>1, FrontOf
  <2> HIDE DEF q
  <2>3. DOMAIN q = 1 .. Len(q)
    BY <2>2, LenProperties
  <2> QED
    BY <2>2, <2>3
<1>4. /\ stack' = [stack EXCEPT ![t] = q]
      /\ result' = [result EXCEPT ![t] = [class |-> Top(t).class, ok |-> ok]]
  BY DEF Return
<1>5. stack'[t] = q /\ \A u \in Threads \ {t} : stack'[u] = stack[u]
  BY <1>1, <1>4 DEF TypeOK
<1>6. n # 1 /\ s[n].class \in Classes
  <2>1. n \in DOMAIN s
    BY <1>2
  <2>2. s[n].at \notin {"code", "throw"}
    BY <1>2 DEF WorkPoints
  <2>3. n # 1 /\ s[n].class # NoClass
    BY <1>1, <2>1, <2>2 DEF BottomOK
  <2> QED
    BY <1>2, <2>3 DEF Frame
<1> HIDE DEF s, n, q
<1>7. n - 1 \in 1 .. n - 1 /\ n - 1 < n /\ n - 1 \in 1 .. n
  <2>1. n \in Nat /\ n # 0 /\ n # 1
    BY <1>2, <1>6
  <2> QED
    BY <2>1
<1>8. stack' \in [Threads -> Seq(Frame)] /\ \A u \in Threads : stack'[u] # <<>>
  <2>1. q # <<>>
    BY <1>3, <1>7
  <2> QED
    BY <1>1, <1>3, <1>4, <1>5, <2>1 DEF TypeOK, Frame
<1>9. result' \in [Threads -> {NoResult} \cup Results]
  <2>1. [class |-> Top(t).class, ok |-> ok] \in Results
    BY <1>2, <1>6 DEF Results
  <2> QED
    BY <1>1, <1>4, <2>1 DEF TypeOK, Results
<1>10. BottomOK'
  <2>1. ASSUME NEW i \in DOMAIN q
        PROVE  /\ i < Len(q) => q[i].at \in CallPoints
               /\ i = 1 <=> q[i].class = NoClass
               /\ i = 1 => q[i].at \in {"code", "throw"}
    <3>1. i \in DOMAIN stack[t] /\ q[i] = stack[t][i] /\ (i < Len(q) => i < Len(stack[t]))
      BY <1>2, <1>3, <2>1 DEF s, n
    <3> QED
      BY <1>1, <3>1 DEF BottomOK
  <2> QED
    BY <1>1, <1>5, <2>1 DEF BottomOK
<1>11. Fresh'
  <2>1. ASSUME NEW i \in DOMAIN q, NEW j \in DOMAIN q
        PROVE  /\ i \in DOMAIN stack[t] /\ j \in DOMAIN stack[t]
               /\ q[i] = stack[t][i] /\ q[j] = stack[t][j]
    BY <1>2, <1>3, <2>1 DEF s, n
  <2> QED
    BY <1>1, <1>5, <2>1 DEF Fresh
<1>12. ResultOK'
  <2>1. Top(t)' = s[n - 1]
    BY <1>3, <1>5, <1>7 DEF Top, Last
  <2>2. s[n - 1].at \in CallPoints
    BY <1>1, <1>2, <1>7 DEF BottomOK, s, n
  <2>3. ASSUME NEW u \in Threads \ {t} PROVE Top(u)' = Top(u) /\ result'[u] = result[u]
    BY <1>1, <1>4, <1>5 DEF Top, TypeOK
  <2> QED
    BY <1>1, <2>1, <2>2, <2>3 DEF ResultOK
<1>13. ASSUME NEW u \in Threads, NEW d \in Classes PROVE Working(u, d)' <=> Working(u, d)
  <2>1. CASE u # t
    BY <1>5, <2>1 DEF Working, Frames
  <2>2. CASE u = t
    <3>1. Working(t, d)' <=> \E i \in 1 .. n - 1 : q[i].class = d /\ q[i].at \in WorkPoints
      BY <1>3, <1>5 DEF Working, Frames, WorkPoints
    <3>2. Working(t, d) <=> \E i \in 1 .. n : s[i].class = d /\ s[i].at \in WorkPoints
      BY DEF Working, Frames, WorkPoints, s, n
    <3>3. \A i \in 1 .. n : i = n \/ i \in 1 .. n - 1
      BY <1>2
    <3>4. \A i \in 1 .. n - 1 : i \in 1 .. n
      BY <1>2
    <3> QED
      BY <1>2, <1>3, <2>2, <3>1, <3>2, <3>3, <3>4
  <2> QED
    BY <2>1, <2>2
<1>14. ASSUME NEW u \in Threads, NEW d \in Classes, u # t \/ d # Top(t).class
       PROVE  Inside(u, d)' = Inside(u, d)
  <2>1. CASE u # t
    BY <1>5, <2>1 DEF Inside
  <2>2. CASE u = t
    <3>1. Inside(t, d)' = {i \in 1 .. n - 1 : q[i].class = d /\ q[i].at \in LockedPoints}
      BY <1>3, <1>5 DEF Inside
    <3>2. Inside(t, d) = {i \in 1 .. n : s[i].class = d /\ s[i].at \in LockedPoints}
      BY <1>2 DEF Inside, s
    <3>3. \A i : i \in 1 .. n <=> i = n \/ i \in 1 .. n - 1
      BY <1>2
    <3> QED
      BY <1>2, <1>3, <1>14, <2>2, <3>1, <3>2, <3>3
  <2> QED
    BY <2>1, <2>2
<1>15. ASSUME NEW d \in Classes, d = Top(t).class
       PROVE  /\ Inside(t, d)' = Inside(t, d) \ {n}
              /\ n \in Inside(t, d) <=> Top(t).at \in LockedPoints
  <2>1. Inside(t, d)' = {i \in 1 .. n - 1 : q[i].class = d /\ q[i].at \in LockedPoints}
    BY <1>3, <1>5 DEF Inside
  <2>2. Inside(t, d) = {i \in 1 .. n : s[i].class = d /\ s[i].at \in LockedPoints}
    BY <1>2 DEF Inside, s
  <2>3. n \in 1 .. n /\ n \notin 1 .. n - 1 /\ \A i : i \in 1 .. n <=> i = n \/ i \in 1 .. n - 1
    BY <1>2
  <2> QED
    BY <1>2, <1>3, <1>15, <2>1, <2>2, <2>3
<1> QED
  BY <1>2, <1>6, <1>8, <1>9, <1>10, <1>11, <1>12, <1>13, <1>14, <1>15 DEF s, n

LEMMA ReturnInv ==
    ASSUME IInv, NEW t \in Threads, NEW ok \in BOOLEAN, Return(t, ok),
           Top(t).at \notin WorkPoints, UNCHANGED <<status, running>>,
           \/ Top(t).at \notin LockedPoints /\ UNCHANGED lockVars
           \/ Top(t).at \in LockedPoints /\ Unlock(Top(t).class)
    PROVE  IInv'
<1> DEFINE c == Top(t).class
           n == Len(stack[t])
<1>1. /\ c \in Classes /\ BottomOK' /\ Fresh' /\ ResultOK'
      /\ stack' \in [Threads -> Seq(Frame)] /\ \A u \in Threads : stack'[u] # <<>>
      /\ result' \in [Threads -> {NoResult} \cup Results]
  BY ReturnFrames
<1>2. ASSUME NEW u \in Threads, NEW d \in Classes PROVE Working(u, d)' <=> Working(u, d)
  BY ReturnFrames
<1>3. ASSUME NEW u \in Threads, NEW d \in Classes, u # t \/ d # c PROVE Inside(u, d)' = Inside(u, d)
  BY <1>3, ReturnFrames
<1>4. ASSUME NEW d \in Classes, d = c
      PROVE  Inside(t, d)' = Inside(t, d) \ {n} /\ (n \in Inside(t, d) <=> Top(t).at \in LockedPoints)
  BY <1>4, ReturnFrames
<1>5. /\ owner \in [Classes -> Threads \cup {NoThread}] /\ depth \in [Classes -> Nat]
      /\ status \in [Classes -> {LOADED, INITIALIZING, INITIALIZED}] /\ NoThread \notin Threads
      /\ status' = status /\ running' = running /\ running \in BOOLEAN
  BY ClassInitAssumption DEF IInv, TypeOK
<1>6. SUFFICES /\ owner' \in [Classes -> Threads \cup {NoThread}] /\ depth' \in [Classes -> Nat]
               /\ LockOK' /\ InitializingIsOwned' /\ InitializingIsLocked'
  BY <1>1, <1>5, <1>6 DEF IInv, TypeOK, Frame, Results
<1>7. CASE Top(t).at \notin LockedPoints /\ UNCHANGED lockVars
  <2>1. owner' = owner /\ depth' = depth
    BY <1>7 DEF lockVars
  <2>2. ASSUME NEW u \in Threads, NEW d \in Classes PROVE Inside(u, d)' = Inside(u, d)
    BY <1>3, <1>4, <1>7
  <2> QED
    BY <1>2, <1>5, <2>1, <2>2 DEF IInv, LockOK, InitializingIsOwned, InitializingIsLocked
<1>8. CASE Top(t).at \in LockedPoints /\ Unlock(Top(t).class)
  <2>1. n \in Inside(t, c) /\ IsFiniteSet(Inside(t, c)) /\ Cardinality(Inside(t, c)) # 0
    <3>1. n \in Inside(t, c) /\ IsFiniteSet(Inside(t, c))
      BY <1>1, <1>4, <1>8 DEF IInv, LockOK
    <3> QED
      BY <3>1, FS_EmptySet
  <2>2. owner[c] = t /\ Cardinality(Inside(t, c)) = depth[c] /\ depth[c] \in Nat \ {0}
    BY <1>1, <1>5, <2>1 DEF IInv, LockOK
  <2>3. /\ depth'[c] = depth[c] - 1 /\ owner'[c] = IF depth[c] = 1 THEN NoThread ELSE t
        /\ \A d \in Classes \ {c} : owner'[d] = owner[d] /\ depth'[d] = depth[d]
        /\ owner' \in [Classes -> Threads \cup {NoThread}] /\ depth' \in [Classes -> Nat]
    <3>1. /\ depth' = [depth EXCEPT ![c] = depth[c] - 1]
          /\ owner' = [owner EXCEPT ![c] = IF depth[c] = 1 THEN NoThread ELSE owner[c]]
      BY <1>8 DEF Unlock
    <3> HIDE DEF c
    <3> QED
      BY <1>1, <1>5, <2>2, <3>1
  <2>4. ASSUME NEW d \in Classes, d = c
        PROVE  IsFiniteSet(Inside(t, d)') /\ Cardinality(Inside(t, d)') = depth[d] - 1
    BY <1>4, <2>1, <2>2, <2>4, FS_RemoveElement
  <2>5. ASSUME NEW u \in Threads \ {t} PROVE IsFiniteSet(Inside(u, c)) /\ Cardinality(Inside(u, c)) = 0
    BY <1>1, <2>2 DEF IInv, LockOK
  <2>6. ~Working(t, c) => status[c] # INITIALIZING
    BY <1>1, <2>2 DEF IInv, InitializingIsOwned
  <2>7. depth[c] = 1 => ~Working(t, c)
    <3>1. ASSUME depth[c] = 1, Working(t, c) PROVE FALSE
      <4>1. PICK i \in 1 .. n : stack[t][i].class = c /\ stack[t][i].at \in WorkPoints
        BY <3>1 DEF Working, Frames, WorkPoints
      <4>2. DOMAIN stack[t] = 1 .. n /\ Top(t) = stack[t][n]
        BY StackOf DEF IInv
      <4>3. i \in Inside(t, c) \ {n}
        BY <4>1, <4>2 DEF Inside, WorkPoints, LockedPoints
      <4>4. IsFiniteSet(Inside(t, c) \ {n}) /\ Cardinality(Inside(t, c) \ {n}) = 0
        <5> DEFINE X == Inside(t, c)
        <5>1. n \in X /\ IsFiniteSet(X) /\ Cardinality(X) = 1
          BY <2>1, <2>2, <3>1
        <5> HIDE DEF X, n
        <5>2. IsFiniteSet(X \ {n}) /\ Cardinality(X \ {n}) = Cardinality(X) - 1
          BY <5>1, FS_RemoveElement
        <5> QED
          BY <5>1, <5>2 DEF X
      <4> QED
        BY <4>3, <4>4, FS_EmptySet
    <3> QED
      BY <3>1
  <2> HIDE DEF c, n
  <2>8. LockOK'
    <3>1. ASSUME NEW d \in Classes, NEW u \in Threads
          PROVE  /\ owner'[d] = NoThread => depth'[d] = 0
                 /\ IsFiniteSet(Inside(u, d)')
                 /\ Cardinality(Inside(u, d)') = IF owner'[d] = u THEN depth'[d] ELSE 0
      <4>1. CASE d = c /\ u = t
        BY <1>5, <2>2, <2>3, <2>4, <4>1
      <4>2. CASE d = c /\ u # t
        BY <1>3, <1>5, <2>2, <2>3, <2>5, <4>2
      <4>3. CASE d # c
        BY <1>3, <2>3, <4>3 DEF IInv, LockOK
      <4> QED
        BY <4>1, <4>2, <4>3
    <3> QED
      BY <3>1 DEF LockOK
  <2>9. InitializingIsOwned'
    <3>1. ASSUME NEW d \in Classes, NEW u \in Threads
          PROVE  Working(u, d)' <=> status'[d] = INITIALIZING /\ owner'[d] = u
      <4>1. CASE d = c
        BY <1>2, <1>5, <2>2, <2>3, <2>6, <2>7, <4>1 DEF IInv, InitializingIsOwned
      <4>2. CASE d # c
        BY <1>2, <1>5, <2>3, <4>2 DEF IInv, InitializingIsOwned
      <4> QED
        BY <4>1, <4>2
    <3> QED
      BY <3>1 DEF InitializingIsOwned
  <2>10. InitializingIsLocked'
    BY <1>1, <1>5, <2>2, <2>3, <2>6, <2>7 DEF IInv, InitializingIsLocked
  <2> QED
    BY <2>3, <2>8, <2>9, <2>10
<1> QED
  BY <1>7, <1>8

-----------------------------------------------------------------------------
(* Every step keeps the invariant.                                         *)

LEMMA HasClass ==
    ASSUME IInv, NEW t \in Threads, Top(t).at \notin {"code", "throw"} \/ Top(t).class # NoClass
    PROVE  Top(t).class \in Classes
<1>1. /\ Len(stack[t]) \in DOMAIN stack[t] /\ Top(t) = stack[t][Len(stack[t])]
      /\ Top(t) \in Frame
  BY StackOf DEF IInv
<1> QED
  BY <1>1 DEF IInv, BottomOK, Frame

LEMMA IsStep ==
    ASSUME IInv, NEW t \in Threads, NEW point \in Points \ {"self"}, MovesTo(t, point),
           Top(t).at # "self" \/ Past(t),
           Top(t).class = NoClass => point \in {"code", "throw"},
           \/ UNCHANGED result /\ (Top(t).at \notin CallPoints \/ result[t] = NoResult)
           \/ Consume(t),
           running' \in BOOLEAN
    PROVE  Step(t, point)
<1>1. Past(t)
  BY FreshIsPast DEF IInv
<1>2. result \in [Threads -> {NoResult} \cup Results]
  BY DEF IInv, TypeOK, Results
<1>3. CASE UNCHANGED result /\ (Top(t).at \notin CallPoints \/ result[t] = NoResult)
  BY <1>1, <1>2, <1>3 DEF Step, IInv, ResultOK
<1>4. CASE Consume(t)
  BY <1>1, <1>2, <1>4 DEF Step, Consume
<1> QED
  BY <1>3, <1>4

LEMMA NextInv == ASSUME IInv, NEW t \in Threads, InitializeClass(t) \/ Bytecode(t) PROVE IInv'
<1>1. TypeOK /\ running \in BOOLEAN
  BY DEF IInv, TypeOK
<1> USE DEF At
<1>2. ASSUME CheckSelf(t) PROVE IInv'
  <2>1. Top(t).at = "self" /\ Top(t).class \in Classes
    BY <1>2, HasClass DEF CheckSelf
  <2>2. UNCHANGED <<status, lockVars, running>>
    BY <1>2 DEF CheckSelf
  <2>3. CASE Return(t, TRUE)
    BY <2>1, <2>2, <2>3, ReturnInv DEF WorkPoints, LockedPoints
  <2>4. CASE /\ ~(status[Top(t).class] = INITIALIZING /\ owner[Top(t).class] = t)
             /\ Goto(t, "busy") /\ UNCHANGED result
    <3>1. ~Working(t, Top(t).class)
      BY <2>1, <2>4 DEF IInv, InitializingIsOwned
    <3>2. Past(t)
      <4>1. ASSUME NEW j \in 1 .. Len(stack[t]) - 1,
                   stack[t][j].at \in WorkPoints, stack[t][j].class = Top(t).class
            PROVE  Working(t, Top(t).class)
        <5>1. j \in 1 .. Len(stack[t])
          BY <1>1, StackOf
        <5> QED
          BY <4>1, <5>1 DEF Working, Frames, WorkPoints
      <4> QED
        BY <3>1, <4>1 DEF Past
    <3>3. MovesTo(t, "busy")
      BY <1>1, <2>4, GotoMoves DEF Points
    <3>4. Top(t).class # NoClass
      BY <2>1, ClassInitAssumption
    <3>5. Step(t, "busy")
      BY <1>1, <2>1, <2>2, <2>4, <3>2, <3>3, <3>4, IsStep DEF Points, CallPoints
    <3> QED
      BY <2>1, <2>2, <3>5, StepKeeps DEF LockedPoints, WorkPoints
  <2> QED
    BY <1>2, <2>3, <2>4 DEF CheckSelf
<1>3. ASSUME BusyWait(t) PROVE IInv'
  <2>1. Top(t).at = "busy" /\ Top(t).class \in Classes /\ Top(t).class # NoClass
    BY <1>3, HasClass, ClassInitAssumption DEF BusyWait
  <2>2. MovesTo(t, "recheck")
    BY <1>1, <1>3, GotoMoves DEF BusyWait, Points
  <2>3. Step(t, "recheck")
    BY <1>1, <1>3, <2>1, <2>2, IsStep DEF BusyWait, Points, CallPoints
  <2> QED
    BY <1>3, <2>1, <2>3, StepKeeps DEF BusyWait, LockedPoints, WorkPoints
<1>4. ASSUME Recheck(t) PROVE IInv'
  <2>1. Top(t).at = "recheck" /\ Top(t).class \in Classes /\ Top(t).class # NoClass
    BY <1>4, HasClass, ClassInitAssumption DEF Recheck
  <2>2. UNCHANGED <<status, lockVars, running>>
    BY <1>4 DEF Recheck
  <2>3. CASE Return(t, TRUE)
    BY <2>1, <2>2, <2>3, ReturnInv DEF WorkPoints, LockedPoints
  <2>4. CASE Goto(t, "lock") /\ UNCHANGED result
    <3>1. MovesTo(t, "lock")
      BY <1>1, <2>4, GotoMoves DEF Points
    <3>2. Step(t, "lock")
      BY <1>1, <2>1, <2>2, <2>4, <3>1, IsStep DEF Points, CallPoints
    <3> QED
      BY <2>1, <2>2, <3>2, StepKeeps DEF LockedPoints, WorkPoints
  <2> QED
    BY <1>4, <2>3, <2>4 DEF Recheck
<1>5. ASSUME Lock(t) PROVE IInv'
  <2>1. Top(t).at = "lock" /\ Top(t).class \in Classes /\ Top(t).class # NoClass
    BY <1>5, HasClass, ClassInitAssumption DEF Lock
  <2>2. MovesTo(t, "locked")
    BY <1>1, <1>5, GotoMoves DEF Lock, Points
  <2>3. Step(t, "locked")
    BY <1>1, <1>5, <2>1, <2>2, IsStep DEF Lock, Points, CallPoints
  <2> QED
    BY <1>5, <2>1, <2>3, StepLocks
<1>6. ASSUME Begin(t) PROVE IInv'
  <2>1. Top(t).at = "locked" /\ Top(t).class \in Classes /\ Top(t).class # NoClass
    BY <1>6, HasClass, ClassInitAssumption DEF Begin
  <2>2. UNCHANGED <<lockVars, result, running>>
    BY <1>6 DEF Begin
  <2>3. CASE Goto(t, "unlockTrue") /\ UNCHANGED status
    <3>1. MovesTo(t, "unlockTrue")
      BY <1>1, <2>3, GotoMoves DEF Points
    <3>2. Step(t, "unlockTrue")
      BY <1>1, <2>1, <2>2, <3>1, IsStep DEF Points, CallPoints
    <3> QED
      BY <2>1, <2>2, <2>3, <3>2, StepKeeps DEF LockedPoints, WorkPoints
  <2>4. CASE Goto(t, "super") /\ status' = [status EXCEPT ![Top(t).class] = INITIALIZING]
    <3>1. MovesTo(t, "super")
      BY <1>1, <2>4, GotoMoves DEF Points
    <3>2. Step(t, "super")
      BY <1>1, <2>1, <2>2, <3>1, IsStep DEF Points, CallPoints
    <3> QED
      BY <2>1, <2>2, <2>4, <3>2, StepBegins
  <2> QED
    BY <1>6, <2>3, <2>4 DEF Begin
<1>7. ASSUME CallSuper(t) PROVE IInv'
  <2>1. Top(t).at = "super" /\ Top(t).class \in Classes /\ Top(t).class # NoClass
    BY <1>7, HasClass, ClassInitAssumption DEF CallSuper
  <2>2. PICK point \in {"constants", "superCall"} : MovesTo(t, point)
    <3>1. Super[Top(t).class] # NoClass => Super[Top(t).class] \in Classes
      BY <2>1, ClassInitAssumption
    <3> QED
      BY <1>1, <1>7, <3>1, GotoMoves, CallMoves DEF CallSuper, Points, CallPoints
  <2>3. Step(t, point)
    BY <1>1, <1>7, <2>1, <2>2, IsStep DEF CallSuper, Points, CallPoints
  <2> QED
    BY <1>7, <2>1, <2>3, StepKeeps DEF CallSuper, LockedPoints, WorkPoints
<1>8. ASSUME SuperReturned(t) PROVE IInv'
  <2>1. Top(t).at = "superCall" /\ Top(t).class \in Classes /\ Top(t).class # NoClass
    BY <1>8, HasClass, ClassInitAssumption DEF SuperReturned
  <2>2. Consume(t) /\ UNCHANGED lockVars /\ running' = running
    BY <1>8 DEF SuperReturned
  <2>3. CASE Goto(t, "constants") /\ UNCHANGED status
    <3>1. MovesTo(t, "constants")
      BY <1>1, <2>3, GotoMoves DEF Points
    <3>2. Step(t, "constants")
      BY <1>1, <2>1, <2>2, <3>1, IsStep DEF Points
    <3> QED
      BY <2>1, <2>2, <2>3, <3>2, StepKeeps DEF LockedPoints, WorkPoints
  <2>4. CASE Goto(t, "unlockFalse") /\ status' = [status EXCEPT ![Top(t).class] = LOADED]
    <3>1. MovesTo(t, "unlockFalse")
      BY <1>1, <2>4, GotoMoves DEF Points
    <3>2. Step(t, "unlockFalse")
      BY <1>1, <2>1, <2>2, <3>1, IsStep DEF Points
    <3> QED
      BY <2>1, <2>2, <2>4, <3>2, StepEnds DEF LockedPoints, WorkPoints
  <2> QED
    BY <1>8, <2>3, <2>4 DEF SuperReturned
<1>9. ASSUME Constants(t) PROVE IInv'
  <2>1. Top(t).at = "constants" /\ Top(t).class \in Classes /\ Top(t).class # NoClass
    BY <1>9, HasClass, ClassInitAssumption DEF Constants
  <2>2. UNCHANGED <<lockVars, result, running>>
    BY <1>9 DEF Constants
  <2>3. CASE Goto(t, "code") /\ UNCHANGED status
    <3>1. MovesTo(t, "code")
      BY <1>1, <2>3, GotoMoves DEF Points
    <3>2. Step(t, "code")
      BY <1>1, <2>1, <2>2, <3>1, IsStep DEF Points, CallPoints
    <3> QED
      BY <2>1, <2>2, <2>3, <3>2, StepKeeps DEF LockedPoints, WorkPoints
  <2>4. CASE Goto(t, "unlockTrue") /\ status' = [status EXCEPT ![Top(t).class] = INITIALIZED]
    <3>1. MovesTo(t, "unlockTrue")
      BY <1>1, <2>4, GotoMoves DEF Points
    <3>2. Step(t, "unlockTrue")
      BY <1>1, <2>1, <2>2, <3>1, IsStep DEF Points, CallPoints
    <3> QED
      BY <2>1, <2>2, <2>4, <3>2, StepEnds DEF LockedPoints, WorkPoints
  <2> QED
    BY <1>9, <2>3, <2>4 DEF Constants
<1>10. ASSUME StringFails(t) PROVE IInv'
  <2>1. Top(t).at = "constants" /\ Top(t).class \in Classes /\ Top(t).class # NoClass
    BY <1>10, HasClass, ClassInitAssumption DEF StringFails
  <2>2. MovesTo(t, "throwConstant")
    BY <1>1, <1>10, CallMoves, ClassInitAssumption DEF StringFails, CallPoints
  <2>3. Step(t, "throwConstant")
    BY <1>1, <1>10, <2>1, <2>2, IsStep DEF StringFails, Points, CallPoints
  <2> QED
    BY <1>10, <2>1, <2>3, StepEnds DEF StringFails, LockedPoints, WorkPoints
<1>11. ASSUME ClinitReturns(t) \/ ClinitThrows(t) PROVE IInv'
  <2>1. Top(t).at = "code" /\ Top(t).class \in Classes /\ Top(t).class # NoClass /\ result[t] = NoResult
    BY <1>11, HasClass DEF ClinitReturns, ClinitThrows
  <2>2. UNCHANGED <<lockVars, result, running>>
    BY <1>11 DEF ClinitReturns, ClinitThrows
  <2>3. PICK point \in {"unlockTrue", "unlockFalse"} : Goto(t, point)
    BY <1>11 DEF ClinitReturns, ClinitThrows
  <2>4. MovesTo(t, point)
    BY <1>1, <2>3, GotoMoves DEF Points
  <2>5. Step(t, point)
    BY <1>1, <2>1, <2>2, <2>4, IsStep DEF Points
  <2>6. \E new \in {LOADED, INITIALIZED} : status' = [status EXCEPT ![Top(t).class] = new]
    BY <1>11 DEF ClinitReturns, ClinitThrows
  <2> QED
    BY <2>1, <2>2, <2>5, <2>6, StepEnds DEF LockedPoints, WorkPoints
<1>12. ASSUME Leave(t) PROVE IInv'
  <2>1. /\ Top(t).at \in {"unlockTrue", "unlockFalse"} /\ Unlock(Top(t).class)
        /\ UNCHANGED <<status, running>>
    BY <1>12 DEF Leave
  <2>2. PICK ok \in BOOLEAN : Return(t, ok)
    BY <1>12 DEF Leave
  <2> QED
    BY <2>1, <2>2, ReturnInv DEF WorkPoints, LockedPoints
<1>13. ASSUME Trigger(t) PROVE IInv'
  <2>1. Top(t).at = "code" /\ result[t] = NoResult /\ UNCHANGED <<status, lockVars, result, running>>
    BY <1>13 DEF Trigger
  <2>2. Triggers[Top(t).class] \subseteq Classes
    <3>1. Top(t) \in Frame
      BY <1>1, StackOf
    <3> QED
      BY <3>1, ClassInitAssumption DEF Frame
  <2>3. MovesTo(t, "code")
    BY <1>1, <1>13, <2>2, CallMoves DEF Trigger, CallPoints
  <2>4. Step(t, "code")
    BY <1>1, <2>1, <2>3, IsStep DEF Points
  <2> QED
    BY <2>1, <2>4, StepKeeps
<1>14. ASSUME TriggerReturned(t) PROVE IInv'
  <2>1. Top(t).at = "code" /\ Consume(t) /\ UNCHANGED <<status, lockVars, running>>
    BY <1>14 DEF TriggerReturned
  <2>2. PICK point \in {"code", "throw"} : MovesTo(t, point)
    BY <1>1, <1>14, StayMoves, CallMoves, ClassInitAssumption DEF TriggerReturned, CallPoints
  <2>3. Step(t, point)
    BY <1>1, <2>1, <2>2, IsStep DEF Points
  <2> QED
    BY <2>1, <2>3, StepKeeps DEF LockedPoints, WorkPoints
<1>15. ASSUME Thrown(t) PROVE IInv'
  <2>1. Consume(t) /\ UNCHANGED <<status, lockVars>> /\ running' \in BOOLEAN
    BY <1>15 DEF Thrown
  <2>2. CASE Top(t).at = "throw" /\ Goto(t, "code")
    <3>1. MovesTo(t, "code")
      BY <1>1, <2>2, GotoMoves DEF Points
    <3>2. Step(t, "code")
      BY <2>1, <2>2, <3>1, IsStep DEF Points
    <3> QED
      BY <2>1, <2>2, <3>2, StepKeeps DEF LockedPoints, WorkPoints
  <2>3. CASE Top(t).at = "throwConstant" /\ Goto(t, "unlockFalse")
    <3>1. MovesTo(t, "unlockFalse")
      BY <1>1, <2>3, GotoMoves DEF Points
    <3>2. Top(t).class # NoClass
      BY <2>3, HasClass, ClassInitAssumption
    <3>3. Step(t, "unlockFalse")
      BY <2>1, <2>3, <3>1, <3>2, IsStep DEF Points
    <3> QED
      BY <2>1, <2>3, <3>3, StepKeeps DEF LockedPoints, WorkPoints
  <2>4. CASE Top(t).at \in {"throw", "throwConstant"} /\ UNCHANGED stack
    <3>1. MovesTo(t, Top(t).at)
      BY <1>1, <2>4, StayMoves
    <3>2. Top(t).class = NoClass => Top(t).at = "throw"
      BY <2>4, HasClass, ClassInitAssumption
    <3>3. Step(t, Top(t).at)
      BY <2>1, <2>4, <3>1, <3>2, IsStep DEF Points
    <3> QED
      BY <2>1, <3>3, StepKeeps
  <2> QED
    BY <1>15, <2>2, <2>3, <2>4 DEF Thrown
<1> QED
  BY <1>2, <1>3, <1>4, <1>5, <1>6, <1>7, <1>8, <1>9, <1>10, <1>11, <1>12, <1>13, <1>14, <1>15
     DEF InitializeClass, Bytecode

-----------------------------------------------------------------------------
(* The theorems.                                                           *)

LEMMA InvInit == Init => IInv
<1> SUFFICES ASSUME Init PROVE IInv
  OBVIOUS
<1> DEFINE own == [class |-> NoClass, at |-> "code"]
<1>1. own \in Frame /\ own.class = NoClass /\ own.at = "code"
  BY DEF Frame, Points
<1> HIDE DEF own
<1>2. \A t \in Threads : stack[t] = <<own>>
  BY DEF Init, own
<1>3. /\ <<own>> \in Seq(Frame) /\ Len(<<own>>) = 1 /\ <<own>> # <<>>
      /\ DOMAIN <<own>> = 1 .. 1 /\ <<own>>[1] = own
  BY <1>1
<1>4. TypeOK
  <2>1. stack \in [Threads -> Seq([class : Classes \cup {NoClass}, at : Points])]
    BY <1>2, <1>3 DEF Init, Frame, own
  <2> QED
    BY <1>2, <1>3, <2>1 DEF Init, TypeOK
<1>5. BottomOK
  <2> DEFINE q == <<own>>
  <2>1. q \in Seq(Frame) /\ Len(q) = 1 /\ DOMAIN q = 1 .. 1 /\ q[1] = own /\ \A t \in Threads : stack[t] = q
    BY <1>2, <1>3
  <2> HIDE DEF q
  <2>2. \A i \in 1 .. 1 : i = 1
    OBVIOUS
  <2>3. \A i \in DOMAIN q : /\ ~(i < Len(q)) /\ i = 1 /\ q[i].class = NoClass
                            /\ q[i].at \in {"code", "throw"}
    BY <1>1, <2>1, <2>2
  <2> QED
    BY <2>1, <2>3, Zenon DEF BottomOK
<1>6. ResultOK
  BY DEF Init, ResultOK
<1>7. ASSUME NEW t \in Threads, NEW c \in Classes
      PROVE  Inside(t, c) = {} /\ ~Working(t, c)
  BY <1>1, <1>2, <1>3, ClassInitAssumption DEF Inside, Working, Frames
<1>8. LockOK
  BY <1>7, FS_EmptySet, ClassInitAssumption DEF LockOK, Init
<1>9. Fresh
  BY <1>2, <1>3 DEF Fresh
<1>10. InitializingIsOwned /\ InitializingIsLocked
  BY <1>7 DEF Init, InitializingIsOwned, InitializingIsLocked, LOADED, INITIALIZING
<1> QED
  BY <1>4, <1>5, <1>6, <1>8, <1>9, <1>10 DEF IInv

LEMMA InvStutters == IInv /\ UNCHANGED vars => IInv'
<1> SUFFICES ASSUME IInv, UNCHANGED vars PROVE IInv'
  OBVIOUS
<1>1. UNCHANGED <<status, owner, depth, stack, result, running>>
  BY DEF vars
<1>2. \A t \in Threads, c \in Classes : Inside(t, c)' = Inside(t, c) /\ (Working(t, c)' <=> Working(t, c))
  BY <1>1 DEF Inside, Working, Frames
<1>3. TypeOK' /\ BottomOK' /\ ResultOK' /\ Fresh'
  BY <1>1 DEF IInv, TypeOK, BottomOK, ResultOK, Fresh, Top
<1>4. LockOK' /\ InitializingIsOwned' /\ InitializingIsLocked'
  BY <1>1, <1>2 DEF IInv, LockOK, InitializingIsOwned, InitializingIsLocked
<1> QED
  BY <1>3, <1>4 DEF IInv

LEMMA Invariance == Spec => []IInv
<1>1. IInv /\ [Next]_vars => IInv'
  BY InvStutters, NextInv DEF Next
<1> QED
  BY InvInit, <1>1, PTL DEF Spec

(***************************************************************************)
(* Every variable stays in its type: a thread's stack never loses the      *)
(* frame of its own code, and no class lock is left more often than it was *)
(* entered (lines 112 to 188).                                             *)
(***************************************************************************)
THEOREM Types == Spec => []TypeOK
BY Invariance, PTL DEF IInv

(***************************************************************************)
(* A class is being initialised exactly as long as the owner of its lock   *)
(* is at it, for every number of threads, hierarchy of classes and way the *)
(* initialisers need each other (lines 105, 109).                          *)
(***************************************************************************)
THEOREM InitializationIsOwned == Spec => []InitializingIsOwned
BY Invariance, PTL DEF IInv

(***************************************************************************)
(* The static initialiser of a class runs in one frame of one thread at a  *)
(* time (lines 105 to 114).                                                *)
(***************************************************************************)
THEOREM ClinitRunsOnce == Spec => []ClinitExclusive
<1>1. IInv => ClinitExclusive
  <2> SUFFICES ASSUME IInv, NEW c \in WithClinit, NEW t \in Threads, NEW u \in Threads,
                      NEW i \in 1 .. Len(stack[t]), NEW j \in 1 .. Len(stack[u]),
                      stack[t][i].class = c, InCode(stack[t][i]),
                      stack[u][j].class = c, InCode(stack[u][j])
               PROVE  t = u /\ i = j
    BY DEF ClinitExclusive
  <2>1. c \in Classes /\ Working(t, c) /\ Working(u, c)
    BY ClassInitAssumption DEF Working, Frames, InCode
  <2>2. t = u
    BY <2>1 DEF IInv, InitializingIsOwned
  <2>3. DOMAIN stack[t] = 1 .. Len(stack[t]) /\ Len(stack[t]) \in Nat
    BY StackOf DEF IInv
  <2>4. ~(i < j) /\ ~(j < i)
    BY <2>2, <2>3 DEF IInv, Fresh, InCode, WorkPoints
  <2> QED
    BY <2>2, <2>3, <2>4
<1> QED
  BY <1>1, Invariance, PTL

\* Only the owner of its lock changes the state of a class, and not of one that
\* is initialised; only its owner gives the lock up.
LEMMA OnlyTheOwner ==
    ASSUME IInv, NEW t \in Threads, InitializeClass(t) \/ Bytecode(t), NEW c \in Classes
    PROVE  /\ status'[c] # status[c] => owner[c] = t /\ status[c] # INITIALIZED
           /\ owner'[c] # owner[c] => owner[c] \in {t, NoThread}
<1> DEFINE d == Top(t).class
           n == Len(stack[t])
<1>1. /\ status \in [Classes -> {LOADED, INITIALIZING, INITIALIZED}]
      /\ owner \in [Classes -> Threads \cup {NoThread}]
  BY DEF IInv, TypeOK
<1>2. n \in 1 .. n /\ DOMAIN stack[t] = 1 .. n /\ Top(t) = stack[t][n]
  BY StackOf DEF IInv
<1>3. ASSUME d \in Classes, Top(t).at \in LockedPoints PROVE owner[d] = t
  <2>1. n \in Inside(t, d)
    BY <1>2, <1>3 DEF Inside
  <2>2. IsFiniteSet(Inside(t, d)) /\ Cardinality(Inside(t, d)) # 0
    BY <1>3, <2>1, FS_EmptySet DEF IInv, LockOK
  <2> QED
    BY <1>3, <2>2 DEF IInv, LockOK
<1>4. ASSUME d \in Classes, Top(t).at \in WorkPoints PROVE status[d] # INITIALIZED
  <2>1. Working(t, d)
    BY <1>2, <1>4 DEF Working, Frames, WorkPoints
  <2> QED
    BY <1>4, <2>1 DEF IInv, InitializingIsOwned, INITIALIZING, INITIALIZED
<1>5. status'[c] # status[c] =>
        /\ c = d /\ Top(t).at \in LockedPoints
        /\ Top(t).at = "locked" => status[c] # INITIALIZED
        /\ Top(t).at # "locked" => Top(t).at \in WorkPoints
  BY <1>1 DEF InitializeClass, Bytecode, CheckSelf, BusyWait, Recheck, Lock, Begin, CallSuper,
     SuperReturned, Constants, StringFails, ClinitReturns, ClinitThrows, Leave, Trigger,
     TriggerReturned, Thrown, At, LockedPoints, WorkPoints
<1>6. owner'[c] # owner[c] => c = d /\ (owner[c] = NoThread \/ Top(t).at \in LockedPoints)
  BY <1>1 DEF InitializeClass, Bytecode, CheckSelf, BusyWait, Recheck, Lock, Begin, CallSuper,
     SuperReturned, Constants, StringFails, ClinitReturns, ClinitThrows, Leave, Unlock, Trigger,
     TriggerReturned, Thrown, At, LockedPoints, lockVars
<1> QED
  BY <1>3, <1>4, <1>5, <1>6

(***************************************************************************)
(* An initialised class is never initialised again or given up, whatever   *)
(* fails and whoever comes second behind the lock (line 114).              *)
(***************************************************************************)
THEOREM InitializedStays == Spec => InitializedIsFinal
<1>1. IInv /\ [Next]_vars => [\A c \in Classes : status[c] = INITIALIZED => status'[c] = INITIALIZED]_vars
  BY OnlyTheOwner DEF Next
<1> QED
  BY <1>1, Invariance, PTL DEF Spec, InitializedIsFinal

-----------------------------------------------------------------------------
(* What the result of a call promises.                                     *)

\* A call that is about to return true has seen its class initialised.
Finished == \A t \in Threads :
                Top(t).at = "unlockTrue" => status[Top(t).class] = INITIALIZED

UsableInv == IInv /\ Finished /\ TrueMeansUsable

LEMMA GotoTop ==
    ASSUME TypeOK, NEW t \in Threads, NEW point \in Points, Goto(t, point)
    PROVE  Top(t)'.at = point /\ Top(t)'.class = Top(t).class
<1> DEFINE s == stack[t]
           f == [Top(t) EXCEPT !.at = point]
           q == Front(s) \o <<f>>
<1>1. s \in Seq(Frame) /\ s # <<>> /\ Top(t) \in Frame
  BY StackOf
<1>2. f \in Frame /\ f.class = Top(t).class /\ f.at = point
  BY <1>1 DEF Frame
<1>3. stack'[t] = q
  BY <1>1 DEF Goto, TypeOK
<1> HIDE DEF f
<1>4. Front(s) \in Seq(Frame) /\ Len(s) \in Nat \ {0} /\ Len(Front(s)) = Len(s) - 1
  BY <1>1, FrontOf
<1> HIDE DEF s
<1>5. Len(q) = Len(s) /\ q[Len(s)] = f
  BY <1>2, <1>4
<1> QED
  BY <1>2, <1>3, <1>5 DEF Top, Last

LEMMA CallTop ==
    ASSUME TypeOK, NEW t \in Threads, NEW point \in CallPoints, NEW c \in Classes, CallThen(t, c, point)
    PROVE  Top(t)'.at = "self" /\ Top(t)'.class = c
<1> DEFINE s == stack[t]
           f == [Top(t) EXCEPT !.at = point]
           g == [class |-> c, at |-> "self"]
           q == Front(s) \o <<f, g>>
<1>1. s \in Seq(Frame) /\ s # <<>> /\ Top(t) \in Frame /\ point \in Points
  BY StackOf DEF CallPoints, Points
<1>2. f \in Frame /\ g \in Frame /\ g.at = "self" /\ g.class = c
  BY <1>1 DEF Frame, Points
<1>3. stack'[t] = q
  BY <1>1 DEF CallThen, TypeOK
<1> HIDE DEF f, g
<1>4. Front(s) \in Seq(Frame) /\ Len(s) \in Nat \ {0} /\ Len(Front(s)) = Len(s) - 1
  BY <1>1, FrontOf
<1> HIDE DEF s
<1>5. Len(q) = Len(s) + 1 /\ q[Len(s) + 1] = g
  BY <1>2, <1>4
<1> QED
  BY <1>2, <1>3, <1>5 DEF Top, Last

LEMMA ReturnTop ==
    ASSUME IInv, NEW t \in Threads, NEW ok \in BOOLEAN, Return(t, ok), Top(t).at \notin WorkPoints
    PROVE  Top(t)'.at # "unlockTrue" /\ result'[t] = [class |-> Top(t).class, ok |-> ok]
<1> DEFINE s == stack[t]
           n == Len(s)
           q == Front(s)
<1>0. \A k \in Nat \ {0} : k # 1 => k - 1 \in 1 .. k /\ k - 1 \in 1 .. k - 1 /\ k - 1 < k
  OBVIOUS
<1>1. /\ s \in Seq(Frame) /\ s # <<>> /\ n \in Nat \ {0} /\ DOMAIN s = 1 .. n
      /\ Top(t) = s[n] /\ Top(t).class \in Classes
  BY StackOf, ReturnFrames DEF IInv
<1>2. Len(q) = n - 1 /\ \A i \in 1 .. n - 1 : q[i] = s[i]
  BY <1>1, FrontOf
<1>3. n # 1
  BY <1>1, ClassInitAssumption DEF IInv, BottomOK
<1>4. s[n - 1].at \in CallPoints
  <2>1. n - 1 \in DOMAIN stack[t] /\ n - 1 < Len(stack[t])
    BY <1>0, <1>1, <1>3
  <2> QED
    BY <2>1 DEF IInv, BottomOK
<1>5. stack'[t] = q /\ result'[t] = [class |-> Top(t).class, ok |-> ok]
  BY DEF Return, IInv, TypeOK
<1>6. Top(t)' = q[n - 1]
  BY <1>2, <1>5, Zenon DEF Top, Last
<1>7. q[n - 1] = s[n - 1]
  <2>1. n - 1 \in 1 .. n - 1
    BY <1>0, <1>1, <1>3, Zenon
  <2> QED
    BY <1>2, <2>1
<1> QED
  BY <1>4, <1>5, <1>6, <1>7 DEF CallPoints

LEMMA Others ==
    ASSUME IInv, NEW t \in Threads, InitializeClass(t) \/ Bytecode(t), NEW u \in Threads \ {t}
    PROVE  stack'[u] = stack[u] /\ result'[u] = result[u]
BY DEF IInv, TypeOK, InitializeClass, Bytecode, CheckSelf, BusyWait, Recheck, Lock, Begin,
   CallSuper, SuperReturned, Constants, StringFails, ClinitReturns, ClinitThrows, Leave, Trigger,
   TriggerReturned, Thrown, Goto, CallThen, Return, Consume

\* The thread that steps: it stays, or moves on, or returns.
LEMMA Mine ==
    ASSUME UsableInv, NEW t \in Threads, InitializeClass(t) \/ Bytecode(t)
    PROVE  /\ Top(t)'.at = "unlockTrue" => status'[Top(t)'.class] = INITIALIZED
           /\ (result'[t] # NoResult /\ result'[t].ok) =>
                 LET c == result'[t].class
                 IN  status'[c] = INITIALIZED \/ (status'[c] = INITIALIZING /\ owner'[c] = t)
<1> DEFINE c == Top(t).class
           Goal == /\ Top(t)'.at = "unlockTrue" => status'[Top(t)'.class] = INITIALIZED
                   /\ (result'[t] # NoResult /\ result'[t].ok) =>
                         \/ status'[result'[t].class] = INITIALIZED
                         \/ status'[result'[t].class] = INITIALIZING /\ owner'[result'[t].class] = t
<1>0. IInv /\ TypeOK /\ status \in [Classes -> {LOADED, INITIALIZING, INITIALIZED}]
      /\ result \in [Threads -> {NoResult} \cup Results]
      /\ (Top(t).at \notin CallPoints => result[t] = NoResult)
  BY DEF UsableInv, IInv, TypeOK, ResultOK, Results
<1>1. ASSUME Consume(t) PROVE result'[t] = NoResult
  BY <1>0, <1>1 DEF Consume
<1>2. ASSUME NEW ok \in BOOLEAN, Return(t, ok), UNCHANGED status,
             Top(t).at \in {"self", "recheck", "unlockTrue", "unlockFalse"},
             ok => \/ status[c] = INITIALIZED
                   \/ status[c] = INITIALIZING /\ owner'[c] = t
      PROVE  Goal
  <2>1. Top(t)'.at # "unlockTrue" /\ result'[t] = [class |-> c, ok |-> ok]
    BY <1>0, <1>2, ReturnTop DEF WorkPoints
  <2> QED
    BY <1>2, <2>1
<1>3. ASSUME NEW point \in Points \ {"unlockTrue"}, Goto(t, point), result'[t] = NoResult
      PROVE  Goal
  BY <1>0, <1>3, GotoTop
<1>4. ASSUME NEW point \in CallPoints, NEW d \in Classes, CallThen(t, d, point), result'[t] = NoResult
      PROVE  Goal
  BY <1>0, <1>4, CallTop
<1>5. ASSUME Goto(t, "unlockTrue"), c \in Classes, status'[c] = INITIALIZED, result'[t] = NoResult
      PROVE  Goal
  <2>1. Top(t)'.class = c
    BY <1>0, <1>5, GotoTop DEF Points
  <2> QED
    BY <1>5, <2>1
<1>6. ASSUME UNCHANGED stack, result'[t] = NoResult, Top(t).at # "unlockTrue" PROVE Goal
  BY <1>6 DEF Top
<1> HIDE DEF Goal
<1>7. Top(t).at \notin {"code", "throw"} => c \in Classes
  BY <1>0, HasClass
<1> USE DEF At, CallPoints, Points
<1>8. ASSUME CheckSelf(t) PROVE Goal
  BY <1>0, <1>2, <1>3, <1>8 DEF CheckSelf, lockVars
<1>9. ASSUME BusyWait(t) \/ Lock(t) PROVE Goal
  BY <1>0, <1>3, <1>9 DEF BusyWait, Lock
<1>10. ASSUME Recheck(t) PROVE Goal
  BY <1>0, <1>2, <1>3, <1>10 DEF Recheck
<1>11. ASSUME Begin(t) PROVE Goal
  BY <1>0, <1>3, <1>5, <1>7, <1>11 DEF Begin
<1>12. ASSUME CallSuper(t) PROVE Goal
  <2>1. Top(t).at = "super" /\ c \in Classes /\ result'[t] = NoResult
    BY <1>0, <1>7, <1>12 DEF CallSuper
  <2>2. Super[c] # NoClass => Super[c] \in Classes
    BY <2>1, ClassInitAssumption
  <2> QED
    BY <1>3, <1>4, <1>12, <2>1, <2>2 DEF CallSuper
<1>13. ASSUME SuperReturned(t) PROVE Goal
  BY <1>1, <1>3, <1>13 DEF SuperReturned
<1>14. ASSUME Constants(t) PROVE Goal
  <2>1. Top(t).at = "constants" /\ c \in Classes /\ result'[t] = NoResult
    BY <1>0, <1>7, <1>14 DEF Constants
  <2> QED
    BY <1>0, <1>3, <1>5, <1>14, <2>1 DEF Constants
<1>15. ASSUME StringFails(t) PROVE Goal
  BY <1>0, <1>4, <1>15, ClassInitAssumption DEF StringFails
<1>16. ASSUME ClinitReturns(t) \/ ClinitThrows(t) PROVE Goal
  <2>1. c \in Classes /\ result'[t] = NoResult
    BY <1>0, <1>16, HasClass DEF ClinitReturns, ClinitThrows
  <2> QED
    BY <1>0, <1>3, <1>5, <1>16, <2>1 DEF ClinitReturns, ClinitThrows
<1>17. ASSUME Leave(t) PROVE Goal
  BY <1>0, <1>2, <1>17 DEF Leave, UsableInv, Finished
<1>18. ASSUME Trigger(t) PROVE Goal
  <2>1. Triggers[c] \subseteq Classes
    BY <1>0, StackOf, ClassInitAssumption DEF Frame
  <2> QED
    BY <1>4, <1>18, <2>1 DEF Trigger
<1>19. ASSUME TriggerReturned(t) PROVE Goal
  BY <1>1, <1>4, <1>6, <1>19, ClassInitAssumption DEF TriggerReturned
<1>20. ASSUME Thrown(t) PROVE Goal
  BY <1>1, <1>3, <1>6, <1>20 DEF Thrown
<1>21. Goal
  BY <1>8, <1>9, <1>10, <1>11, <1>12, <1>13, <1>14, <1>15, <1>16, <1>17, <1>18, <1>19, <1>20
     DEF InitializeClass, Bytecode
<1> QED
  BY <1>21 DEF Goal

LEMMA UsableKept ==
    ASSUME UsableInv, NEW t \in Threads, InitializeClass(t) \/ Bytecode(t)
    PROVE  UsableInv'
<1>1. IInv /\ IInv'
  BY NextInv DEF UsableInv
<1>2. ASSUME NEW u \in Threads \ {t}
      PROVE  /\ Top(u)' = Top(u) /\ result'[u] = result[u]
  BY <1>1, <1>2, Others DEF Top
<1>3. /\ Top(t)'.at = "unlockTrue" => status'[Top(t)'.class] = INITIALIZED
      /\ (result'[t] # NoResult /\ result'[t].ok) =>
            \/ status'[result'[t].class] = INITIALIZED
            \/ status'[result'[t].class] = INITIALIZING /\ owner'[result'[t].class] = t
  BY Mine
<1>4. \A c \in Classes :
        /\ status[c] = INITIALIZED => status'[c] = INITIALIZED
        /\ \A u \in Threads \ {t} :
              owner[c] = u /\ status[c] = INITIALIZING => owner'[c] = u /\ status'[c] = INITIALIZING
  BY <1>1, OnlyTheOwner, ClassInitAssumption
<1>5. ASSUME NEW u \in Threads \ {t}, Top(u).at = "unlockTrue" PROVE status'[Top(u).class] = INITIALIZED
  <2>1. Top(u).class \in Classes
    BY <1>1, <1>5, HasClass
  <2> QED
    BY <1>4, <1>5, <2>1 DEF UsableInv, Finished
<1>6. ASSUME NEW u \in Threads \ {t}, result[u] # NoResult, result[u].ok
      PROVE  \/ status'[result[u].class] = INITIALIZED
             \/ status'[result[u].class] = INITIALIZING /\ owner'[result[u].class] = u
  <2>1. result[u].class \in Classes
    BY <1>1, <1>6 DEF IInv, TypeOK
  <2> QED
    BY <1>4, <1>6, <2>1 DEF UsableInv, TrueMeansUsable
<1>7. Finished'
  BY <1>2, <1>3, <1>5 DEF Finished
<1>8. TrueMeansUsable'
  BY <1>2, <1>3, <1>6 DEF TrueMeansUsable
<1> QED
  BY <1>1, <1>7, <1>8 DEF UsableInv

(***************************************************************************)
(* When initializeClass returns true its class is initialised, or is being *)
(* initialised by this very thread, and stays so until the caller goes on  *)
(* (lines 105, 110, 114 and 188).                                          *)
(***************************************************************************)
THEOREM TrueIsUsable == Spec => []TrueMeansUsable
<1>1. Init => UsableInv
  <2> SUFFICES ASSUME Init PROVE UsableInv
    OBVIOUS
  <2>1. \A t \in Threads : Top(t).at = "code"
    BY DEF Init, Top, Last
  <2> QED
    BY <2>1, InvInit DEF UsableInv, Finished, TrueMeansUsable, Init
<1>2. UsableInv /\ [Next]_vars => UsableInv'
  <2>1. ASSUME UsableInv, UNCHANGED vars PROVE UsableInv'
    <3>1. UNCHANGED <<status, owner, stack, result>> /\ IInv'
      BY <2>1, InvStutters DEF vars, UsableInv
    <3> QED
      BY <2>1, <3>1 DEF UsableInv, Finished, TrueMeansUsable, Top
  <2> QED
    BY <2>1, UsableKept DEF Next
<1>3. UsableInv => TrueMeansUsable
  BY DEF UsableInv
<1> QED
  BY <1>1, <1>2, <1>3, PTL DEF Spec

-----------------------------------------------------------------------------
(* Superclasses first.                                                     *)

\* A frame that has had its superclass initialised.
ReadyPoints == {"constants", "code", "throw"}

\* Above a frame that initialises its superclass lies the call for that class.
CallsSuper ==
    \A t \in Threads : \A i \in DOMAIN stack[t] : stack[t][i].at = "superCall" =>
        /\ i < Len(stack[t]) => stack[t][i + 1].class = Super[stack[t][i].class]
        /\ (i = Len(stack[t]) /\ result[t] # NoResult) => result[t].class = Super[stack[t][i].class]

\* Its superclass is initialised, or a frame not above it is at work on it.
SuperReady ==
    \A t \in Threads : \A i \in DOMAIN stack[t] :
        (/\ stack[t][i].at \in ReadyPoints
         /\ stack[t][i].class \in Classes
         /\ Super[stack[t][i].class] # NoClass) =>
            \/ status[Super[stack[t][i].class]] = INITIALIZED
            \/ \E j \in 1 .. i : /\ stack[t][j].class = Super[stack[t][i].class]
                                 /\ stack[t][j].at \in WorkPoints

SuperInv == UsableInv /\ CallsSuper /\ SuperReady

\* Usable, for t, as TrueMeansUsable says it.
UsableFor(t, c) == status[c] = INITIALIZED \/ (status[c] = INITIALIZING /\ owner[c] = t)

LEMMA SuperOfOthers ==
    ASSUME SuperInv, NEW t \in Threads, InitializeClass(t) \/ Bytecode(t), NEW u \in Threads \ {t}
    PROVE  \A i \in DOMAIN stack'[u] :
              /\ stack'[u][i].at = "superCall" =>
                    /\ i < Len(stack'[u]) => stack'[u][i + 1].class = Super[stack'[u][i].class]
                    /\ (i = Len(stack'[u]) /\ result'[u] # NoResult) =>
                          result'[u].class = Super[stack'[u][i].class]
              /\ (/\ stack'[u][i].at \in ReadyPoints
                  /\ stack'[u][i].class \in Classes
                  /\ Super[stack'[u][i].class] # NoClass) =>
                    \/ status'[Super[stack'[u][i].class]] = INITIALIZED
                    \/ \E j \in 1 .. i : /\ stack'[u][j].class = Super[stack'[u][i].class]
                                         /\ stack'[u][j].at \in WorkPoints
<1>1. stack'[u] = stack[u] /\ result'[u] = result[u]
  BY Others DEF SuperInv, UsableInv
<1>2. \A c \in Classes : status[c] = INITIALIZED => status'[c] = INITIALIZED
  BY OnlyTheOwner DEF SuperInv, UsableInv
<1>3. \A c \in Classes : Super[c] # NoClass => Super[c] \in Classes
  BY ClassInitAssumption
<1> QED
  BY <1>1, <1>2, <1>3 DEF SuperInv, CallsSuper, SuperReady

LEMMA SuperMoves ==
    ASSUME SuperInv, NEW t \in Threads, InitializeClass(t) \/ Bytecode(t),
           NEW point, MovesTo(t, point),
           point = "superCall" =>
              /\ Len(stack'[t]) = Len(stack[t]) + 1
              /\ stack'[t][Len(stack[t]) + 1].class = Super[Top(t).class],
           (point \in ReadyPoints /\ Top(t).class \in Classes /\ Super[Top(t).class] # NoClass) =>
              Top(t).at \in ReadyPoints \/ UsableFor(t, Super[Top(t).class])
    PROVE  CallsSuper' /\ SuperReady'
<1> DEFINE n == Len(stack[t])
           m == Len(stack'[t])
           c == Top(t).class
<1>0. IInv /\ TypeOK
  BY DEF SuperInv, UsableInv, IInv
<1>1. /\ n \in Nat \ {0} /\ DOMAIN stack[t] = 1 .. n /\ Top(t) = stack[t][n]
      /\ DOMAIN stack'[t] = 1 .. m
  <2>1. stack'[t] \in Seq(Frame)
    BY DEF MovesTo
  <2> QED
    BY <1>0, <2>1, StackOf, LenProperties
<1>2. /\ \A i \in 1 .. n - 1 : stack'[t][i] = stack[t][i]
      /\ stack'[t][n].class = c /\ stack'[t][n].at = point
      /\ m = n \/ (m = n + 1 /\ stack'[t][n + 1].at = "self")
  BY DEF MovesTo
<1>3. point = "superCall" => m = n + 1 /\ stack'[t][n + 1].class = Super[c]
  OBVIOUS
<1>4. \A d \in Classes : /\ status[d] = INITIALIZED => status'[d] = INITIALIZED
                         /\ Super[d] # NoClass => Super[d] \in Classes
  BY <1>0, OnlyTheOwner, ClassInitAssumption
<1>5. stack[t][n].class = c /\ stack[t][n].at = Top(t).at
  BY <1>1
<1>6. ASSUME point \in ReadyPoints, c \in Classes, Super[c] # NoClass
      PROVE  \/ status[Super[c]] = INITIALIZED
             \/ \E j \in 1 .. n : stack[t][j].class = Super[c] /\ stack[t][j].at \in WorkPoints
  <2>1. CASE Top(t).at \in ReadyPoints
    BY <1>1, <1>6, <2>1 DEF SuperInv, SuperReady
  <2>2. CASE status[Super[c]] = INITIALIZING /\ owner[Super[c]] = t
    <3>1. Working(t, Super[c])
      BY <1>0, <1>4, <1>6, <2>2 DEF IInv, InitializingIsOwned
    <3> QED
      BY <3>1 DEF Working, Frames, WorkPoints
  <2> QED
    BY <1>6, <2>1, <2>2 DEF UsableFor
<1>11. \A k \in 1 .. n : stack[t][k].at = "superCall" /\ k < n =>
                            stack[t][k + 1].class = Super[stack[t][k].class]
  BY <1>1 DEF SuperInv, CallsSuper
<1> HIDE DEF n, m, c
<1>12. m = n \/ m = n + 1
  BY <1>2
<1>13. \A k \in 1 .. m : k < n - 1 =>
          k \in 1 .. n - 1 /\ k \in 1 .. n /\ k + 1 \in 1 .. n - 1 /\ k < n /\ k < m
  BY <1>1, <1>12
<1>14. \A k \in 1 .. m : k = n - 1 =>
          k \in 1 .. n - 1 /\ k \in 1 .. n /\ k + 1 = n /\ k < n /\ k < m
  BY <1>1, <1>12
<1>7. ASSUME NEW i \in DOMAIN stack'[t], stack'[t][i].at = "superCall"
      PROVE  /\ i < m => stack'[t][i + 1].class = Super[stack'[t][i].class]
             /\ i # m
  <2>1. CASE i < n - 1
    <3>1. i \in 1 .. n - 1 /\ i \in 1 .. n /\ i + 1 \in 1 .. n - 1 /\ i < n /\ i < m
      BY <1>1, <1>13, <2>1, Zenon
    <3> QED
      BY <1>2, <1>7, <1>11, <3>1
  <2>2. CASE i = n - 1
    <3>1. i \in 1 .. n - 1 /\ i \in 1 .. n /\ i + 1 = n /\ i < n /\ i < m
      BY <1>1, <1>14, <2>2, Zenon
    <3> QED
      BY <1>2, <1>5, <1>7, <1>11, <1>12, <1>1, <3>1
  <2>3. CASE i = n
    BY <1>1, <1>2, <1>3, <1>7, <2>3
  <2>4. (i \in 1 .. m /\ i < n - 1) \/ i = n - 1 \/ i = n \/ i = n + 1
    BY <1>1, <1>2
  <2> QED
    BY <1>1, <1>2, <1>7, <2>1, <2>2, <2>3, <2>4
<1>8. ASSUME NEW i \in DOMAIN stack'[t], stack'[t][i].at \in ReadyPoints,
             stack'[t][i].class \in Classes, Super[stack'[t][i].class] # NoClass
      PROVE  \/ status'[Super[stack'[t][i].class]] = INITIALIZED
             \/ \E j \in 1 .. i : /\ stack'[t][j].class = Super[stack'[t][i].class]
                                  /\ stack'[t][j].at \in WorkPoints
  <2>1. CASE i < n
    <3>1. i \in 1 .. n - 1 /\ i \in 1 .. n /\ \A j \in 1 .. i : j \in 1 .. n - 1
      BY <1>1, <2>1
    <3>2. stack'[t][i] = stack[t][i]
      BY <1>2, <3>1
    <3>3. \/ status[Super[stack[t][i].class]] = INITIALIZED
          \/ \E j \in 1 .. i : /\ stack[t][j].class = Super[stack[t][i].class]
                               /\ stack[t][j].at \in WorkPoints
      BY <1>1, <1>8, <3>1, <3>2 DEF SuperInv, SuperReady
    <3> QED
      BY <1>2, <1>4, <1>8, <3>1, <3>2, <3>3
  <2>2. CASE i = n
    <3>1. point \in ReadyPoints /\ c \in Classes /\ Super[c] # NoClass
      BY <1>2, <1>8, <2>2
    <3>2. CASE status[Super[c]] = INITIALIZED
      BY <1>2, <1>4, <2>2, <3>1, <3>2
    <3>3. ASSUME NEW j \in 1 .. n, stack[t][j].class = Super[c], stack[t][j].at \in WorkPoints
          PROVE  stack'[t][j].class = Super[c] /\ stack'[t][j].at \in WorkPoints
      <4>1. CASE j = n
        BY <1>2, <1>5, <3>1, <3>3, <4>1 DEF ReadyPoints, WorkPoints
      <4>2. CASE j # n
        <5>1. j \in 1 .. n - 1
          BY <1>1, <4>2
        <5> QED
          BY <1>2, <3>3, <5>1
      <4> QED
        BY <4>1, <4>2
    <3> QED
      BY <1>2, <1>6, <2>2, <3>1, <3>2, <3>3
  <2>3. CASE i = n + 1
    BY <1>1, <1>2, <1>8, <2>3 DEF ReadyPoints
  <2> QED
    BY <1>1, <1>2, <2>1, <2>2, <2>3
<1>9. CallsSuper'
  BY <1>7, SuperOfOthers DEF CallsSuper, m
<1>10. SuperReady'
  BY <1>8, SuperOfOthers DEF SuperReady
<1> QED
  BY <1>9, <1>10

LEMMA SuperReturns ==
    ASSUME SuperInv, NEW t \in Threads, InitializeClass(t) \/ Bytecode(t),
           NEW ok \in BOOLEAN, Return(t, ok), Top(t).at \notin WorkPoints
    PROVE  CallsSuper' /\ SuperReady'
<1> DEFINE s == stack[t]
           n == Len(s)
           q == Front(s)
<1>0. IInv /\ TypeOK
  BY DEF SuperInv, UsableInv, IInv
<1>1. /\ s \in Seq(Frame) /\ s # <<>> /\ n \in Nat \ {0} /\ DOMAIN s = 1 .. n /\ Top(t) = s[n]
      /\ Top(t).class \in Classes
  BY <1>0, StackOf, ReturnFrames
<1>2. /\ q \in Seq(Frame) /\ Len(q) = n - 1 /\ DOMAIN q = 1 .. n - 1
      /\ \A i \in 1 .. n - 1 : q[i] = s[i]
  BY <1>1, FrontOf, LenProperties
<1>3. stack'[t] = q /\ result'[t] = [class |-> s[n].class, ok |-> ok]
  BY <1>0, <1>1 DEF Return, TypeOK
<1>4. \A d \in Classes : /\ status[d] = INITIALIZED => status'[d] = INITIALIZED
                         /\ Super[d] # NoClass => Super[d] \in Classes
  BY <1>0, OnlyTheOwner, ClassInitAssumption
<1>5. \A i \in DOMAIN s : s[i].at = "superCall" /\ i < n => s[i + 1].class = Super[s[i].class]
  BY DEF SuperInv, CallsSuper
<1>6. \A i \in DOMAIN s :
        (s[i].at \in ReadyPoints /\ s[i].class \in Classes /\ Super[s[i].class] # NoClass) =>
            \/ status[Super[s[i].class]] = INITIALIZED
            \/ \E j \in 1 .. i : s[j].class = Super[s[i].class] /\ s[j].at \in WorkPoints
  BY DEF SuperInv, SuperReady
<1> HIDE DEF s, n, q
<1>7. ASSUME NEW i \in DOMAIN q, q[i].at = "superCall"
      PROVE  /\ i < Len(q) => q[i + 1].class = Super[q[i].class]
             /\ i = Len(q) => s[n].class = Super[q[i].class]
  <2>1. i \in 1 .. n - 1 /\ i \in DOMAIN s /\ i < n
    BY <1>1, <1>2
  <2>2. q[i] = s[i] /\ s[i + 1].class = Super[s[i].class]
    BY <1>2, <1>5, <1>7, <2>1
  <2>3. i < Len(q) => i + 1 \in 1 .. n - 1
    BY <1>1, <1>2, <2>1
  <2>4. i = Len(q) => i + 1 = n
    BY <1>1, <1>2
  <2> QED
    BY <1>2, <2>2, <2>3, <2>4
<1>8. ASSUME NEW i \in DOMAIN q, q[i].at \in ReadyPoints, q[i].class \in Classes,
             Super[q[i].class] # NoClass
      PROVE  \/ status'[Super[q[i].class]] = INITIALIZED
             \/ \E j \in 1 .. i : q[j].class = Super[q[i].class] /\ q[j].at \in WorkPoints
  <2>1. i \in 1 .. n - 1 /\ i \in DOMAIN s /\ \A j \in 1 .. i : j \in 1 .. n - 1
    BY <1>1, <1>2
  <2> QED
    BY <1>2, <1>4, <1>6, <1>8, <2>1
<1>9. CallsSuper'
  BY <1>3, <1>7, SuperOfOthers DEF CallsSuper
<1>10. SuperReady'
  BY <1>3, <1>8, SuperOfOthers DEF SuperReady
<1> QED
  BY <1>9, <1>10

LEMMA SuperKept ==
    ASSUME SuperInv, NEW t \in Threads, InitializeClass(t) \/ Bytecode(t)
    PROVE  SuperInv'
<1> DEFINE c == Top(t).class
           Goal == CallsSuper' /\ SuperReady'
<1>0. IInv /\ TypeOK /\ UsableInv'
  BY UsableKept DEF SuperInv, UsableInv, IInv
<1>1. ASSUME NEW point \in Points \ {"superCall"}, Goto(t, point),
             point \in ReadyPoints => \/ Top(t).at \in ReadyPoints
                                      \/ Super[c] = NoClass
                                      \/ UsableFor(t, Super[c])
      PROVE  Goal
  BY <1>0, <1>1, GotoMoves, SuperMoves
<1>2. ASSUME NEW point \in CallPoints \ {"superCall"}, NEW d \in Classes, CallThen(t, d, point),
             point \in ReadyPoints => Top(t).at \in ReadyPoints
      PROVE  Goal
  BY <1>0, <1>2, CallMoves, SuperMoves
<1>3. ASSUME UNCHANGED stack, Top(t).at \in {"code", "throw", "throwConstant"}
      PROVE  Goal
  <2>1. MovesTo(t, Top(t).at)
    BY <1>0, <1>3, StayMoves
  <2>2. Top(t).at # "superCall"
    BY <1>3
  <2> QED
    BY <2>1, <2>2, SuperMoves
<1>4. ASSUME NEW ok \in BOOLEAN, Return(t, ok),
             Top(t).at \in {"self", "recheck", "unlockTrue", "unlockFalse"}
      PROVE  Goal
  BY <1>4, SuperReturns DEF WorkPoints
<1> HIDE DEF Goal
<1> USE DEF At, CallPoints, Points, ReadyPoints
<1>5. ASSUME CheckSelf(t) \/ Recheck(t) PROVE Goal
  BY <1>1, <1>4, <1>5 DEF CheckSelf, Recheck
<1>6. ASSUME BusyWait(t) \/ Lock(t) \/ Begin(t) PROVE Goal
  BY <1>1, <1>6 DEF BusyWait, Lock, Begin
<1>7. ASSUME CallSuper(t) PROVE Goal
  <2>1. CASE Super[c] = NoClass
    BY <1>1, <1>7, <2>1 DEF CallSuper
  <2>2. CASE Super[c] # NoClass
    <3>1. CallThen(t, Super[c], "superCall") /\ Super[c] \in Classes
      <4>1. c \in Classes
        BY <1>0, <1>7, HasClass DEF CallSuper
      <4> QED
        BY <1>7, <2>2, <4>1, ClassInitAssumption DEF CallSuper
    <3>2. MovesTo(t, "superCall")
      BY <1>0, <3>1, CallMoves
    <3>3. Top(t)'.at = "self" /\ Top(t)'.class = Super[c] /\ Top(t)' = stack'[t][Len(stack'[t])]
      BY <1>0, <3>1, CallTop DEF Top, Last
    <3>4. Len(stack'[t]) = Len(stack[t]) + 1
      BY <3>2, <3>3 DEF MovesTo
    <3> QED
      BY <3>2, <3>3, <3>4, SuperMoves DEF Goal
  <2> QED
    BY <2>1, <2>2
<1>8. ASSUME SuperReturned(t) PROVE Goal
  <2>1. CASE Goto(t, "constants") /\ Returned(t, TRUE)
    <3>1. Len(stack[t]) \in DOMAIN stack[t] /\ Top(t) = stack[t][Len(stack[t])] /\ Top(t).at = "superCall"
      BY <1>0, <1>8, StackOf DEF SuperReturned
    <3>2. result[t] # NoResult /\ result[t].ok /\ result[t].class = Super[c]
      BY <2>1, <3>1 DEF Returned, SuperInv, CallsSuper
    <3>3. UsableFor(t, Super[c])
      BY <3>2 DEF SuperInv, UsableInv, TrueMeansUsable, UsableFor
    <3> QED
      BY <1>1, <2>1, <3>3
  <2>2. CASE Goto(t, "unlockFalse")
    BY <1>1, <2>2
  <2> QED
    BY <1>8, <2>1, <2>2 DEF SuperReturned
<1>9. ASSUME Constants(t) \/ ClinitReturns(t) \/ ClinitThrows(t) PROVE Goal
  BY <1>1, <1>9 DEF Constants, ClinitReturns, ClinitThrows
<1>10. ASSUME StringFails(t) PROVE Goal
  BY <1>2, <1>10, ClassInitAssumption DEF StringFails
<1>11. ASSUME Leave(t) PROVE Goal
  BY <1>4, <1>11 DEF Leave
<1>12. ASSUME Trigger(t) PROVE Goal
  <2>1. Triggers[c] \subseteq Classes
    BY <1>0, StackOf, ClassInitAssumption DEF Frame
  <2> QED
    BY <1>2, <1>12, <2>1 DEF Trigger
<1>13. ASSUME TriggerReturned(t) PROVE Goal
  BY <1>2, <1>3, <1>13, ClassInitAssumption DEF TriggerReturned
<1>14. ASSUME Thrown(t) PROVE Goal
  BY <1>1, <1>3, <1>14 DEF Thrown
<1>15. Goal
  BY <1>5, <1>6, <1>7, <1>8, <1>9, <1>10, <1>11, <1>12, <1>13, <1>14
     DEF InitializeClass, Bytecode
<1> QED
  BY <1>0, <1>15 DEF Goal, SuperInv

(***************************************************************************)
(* While the initialiser of a class runs, its superclass is initialised,   *)
(* or this very thread is at it further down its stack (line 121).         *)
(***************************************************************************)
THEOREM SuperclassFirst == Spec => []SuperFirst
<1>1. Init => SuperInv
  <2> SUFFICES ASSUME Init PROVE SuperInv
    OBVIOUS
  <2>1. \A t \in Threads : Top(t).at = "code"
    BY DEF Init, Top, Last
  <2>2. UsableInv
    BY <2>1, InvInit DEF UsableInv, Finished, TrueMeansUsable, Init
  <2>3. \A t \in Threads : \A i \in DOMAIN stack[t] :
            stack[t][i].class = NoClass /\ stack[t][i].at = "code"
    BY DEF Init
  <2> QED
    BY <2>2, <2>3, ClassInitAssumption DEF SuperInv, CallsSuper, SuperReady
<1>2. SuperInv /\ [Next]_vars => SuperInv'
  <2>1. ASSUME SuperInv, UNCHANGED vars PROVE SuperInv'
    <3>1. UNCHANGED <<status, owner, stack, result>> /\ IInv'
      BY <2>1, InvStutters DEF vars, SuperInv, UsableInv
    <3>2. UsableInv'
      BY <2>1, <3>1 DEF SuperInv, UsableInv, Finished, TrueMeansUsable, Top
    <3> QED
      BY <2>1, <3>1, <3>2 DEF SuperInv, CallsSuper, SuperReady
  <2> QED
    BY <2>1, SuperKept DEF Next
<1>3. SuperInv => SuperFirst
  <2> SUFFICES ASSUME SuperInv, NEW t \in Threads, NEW i \in 1 .. Len(stack[t]),
                      stack[t][i].class # NoClass, InCode(stack[t][i]),
                      Super[stack[t][i].class] # NoClass
               PROVE  UsableFor(t, Super[stack[t][i].class])
    BY DEF SuperFirst, UsableFor, Frames
  <2>1. IInv /\ TypeOK
    BY DEF SuperInv, UsableInv, IInv
  <2>2. DOMAIN stack[t] = 1 .. Len(stack[t]) /\ stack[t] \in Seq(Frame) /\ Len(stack[t]) \in Nat
    BY <2>1, StackOf
  <2>3. stack[t][i].class \in Classes /\ Super[stack[t][i].class] \in Classes
    <3>1. stack[t][i] \in Frame
      BY <2>2, ElementOfSeq
    <3> QED
      BY <3>1, ClassInitAssumption DEF Frame
  <2>4. ASSUME NEW j \in 1 .. i, stack[t][j].class = Super[stack[t][i].class],
               stack[t][j].at \in WorkPoints
        PROVE  Working(t, Super[stack[t][i].class])
    <3>1. j \in 1 .. Len(stack[t])
      BY <2>2
    <3> QED
      BY <2>4, <3>1 DEF Working, Frames, WorkPoints
  <2> QED
    BY <2>1, <2>2, <2>3, <2>4
       DEF SuperInv, SuperReady, InCode, ReadyPoints, IInv, InitializingIsOwned, UsableFor
<1> QED
  BY <1>1, <1>2, <1>3, PTL DEF Spec

-----------------------------------------------------------------------------
(* The composition with the stop-the-world protocol.                       *)

\* Safepoint once more, with the theorems about it.
P == INSTANCE SafepointProofs

-----------------------------------------------------------------------------
(* The composition does nothing that its parts do not do.                  *)

LEMMA ProtocolNext == [GCNext]_allVars => [S!Next]_safepointVars
<1> SUFFICES ASSUME [GCNext]_allVars PROVE [S!Next]_safepointVars
  OBVIOUS
<1> USE DEF safepointVars, S!Next, S!Procs
<1>1. CASE UNCHANGED allVars
  BY <1>1 DEF allVars
<1>2. ASSUME NEW t \in Threads, InitializeStep(t) PROVE UNCHANGED safepointVars
  BY <1>2 DEF InitializeStep
<1>3. ASSUME NEW t \in Threads, BytecodeStep(t) PROVE UNCHANGED safepointVars
  BY <1>3 DEF BytecodeStep
<1>4. ASSUME NEW t \in Threads, NextInstruction(t) PROVE S!Next
  BY <1>4 DEF NextInstruction
<1>5. ASSUME NEW t \in Threads, Allocate(t) PROVE S!Next
  BY <1>5 DEF Allocate, S!Modes
<1>6. ASSUME NEW t \in Threads, Finish(t) PROVE S!Next
  BY <1>6 DEF Finish
<1>7. CASE Other
  BY <1>7 DEF Other
<1> QED
  BY <1>1, <1>2, <1>3, <1>4, <1>5, <1>6, <1>7 DEF GCNext

LEMMA ClassNext == [GCNext]_allVars => [Next]_vars
<1> SUFFICES ASSUME [GCNext]_allVars PROVE [Next]_vars
  OBVIOUS
<1>1. CASE UNCHANGED allVars
  BY <1>1 DEF allVars
<1>2. ASSUME NEW t \in Threads, InitializeStep(t) PROVE Next
  BY <1>2 DEF InitializeStep, Next
<1>3. ASSUME NEW t \in Threads, BytecodeStep(t) PROVE Next
  BY <1>3 DEF BytecodeStep, Next
<1>4. ASSUME NEW t \in Threads, NextInstruction(t) \/ Allocate(t) \/ Finish(t)
      PROVE  UNCHANGED vars
  BY <1>4 DEF NextInstruction, Allocate, Finish
<1>5. CASE Other
  BY <1>5 DEF Other
<1> QED
  BY <1>1, <1>2, <1>3, <1>4, <1>5 DEF GCNext

\* initializeClass interrupted by collections is still the initializeClass of
\* ClassInit (bytecode_interpreter.c:21, 100-197).
LEMMA ImplementsClassInit == GCSpec => Spec
<1>1. GCInit => Init
  BY DEF GCInit
<1> QED
  BY <1>1, ClassNext, PTL DEF GCSpec, Spec

\* Threads that initialise classes keep to the stop-the-world protocol
\* (bytecode_interpreter.c:21, gc.c:38-48).
LEMMA FollowsTheProtocol == GCSpec => S!Spec
<1>1. GCInit => S!Init
  BY DEF GCInit
<1> QED
  BY <1>1, ProtocolNext, PTL DEF GCSpec, S!Spec, safepointVars, S!vars

-----------------------------------------------------------------------------
(* The stopped world.                                                      *)

\* What SafepointProofs takes for granted is what ClassInitGC assumes.
LEMMA SafepointAssumed == P!ThreadsAssumption /\ P!NumbersAssumption
<1>1. P!ThreadsAssumption
  BY ProtocolAssumption DEF P!ThreadsAssumption, P!IsFiniteSet, IsFiniteSet
<1>2. P!Cardinality(Threads) = Cardinality(Threads)
  BY Zenon DEF P!Cardinality, Cardinality
<1>3. P!NumbersAssumption
  BY <1>2, ProtocolAssumption DEF P!NumbersAssumption
<1> QED
  BY <1>1, <1>3

\* S and P are the same module twice.
LEMMA SameInit == S!Init => P!Init
BY DEF S!Init, P!Init, S!Procs, P!Procs, S!NORMAL, P!NORMAL

LEMMA SameCardinality == ASSUME NEW X PROVE P!Cardinality(X) = S!Cardinality(X)
BY Zenon DEF P!Cardinality, S!Cardinality

LEMMA SameNext == [S!Next]_safepointVars => [P!Next]_P!vars
BY SameCardinality
   DEF safepointVars,
       S!numThreads, S!Procs, S!Alive, S!GCHolds, S!InSavePoint, S!Modes,
       S!NORMAL, S!MINOR_ONLY, S!FORCE_MAJOR, S!Increment, S!Decrement,
       S!Larger, S!gcVars, S!threadVars, S!vars,
       P!numThreads, P!Procs, P!Alive, P!GCHolds, P!InSavePoint, P!Modes,
       P!NORMAL, P!MINOR_ONLY, P!FORCE_MAJOR, P!Increment, P!Decrement,
       P!Larger, P!gcVars, P!threadVars, P!vars,
       S!Next, S!Move, S!SavePoint, S!SavePointCheck, S!SavePointCount,
       S!SavePointSpin, S!SavePointResume, S!Spawn, S!ThreadStart, S!Register,
       S!Instruction, S!RequestGC, S!Unregister, S!LauncherStart,
       S!LauncherFail, S!LauncherExit,
       P!Next, P!Move, P!SavePoint, P!SavePointCheck, P!SavePointCount,
       P!SavePointSpin, P!SavePointResume, P!Spawn, P!ThreadStart, P!Register,
       P!Instruction, P!RequestGC, P!Unregister, P!LauncherStart,
       P!LauncherFail, P!LauncherExit,
       S!Collector, S!GCMove, S!GCStart, S!GCLock, S!GCReadThreads,
       S!GCReadWaiting, S!AllWaiting, S!Compared, S!GCRetry, S!GCEnter,
       S!GCClear, S!GCRelease,
       P!Collector, P!GCMove, P!GCStart, P!GCLock, P!GCReadThreads,
       P!GCReadWaiting, P!AllWaiting, P!Compared, P!GCRetry, P!GCEnter,
       P!GCClear, P!GCRelease

\* The composition keeps the world stopped as Safepoint alone does.
LEMMA ProtocolHolds == GCSpec => [](P!StopTheWorld)
<1>1. P!IInv => P!StopTheWorld
  BY P!StopFromInv, SafepointAssumed
<1>2. P!Spec => []P!IInv
  BY P!Invariance, SafepointAssumed
<1>3. S!Spec => P!Spec
  BY SameInit, SameNext, PTL DEF S!Spec, P!Spec, safepointVars, S!vars
<1> QED
  BY <1>1, <1>2, <1>3, FollowsTheProtocol, PTL

\* Classes keep their states and locks while the collector works on a stopped
\* world (bytecode_interpreter.c:21, 184).
THEOREM ClassesKeepStill == GCSpec => ClassesStill
<1> DEFINE Stopped == /\ gcPc = "collect"
                      /\ late = {}
                      /\ counted \subseteq registered
                      /\ \A t \in Threads : pc[t] \in S!InSavePoint \cup {"run"} => t \in registered
           Still == Stopped => UNCHANGED <<status, owner, depth>>
<1>1. ASSUME P!StopTheWorld, [GCNext]_allVars, Stopped
      PROVE  UNCHANGED <<status, owner, depth>>
  <2>1. \A t \in Threads : pc[t] # "run"
    BY <1>1 DEF P!StopTheWorld
  <2>2. CASE UNCHANGED allVars
    BY <2>2 DEF allVars, vars
  <2>3. ASSUME NEW t \in Threads, InitializeStep(t) \/ BytecodeStep(t) PROVE FALSE
    BY <2>1, <2>3 DEF InitializeStep, BytecodeStep, Executing
  <2>4. ASSUME NEW t \in Threads, NextInstruction(t) \/ Allocate(t) \/ Finish(t)
        PROVE  UNCHANGED <<status, owner, depth>>
    BY <2>4 DEF NextInstruction, Allocate, Finish, vars
  <2>5. CASE Other
    BY <2>5 DEF Other, vars
  <2> QED
    BY <1>1, <2>2, <2>3, <2>4, <2>5 DEF GCNext
<1>2. P!StopTheWorld /\ [GCNext]_allVars => [Still]_allVars
  BY <1>1
<1> QED
  BY <1>2, ProtocolHolds, PTL DEF GCSpec, ClassesStill

-----------------------------------------------------------------------------
\* What initializeClass promises to its callers it promises whatever collections
\* interrupt it (bytecode_interpreter.c:105, 109, 114, 121).
THEOREM PromisesKept ==
    GCSpec => [](InitializingIsOwned /\ ClinitExclusive /\ SuperFirst /\ TrueMeansUsable)
BY ImplementsClassInit, InitializationIsOwned, ClinitRunsOnce, SuperclassFirst, TrueIsUsable, PTL
=============================================================================
