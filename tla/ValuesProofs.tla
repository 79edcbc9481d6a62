----------------------------- MODULE ValuesProofs -----------------------------
(***************************************************************************)
(* For which keys the switches of Values take the right entry, whatever    *)
(* the width of a word and however long the table; and on words of any     *)
(* width division truncates and comparisons order.                         *)
(***************************************************************************)
EXTENDS Values, TLAPS

\* The search of lookupswitch keeps an entry below its key at the lower end and
\* one above it behind the upper end, and runs out of entries only at the first.
Narrowing ==
    op = "lookupswitch" =>
        /\ top \in Int
        /\ keys \in Seq(Int)
        /\ Sorted(keys)
        /\ range[1] \in 0 .. Len(keys)
        /\ range[2] \in 0 .. Len(keys)
        /\ out = NoResult => /\ range[1] < range[2] \/ range[2] = 0
                             /\ range[1] > 0 => keys[range[1] + 1] < top
                             /\ range[2] < Len(keys) => keys[range[2] + 1] > top

InTable == op = "tableswitch" => top \in Int /\ keys[1] \in Int /\ keys[2] \in Int /\ keys[1] <= keys[2]

SwitchInv == Narrowing /\ InTable /\ SwitchFinds

LEMMA WordsAreInts == \A w \in Word : w \in Int
BY DEF Word

LEMMA TablesAreSequences == \A s \in Tables : s \in Seq(Int) /\ Sorted(s)
<1> SUFFICES ASSUME NEW s \in Tables PROVE s \in Seq(Int) /\ Sorted(s)
  OBVIOUS
<1>1. PICK n \in 0 .. MaxKeys : s \in [1 .. n -> Word]
  BY DEF Tables
<1>2. n \in Nat /\ s \in [1 .. n -> Int]
  BY <1>1, WordsAreInts, BitsAssumption
<1>3. s \in Seq(Int)
  BY <1>2
<1> QED
  BY <1>3 DEF Tables

\* The middle of a part that is not empty lies in it, before its end.
LEMMA Middle ==
    ASSUME NEW start \in Nat, NEW end \in Nat, start < end
    PROVE  LET mid == start + ((end - start) \div 2)
           IN  mid \in Nat /\ start <= mid /\ mid < end
OBVIOUS

LEMMA SwitchInit == Init => SwitchInv
<1> SUFFICES ASSUME Init PROVE SwitchInv
  OBVIOUS
<1>1. out = NoResult /\ range = <<0, Len(keys)>>
  BY DEF Init
<1>2. CASE op = "lookupswitch"
  <2>1. top \in Word /\ keys \in Tables
    BY <1>2 DEF Init, OnWords, OnFloats
  <2>2. top \in Int /\ keys \in Seq(Int) /\ Sorted(keys)
    BY <2>1, WordsAreInts, TablesAreSequences
  <2> QED
    BY <1>1, <1>2, <2>2 DEF SwitchInv, Narrowing, InTable, SwitchFinds, BelowAll
<1>3. CASE op = "tableswitch"
  <2>1. PICK low, high \in Word : keys = <<low, high>>
    BY <1>3 DEF Init, OnWords, OnFloats
  <2>2. top \in Word /\ low <= high
    BY <1>3, <2>1 DEF Init, OnWords, OnFloats
  <2> QED
    BY <1>1, <1>3, <2>1, <2>2, WordsAreInts DEF SwitchInv, Narrowing, InTable, SwitchFinds
<1>4. CASE op \notin {"lookupswitch", "tableswitch"}
  BY <1>1, <1>4 DEF SwitchInv, Narrowing, InTable, SwitchFinds
<1> QED
  BY <1>2, <1>3, <1>4

\* One call of the search: the entry in the middle is the key, or becomes the
\* new lower end, or the one behind the new upper end.
LEMMA SearchStep == SwitchInv /\ Search => SwitchInv'
<1> SUFFICES ASSUME SwitchInv, Search PROVE SwitchInv'
  OBVIOUS
<1> DEFINE start == range[1]
           end == range[2]
           mid == start + ((end - start) \div 2)
<1>1. /\ op = "lookupswitch" /\ out = NoResult
      /\ op' = op /\ top' = top /\ keys' = keys
  BY DEF Search
<1>2. /\ top \in Int /\ keys \in Seq(Int) /\ Sorted(keys)
      /\ start \in 0 .. Len(keys) /\ end \in 0 .. Len(keys)
      /\ start < end \/ end = 0
      /\ start > 0 => keys[start + 1] < top
      /\ end < Len(keys) => keys[end + 1] > top
  BY <1>1 DEF SwitchInv, Narrowing
<1>3. CASE start >= end /\ out' = Default /\ range' = range
  <2>1. end = 0
    BY <1>2, <1>3
  <2>2. BelowAll
    BY <1>2, <2>1 DEF BelowAll
  <2> QED
    BY <1>1, <1>2, <1>3, <2>2 DEF SwitchInv, Narrowing, InTable, SwitchFinds, BelowAll
<1>4. ASSUME start < end PROVE mid \in Nat /\ start <= mid /\ mid < end /\ mid + 1 \in DOMAIN keys
  <2>1. start \in Nat /\ end \in Nat /\ end <= Len(keys)
    BY <1>2
  <2>2. mid \in Nat /\ start <= mid /\ mid < end
    BY <1>4, <2>1, Middle
  <2> HIDE DEF mid
  <2> QED
    BY <1>2, <2>1, <2>2
<1>5. CASE start < end /\ keys[mid + 1] = top /\ out' = mid /\ range' = range
  <2>1. out' # Default
    BY <1>4, <1>5, OutcomesAssumption
  <2> QED
    BY <1>1, <1>2, <1>4, <1>5, <2>1 DEF SwitchInv, Narrowing, InTable, SwitchFinds
<1>6. CASE start < end /\ keys[mid + 1] < top /\ range' = <<mid, end>> /\ out' = out
  <2> HIDE DEF mid
  <2> QED
    BY <1>1, <1>2, <1>4, <1>6 DEF SwitchInv, Narrowing, InTable, SwitchFinds
<1>7. CASE start < end /\ keys[mid + 1] > top /\ range' = <<start, mid>> /\ out' = out
  <2>1. start < mid \/ mid = 0
    <3>1. CASE start = 0
      BY <1>4, <1>7, <3>1
    <3>2. CASE start > 0
      <4>1. keys[start + 1] < top /\ keys[mid + 1] > top
        BY <1>2, <1>7, <3>2
      <4> HIDE DEF mid
      <4>2. mid # start
        <5>1. keys[start + 1] \in Int
          BY <1>2, <1>7
        <5> QED
          BY <1>2, <4>1, <5>1
      <4> QED
        BY <1>2, <1>4, <1>7, <4>2
    <3> QED
      BY <1>2, <3>1, <3>2
  <2> HIDE DEF mid
  <2> QED
    BY <1>1, <1>2, <1>4, <1>7, <2>1 DEF SwitchInv, Narrowing, InTable, SwitchFinds
<1> QED
  BY <1>3, <1>5, <1>6, <1>7 DEF Search

\* tableswitch: a quarter of the distance from the lowest key is the distance
\* for the lowest key only.
LEMMA TableStep == SwitchInv /\ TableSwitch => SwitchInv'
<1> SUFFICES ASSUME SwitchInv, TableSwitch PROVE SwitchInv'
  OBVIOUS
<1> DEFINE at == top - keys[1]
<1>1. /\ op = "tableswitch" /\ op' = op /\ top' = top /\ keys' = keys
      /\ out' = IF top < keys[1] \/ top > keys[2] THEN Default
                ELSE IF at % 4 = 0 THEN at \div 4 ELSE Torn
  BY DEF TableSwitch
<1>2. top \in Int /\ keys[1] \in Int /\ keys[2] \in Int /\ keys[1] <= keys[2]
  BY <1>1 DEF SwitchInv, InTable
<1>3. at \in Int /\ (at = 0 <=> top = keys[1])
  BY <1>2
<1>4. top \notin keys[1] .. keys[2] => out' = Default
  BY <1>1, <1>2
<1>5. ASSUME top \in keys[1] .. keys[2] PROVE out' = at <=> at = 0
  <2>1. out' = IF at % 4 = 0 THEN at \div 4 ELSE Torn
    BY <1>1, <1>2, <1>5
  <2> HIDE DEF at
  <2>2. at % 4 = 0 => (at \div 4 = at <=> at = 0)
    BY <1>3
  <2>3. Torn # at
    BY <1>3, OutcomesAssumption
  <2> QED
    BY <1>3, <2>1, <2>2, <2>3
<1>6. SwitchFinds'
  BY <1>1, <1>3, <1>4, <1>5 DEF SwitchFinds
<1> QED
  BY <1>1, <1>2, <1>6 DEF SwitchInv, Narrowing, InTable

LEMMA SwitchNext == SwitchInv /\ [Next]_vars => SwitchInv'
<1> SUFFICES ASSUME SwitchInv, [Next]_vars PROVE SwitchInv'
  OBVIOUS
<1>1. CASE Compute
  BY <1>1 DEF SwitchInv, Narrowing, InTable, SwitchFinds, BelowAll, Compute, OnWords, OnFloats
<1>2. CASE UNCHANGED vars
  BY <1>2 DEF SwitchInv, Narrowing, InTable, SwitchFinds, BelowAll, Sorted, vars
<1> QED
  BY <1>1, <1>2, SearchStep, TableStep DEF Next

(***************************************************************************)
(* On words of any width and tables of any length: when                    *)
(* lookupswitch_binary_search comes back it has found the entry of the     *)
(* key, or the key is below the whole table, although its upper half       *)
(* begins with an entry it has ruled out; tableswitch tells the keys       *)
(* outside its table and gives its own entry to the lowest key only.       *)
(***************************************************************************)
THEOREM SwitchesFind == Spec => []SwitchFinds
<1>1. SwitchInv => SwitchFinds
  BY DEF SwitchInv
<1> QED
  BY SwitchInit, SwitchNext, <1>1, PTL DEF Spec

-----------------------------------------------------------------------------
(* Arithmetic.                                                             *)

Half == 2^(Bits - 1)

LEMMA WordRange == Half \in Nat /\ Half > 0 /\ 2^Bits = 2 * Half /\ Word = -Half .. Half - 1
BY PowerAssumption DEF Half, Word

\* An integer that fits into a word is not changed by cutting it to one.
LEMMA SignedFits == ASSUME NEW n \in Word PROVE Signed(n, Bits) = n
<1>1. n \in Int /\ -Half <= n /\ n < Half
  BY WordRange
<1>2. n % (2 * Half) = IF n < 0 THEN n + 2 * Half ELSE n
  BY <1>1, WordRange
<1> QED
  BY <1>1, <1>2, WordRange DEF Signed, Half

LEMMA Division ==
    ASSUME NEW a \in Nat, NEW b \in Nat, b > 0
    PROVE  /\ a \div b \in Nat /\ a % b \in Nat
           /\ a = (a \div b) * b + (a % b)
           /\ a % b < b
           /\ (a \div b) <= a
           /\ (b >= 2 /\ a > 0) => (a \div b) < a
<1>1. a \div b \in Nat /\ a % b \in Nat /\ a = b * (a \div b) + (a % b) /\ a % b < b
  OBVIOUS
<1> DEFINE k == a \div b
<1>2. k <= b * k
  BY <1>1
<1>3. b >= 2 => 2 * k <= b * k
  BY <1>1
<1> HIDE DEF k
<1>4. b * k = k * b
  BY <1>1 DEF k
<1> QED
  BY <1>1, <1>2, <1>3, <1>4 DEF k

LEMMA Sides ==
    ASSUME NEW n \in Int
    PROVE  /\ Abs(n) \in Nat
           /\ \/ n > 0 /\ Sign(n) = 1 /\ Abs(n) = n
              \/ n = 0 /\ Sign(n) = 0 /\ Abs(n) = 0
              \/ n < 0 /\ Sign(n) = -1 /\ Abs(n) = -n
BY DEF Abs, Sign

\* A product of two integers, by the signs of its factors.
LEMMA Products ==
    ASSUME NEW k \in Int, NEW n \in Int
    PROVE  k * n \in Int /\ k * (-n) = -(k * n) /\ (-k) * n = -(k * n) /\ (-k) * (-n) = k * n
OBVIOUS

\* Division as the instruction of the processor does it: the quotient fits into
\* a word, truncates, and leaves the remainder.
LEMMA QuotientTruncates ==
    ASSUME next \in Word, top \in Word, Divisible(next, top)
    PROVE  /\ Quotient(next, top) \in Word
           /\ Truncates(Quotient(next, top))
           /\ next = Quotient(next, top) * top + Remainder(next, top)
<1> DEFINE a == Abs(next)
           b == Abs(top)
           k == a \div b
           r == a % b
           m == k * b
           q == Quotient(next, top)
           s == Sign(next) * Sign(top)
<1>1. /\ next \in Int /\ -Half <= next /\ next < Half
      /\ top \in Int /\ -Half <= top /\ top < Half
      /\ top # 0 /\ ~(next = -Half /\ top = -1)
  BY WordRange DEF Divisible, Half
<1>2. /\ a \in Nat /\ b \in Nat /\ b > 0
      /\ \/ next > 0 /\ Sign(next) = 1 /\ a = next
         \/ next = 0 /\ Sign(next) = 0 /\ a = 0
         \/ next < 0 /\ Sign(next) = -1 /\ a = -next
      /\ \/ top > 0 /\ Sign(top) = 1 /\ b = top
         \/ top < 0 /\ Sign(top) = -1 /\ b = -top
  BY <1>1, Sides
<1> HIDE DEF a, b
<1>3. k \in Nat /\ r \in Nat /\ m \in Int /\ a = m + r /\ r < b /\ k <= a /\ (b >= 2 /\ a > 0 => k < a)
  BY <1>2, Division
<1>4. q = s * k /\ Remainder(next, top) = Sign(next) * r
  BY DEF Quotient, Remainder, a, b
<1>5. a = 0 => m = 0 /\ k = 0 /\ r = 0
  BY <1>2, <1>3
<1>6. k * (-b) = -m /\ (-k) * b = -m /\ (-k) * (-b) = m
  BY <1>2, <1>3, Products
<1>7. m >= 0 /\ (k = 0 => m = 0)
  BY <1>2, <1>3
<1> HIDE DEF k, r, s, q
<1>8. /\ \/ next > 0 /\ top > 0 /\ s = 1 /\ q = k /\ q * top = m
         \/ next > 0 /\ top < 0 /\ s = -1 /\ q = -k /\ q * top = m
         \/ next < 0 /\ top > 0 /\ s = -1 /\ q = -k /\ q * top = -m
         \/ next < 0 /\ top < 0 /\ s = 1 /\ q = k /\ q * top = -m
         \/ next = 0 /\ s = 0 /\ q = 0 /\ q * top = 0
  <2>1. CASE next = 0
    <3>1. s = 0
      BY <1>1, <1>2, <2>1 DEF s
    <3> QED
      BY <1>1, <1>3, <1>4, <2>1, <3>1
  <2>2. CASE next > 0 /\ top > 0
    BY <1>1, <1>2, <1>3, <1>4, <2>2 DEF s
  <2>3. CASE next > 0 /\ top < 0
    <3>1. s = -1 /\ top = -b
      BY <1>1, <1>2, <2>3 DEF s
    <3>2. q = -k
      BY <1>3, <1>4, <3>1
    <3> QED
      BY <1>6, <2>3, <3>1, <3>2
  <2>4. CASE next < 0 /\ top > 0
    <3>1. s = -1 /\ top = b
      BY <1>1, <1>2, <2>4 DEF s
    <3>2. q = -k
      BY <1>3, <1>4, <3>1
    <3> QED
      BY <1>6, <2>4, <3>1, <3>2
  <2>5. CASE next < 0 /\ top < 0
    <3>1. s = 1 /\ top = -b
      BY <1>1, <1>2, <2>5 DEF s
    <3>2. q = k
      BY <1>3, <1>4, <3>1
    <3> QED
      BY <1>6, <2>5, <3>1, <3>2
  <2> QED
    BY <1>1, <2>1, <2>2, <2>3, <2>4, <2>5
<1> HIDE DEF m
<1>9. q \in Word
  BY <1>1, <1>2, <1>3, <1>8, WordRange
<1>10. Truncates(q)
  <2>1. q \in Int /\ q * top \in Int /\ Abs(q * top) = m
    BY <1>1, <1>3, <1>5, <1>7, <1>8, <1>2 DEF Abs
  <2>2. q # 0 => Sign(q) = s
    BY <1>3, <1>8 DEF Sign
  <2> QED
    BY <1>2, <1>3, <2>1, <2>2 DEF Truncates, a, b, s
<1>11. next = q * top + Remainder(next, top)
  BY <1>1, <1>2, <1>3, <1>4, <1>5, <1>8
<1> QED
  BY <1>9, <1>10, <1>11 DEF q

Operands ==
    /\ op \in OnWords => next \in Word /\ top \in Word
    /\ op \in OnFloats => next \in {NaN, -1, 0, 1} /\ top \in {NaN, -1, 0, 1}

ArithmeticInv == Operands /\ ArithmeticLaws

LEMMA ComputeObeys == ArithmeticInv /\ Compute => ArithmeticInv'
<1> SUFFICES ASSUME ArithmeticInv, Compute PROVE ArithmeticInv'
  OBVIOUS
<1>1. /\ op \in OnWords \cup OnFloats
      /\ op' = op /\ next' = next /\ top' = top
      /\ out' = ResultOf(op, next, top)
  BY DEF Compute
<1>2. Operands
  BY DEF ArithmeticInv
<1>3. Operands'
  BY <1>1, <1>2 DEF Operands, Word
<1>4. (op = "div" /\ Divisible(next, top)) => out' \in Word /\ Truncates(out')
  <2> HAVE op = "div" /\ Divisible(next, top)
  <2>1. out' = Quotient(next, top)
    BY <1>1 DEF ResultOf
  <2> QED
    BY <1>2, <2>1, QuotientTruncates DEF Operands, OnWords
<1>5. (op = "rem" /\ Divisible(next, top)) => \E q \in Word : Truncates(q) /\ next = q * top + out'
  <2> HAVE op = "rem" /\ Divisible(next, top)
  <2>1. out' = Remainder(next, top)
    BY <1>1 DEF ResultOf
  <2> QED
    BY <1>2, <2>1, QuotientTruncates DEF Operands, OnWords
<1>6. (op = "lcmp" /\ next - top \in Word) => out' = Sign(next - top)
  <2> HAVE op = "lcmp" /\ next - top \in Word
  <2>1. next \in Int /\ top \in Int
    BY <1>2, WordsAreInts DEF Operands, OnWords
  <2>2. Signed(next - top, Bits) = next - top
    BY SignedFits
  <2>3. out' = LET d == next - top IN IF d < -1 THEN -1 ELSE IF d > 1 THEN 1 ELSE d
    BY <1>1, <2>2 DEF ResultOf, Compared
  <2> QED
    BY <2>1, <2>3 DEF Sign
<1>7. (op \in OnFloats /\ NaN \notin {next, top}) => out' = Sign(next - top)
  BY <1>1 DEF ResultOf, Compared, OnFloats
<1>8. ArithmeticLaws'
  <2>1. ASSUME NEW q PROVE Truncates(q)' <=> Truncates(q)
    BY <1>1 DEF Truncates
  <2>2. (op = "div" /\ Divisible(next, top)) => out' \in Word /\ Truncates(out)'
    BY <1>1, <1>4 DEF Truncates
  <2>3. (op = "rem" /\ Divisible(next, top)) => \E q \in Word : Truncates(q)' /\ next = q * top + out'
    BY <1>5, <2>1
  <2> QED
    BY <1>1, <1>6, <1>7, <2>2, <2>3 DEF ArithmeticLaws
<1> QED
  BY <1>3, <1>8 DEF ArithmeticInv

LEMMA ArithmeticStays ==
    ASSUME ArithmeticInv, UNCHANGED <<op, next, top>>,
           op \notin OnWords \cup OnFloats \/ UNCHANGED out
    PROVE  ArithmeticInv'
<1>1. op' = op /\ next' = next /\ top' = top /\ Operands /\ ArithmeticLaws
  BY DEF ArithmeticInv
<1>2. Operands'
  BY <1>1 DEF Operands
<1>3. ASSUME op \notin OnWords \cup OnFloats PROVE ArithmeticLaws'
  <2>1. op' \notin {"div", "rem", "lcmp"} \cup OnFloats
    BY <1>1, <1>3 DEF OnWords
  <2> QED
    BY <2>1 DEF ArithmeticLaws
<1>4. ASSUME UNCHANGED out PROVE ArithmeticLaws'
  <2>1. ASSUME NEW q PROVE Truncates(q)' <=> Truncates(q)
    BY <1>1 DEF Truncates
  <2>2. Truncates(out)' <=> Truncates(out)
    BY <1>1, <1>4 DEF Truncates
  <2> QED
    BY <1>1, <1>4, <2>1, <2>2 DEF ArithmeticLaws
<1> QED
  BY <1>2, <1>3, <1>4 DEF ArithmeticInv

(***************************************************************************)
(* For words of any width: idiv and irem truncate, a quotient fits unless  *)
(* it is that of the least word and -1, and lcmp and the comparisons of    *)
(* floats order their operands, lcmp as long as their difference is a word.*)
(***************************************************************************)
THEOREM ArithmeticIsRight == Spec => []ArithmeticLaws
<1>1. Init => ArithmeticInv
  <2> SUFFICES ASSUME Init PROVE ArithmeticInv
    OBVIOUS
  <2>1. Operands
    BY DEF Init, Operands, OnWords, OnFloats
  <2> QED
    BY <2>1 DEF Init, ArithmeticInv, ArithmeticLaws
<1>2. ArithmeticInv /\ [Next]_vars => ArithmeticInv'
  <2> SUFFICES ASSUME ArithmeticInv, [Next]_vars PROVE ArithmeticInv'
    OBVIOUS
  <2>1. CASE TableSwitch
    BY <2>1, ArithmeticStays DEF TableSwitch, OnWords, OnFloats
  <2>2. CASE Search
    BY <2>2, ArithmeticStays DEF Search, OnWords, OnFloats
  <2>3. CASE UNCHANGED vars
    BY <2>3, ArithmeticStays DEF vars
  <2> QED
    BY <2>1, <2>2, <2>3, ComputeObeys DEF Next
<1>3. ArithmeticInv => ArithmeticLaws
  BY DEF ArithmeticInv
<1> QED
  BY <1>1, <1>2, <1>3, PTL DEF Spec
=============================================================================
