------------------------------- MODULE Values -------------------------------
(***************************************************************************)
(* What the handlers of bytecode_interpreter.c compute: one execution of   *)
(* an arithmetic instruction, a comparison or a switch, on words of a few  *)
(* bits.  The operands are chosen first; the search of lookupswitch, which *)
(* calls itself, takes a step for each call.                               *)
(***************************************************************************)
EXTENDS Integers, Sequences

CONSTANTS Bits,         \* of an int, and of a long
          SmallBits,    \* of the type i2b, i2c, i2s and l2i cast to
          MaxKeys,      \* bound: entries of a switch
          NaN,          \* the float that is not a number
          NoResult,     \* not computed yet
          Thrown,       \* ArithmeticException
          Trap,         \* the instruction of the processor traps
          Undefined,    \* C leaves the result undefined
          Default,      \* the default target of a switch
          Torn          \* a target read from parts of two entries

ASSUME BitsAssumption == Bits \in Nat /\ SmallBits \in 1 .. Bits - 1 /\ MaxKeys \in Nat
\* True of every width; the provers do not know what a power is.
ASSUME PowerAssumption == 2^(Bits - 1) \in Nat \ {0} /\ 2^Bits = 2 * 2^(Bits - 1)
ASSUME OutcomesAssumption == Default \notin Int /\ Torn \notin Int

VARIABLES op,           \* the instruction
          next, top,    \* its operands, top popped first
          keys,         \* the table of a switch: sorted keys, or <<low, high>>
          range,        \* lookupswitch_binary_search: <<start, end>>
          out           \* the result, or NoResult

vars == <<op, next, top, keys, range, out>>

Signed(n, bits) == LET u == n % 2^bits IN IF u >= 2^(bits - 1) THEN u - 2^bits ELSE u
Word == -(2^(Bits - 1)) .. 2^(Bits - 1) - 1
Abs(n) == IF n < 0 THEN -n ELSE n
Sign(n) == IF n < 0 THEN -1 ELSE IF n > 0 THEN 1 ELSE 0

-----------------------------------------------------------------------------
(* The operations of C on a word.                                          *)

\* Division truncates.  By zero the handler throws; the quotient of the least
\* word and -1 does not fit, and the instruction of the processor traps.
Divisible(x, y) == y # 0 /\ ~(x = -(2^(Bits - 1)) /\ y = -1)
DivideTrap(y) == IF y = 0 THEN Thrown ELSE Trap
Quotient(x, y) == Sign(x) * Sign(y) * (Abs(x) \div Abs(y))
Remainder(x, y) == Sign(x) * (Abs(x) % Abs(y))

\* A shift is by the whole word popped; past the width C leaves it undefined.
Shifted(o, x, y) ==
    IF y \notin 0 .. Bits - 1 THEN Undefined
    ELSE CASE o = "shl"  -> Signed(x * 2^y, Bits)
           [] o = "shr"  -> x \div 2^y
           [] o = "ushr" -> Signed((x % 2^Bits) \div 2^y, Bits)

\* Mutant: the operands are compared the other way round.
CompareSwapped(o, x, y) ==
    CASE o = "lcmp"  -> LET d == Signed(y - x, Bits) IN IF d < -1 THEN -1 ELSE IF d > 1 THEN 1 ELSE d
      [] o = "fcmpl" -> IF NaN \in {x, y} THEN -1 ELSE Sign(x - y)
      [] o = "fcmpg" -> IF NaN \in {x, y} THEN 1 ELSE Sign(x - y)

\* lcmp cuts the difference of the operands to -1, 0 or 1; fcmpl, fcmpg and the
\* comparisons of doubles look for NaN first.
Compared(o, x, y) ==
    CASE o = "lcmp"  -> LET d == Signed(x - y, Bits) IN IF d < -1 THEN -1 ELSE IF d > 1 THEN 1 ELSE d
      [] o = "fcmpl" -> IF NaN \in {x, y} THEN -1 ELSE Sign(x - y)
      [] o = "fcmpg" -> IF NaN \in {x, y} THEN 1 ELSE Sign(x - y)

ResultOf(o, x, y) ==
    CASE o = "add" -> Signed(x + y, Bits)
      [] o = "sub" -> Signed(x - y, Bits)
      [] o = "mul" -> Signed(x * y, Bits)
      [] o = "neg" -> Signed(-y, Bits)
      [] o = "cast" -> Signed(y, SmallBits)
      [] o = "cast_unsigned" -> y % 2^SmallBits
      [] o = "div" -> IF Divisible(x, y) THEN Quotient(x, y) ELSE DivideTrap(y)
      [] o = "rem" -> IF Divisible(x, y) THEN Remainder(x, y) ELSE DivideTrap(y)
      [] o \in {"shl", "shr", "ushr"} -> Shifted(o, x, y)
      [] o \in {"lcmp", "fcmpl", "fcmpg"} -> Compared(o, x, y)

OnWords == {"add", "sub", "mul", "neg", "cast", "cast_unsigned", "div", "rem",
            "shl", "shr", "ushr", "lcmp"}
OnFloats == {"fcmpl", "fcmpg"}

-----------------------------------------------------------------------------
Sorted(s) == \A i, j \in DOMAIN s : i < j => s[i] < s[j]
Tables == {s \in UNION {[1 .. n -> Word] : n \in 0 .. MaxKeys} : Sorted(s)}

Init == /\ \/ op \in OnWords /\ next \in Word /\ top \in Word /\ keys = <<>>
           \/ op \in OnFloats /\ next \in {NaN, -1, 0, 1} /\ top \in {NaN, -1, 0, 1} /\ keys = <<>>
           \/ op = "lookupswitch" /\ next = 0 /\ top \in Word /\ keys \in Tables
           \/ /\ op = "tableswitch" /\ next = 0 /\ top \in Word
              /\ keys \in {<<low, high>> : low, high \in Word} /\ keys[1] <= keys[2]
        /\ range = <<0, Len(keys)>>
        /\ out = NoResult

Compute == /\ op \in OnWords \cup OnFloats /\ out = NoResult
           /\ out' = ResultOf(op, next, top)
           /\ UNCHANGED <<op, next, top, keys, range>>

\* The entries of the table are four bytes each and are read one byte apart:
\* the entry taken, from 0, or Torn for the bytes of two of them.
TableSwitch ==
    /\ op = "tableswitch" /\ out = NoResult
    /\ LET at == top - keys[1]
       IN  out' = IF top < keys[1] \/ top > keys[2] THEN Default
                  ELSE IF at % 4 = 0 THEN at \div 4 ELSE Torn
    /\ UNCHANGED <<op, next, top, keys, range>>

\* Mutant: the upper half starts after the middle, the lower one stops before.
SearchShort ==
    /\ op = "lookupswitch" /\ out = NoResult
    /\ LET start == range[1]
           end == range[2]
           mid == start + ((end - start) \div 2)
       IN  \/ start >= end /\ out' = Default /\ UNCHANGED range
           \/ start < end /\ keys[mid + 1] = top /\ out' = mid /\ UNCHANGED range
           \/ start < end /\ keys[mid + 1] < top /\ range' = <<mid + 1, end>> /\ UNCHANGED out
           \/ start < end /\ keys[mid + 1] > top /\ range' = <<start, mid - 1>> /\ UNCHANGED out
    /\ UNCHANGED <<op, next, top, keys>>

\* Mutant: the upper end of a lower half includes the middle.
SearchAgain ==
    /\ op = "lookupswitch" /\ out = NoResult
    /\ LET start == range[1]
           end == range[2]
           mid == start + ((end - start) \div 2)
       IN  \/ start >= end /\ out' = Default /\ UNCHANGED range
           \/ start < end /\ keys[mid + 1] = top /\ out' = mid /\ UNCHANGED range
           \/ start < end /\ keys[mid + 1] < top /\ range' = <<mid, end>> /\ UNCHANGED out
           \/ start < end /\ keys[mid + 1] > top /\ range' = <<start, mid + 1>> /\ UNCHANGED out
    /\ UNCHANGED <<op, next, top, keys>>

\* lookupswitch_binary_search: one call.  The upper half begins with the key
\* that was just found to be too small.
Search ==
    /\ op = "lookupswitch" /\ out = NoResult
    /\ LET start == range[1]
           end == range[2]
           mid == start + ((end - start) \div 2)
       IN  \/ start >= end /\ out' = Default /\ UNCHANGED range
           \/ start < end /\ keys[mid + 1] = top /\ out' = mid /\ UNCHANGED range
           \/ start < end /\ keys[mid + 1] < top /\ range' = <<mid, end>> /\ UNCHANGED out
           \/ start < end /\ keys[mid + 1] > top /\ range' = <<start, mid>> /\ UNCHANGED out
    /\ UNCHANGED <<op, next, top, keys>>

Next == Compute \/ TableSwitch \/ Search
Spec == Init /\ [][Next]_vars /\ WF_vars(Next)

-----------------------------------------------------------------------------
(***************************************************************************)
(* A quotient and its remainder are those of truncating division and a     *)
(* comparison orders its operands, whenever the difference of two longs is *)
(* itself a long (idiv, irem, lcmp, fcmpl and their like).                 *)
(***************************************************************************)
Truncates(q) == /\ Abs(q * top) <= Abs(next) /\ Abs(next) < Abs(q * top) + Abs(top)
                /\ q # 0 => Sign(q) = Sign(next) * Sign(top)
ArithmeticLaws ==
    out # NoResult =>
        /\ (op = "div" /\ Divisible(next, top)) => out \in Word /\ Truncates(out)
        /\ (op = "rem" /\ Divisible(next, top)) =>
               \E q \in Word : Truncates(q) /\ next = q * top + out
        /\ (op = "lcmp" /\ next - top \in Word) => out = Sign(next - top)
        /\ (op \in OnFloats /\ NaN \notin {next, top}) => out = Sign(next - top)

(***************************************************************************)
(* lookupswitch takes the entry of its key, and the default for a key      *)
(* below the whole table; for no other key does it come to an answer.      *)
(* tableswitch takes the default for the keys outside its table, and for   *)
(* the lowest of the others its own entry; any other is given a part of    *)
(* the table that is not its entry (bytecode_interpreter.c:1712, 1718).    *)
(***************************************************************************)
BelowAll == keys = <<>> \/ top < keys[1]
SwitchFinds ==
    out # NoResult =>
        /\ op = "lookupswitch" => IF out = Default THEN BelowAll ELSE keys[out + 1] = top
        /\ op = "tableswitch" => IF top \in keys[1] .. keys[2]
                                 THEN out = top - keys[1] <=> top = keys[1]
                                 ELSE out = Default

(***************************************************************************)
(* The search ends for a key of the table and for one below all of them    *)
(* (for any other the upper half of one entry is that entry again, and     *)
(* lookupswitch_binary_search calls itself until the C stack is full).     *)
(***************************************************************************)
EndingKey == BelowAll \/ \E i \in DOMAIN keys : keys[i] = top
SearchEnds == (op = "lookupswitch" /\ EndingKey) ~> out # NoResult
=============================================================================
