------------------------------- MODULE Fixnum -------------------------------
(***************************************************************************)
(* Integers in machine words.  A small Integer n is the odd word 2n+1, any *)
(* other is an object on the heap.  Arithmetic is written three times: the *)
(* generic functions, which unpack their operands; the interpreter's and   *)
(* the compiler's fast paths, which add, shift and compare tagged words    *)
(* and go elsewhere on an overflow.                                        *)
(***************************************************************************)
EXTENDS Integers, FiniteSets
CONSTANTS
  WordBits,   \* 64: a Value and an i64
  CountBits,  \* 32: a shift count and an exponent
  ImmBits,    \* 16: an immediate operand of an instruction
  MaxOperand, \* bound: the operands are -MaxOperand..MaxOperand
  MaxCount    \* bound on shift counts

ASSUME FixnumAssumption ==
  /\ {WordBits, CountBits, ImmBits, MaxOperand, MaxCount} \subseteq Nat \ {0}
  /\ ImmBits < WordBits - 1 /\ CountBits < WordBits /\ WordBits < 2^CountBits
\* What ^ means, as far as it is needed; the provers do not know it.
MaxPower == 2 * WordBits + MaxCount
ASSUME PowersAssumption ==
  \A n \in 0..MaxPower : 2^n \in Nat \ {0} /\ 2^(n + 1) = 2 * 2^n

Signed(x, bits) == ((x + 2^(bits - 1)) % 2^bits) - 2^(bits - 1)
Word(x)    == Signed(x, WordBits)
InWord(x)  == Word(x) = x
Bit(x, i)  == (x \div 2^i) % 2
Negated(x) == -x
Abs(x)     == IF x < 0 THEN -x ELSE x

-----------------------------------------------------------------------------
(* Values.                                                                  *)

Tag(n)   == Word(2 * n + 1)
Untag(w) == w \div 2

IsI63(n) == Bit(n, WordBits - 2) = Bit(n, WordBits - 1)
NewInteger(n) == IF IsI63(n) THEN <<"fixnum", Tag(n)>> ELSE <<"bignum", n>>
NewBigint(n)  == IF InWord(n) THEN NewInteger(n) ELSE <<"bignum", n>>

IsFixnum(v) == v[1] = "fixnum"
Unpack(v)   == IF IsFixnum(v) THEN Untag(v[2]) ELSE v[2]
Both(a, b)  == IsFixnum(a) /\ IsFixnum(b)

Abort == <<"panic">>
DivideByZero == <<"divide by zero">>
Infinity == <<"infinity">>
-----------------------------------------------------------------------------
(* The generic functions.                                                   *)

FloorDiv(l, r) == IF r > 0 THEN l \div r ELSE Negated(l) \div Negated(r)
TruncRem(l, r) == LET m == Abs(l) % Abs(r) IN IF l < 0 THEN -m ELSE m

BitOp(op, x, y) == CASE op = "bitand" -> x * y
                     [] op = "bitor"  -> IF x + y > 0 THEN 1 ELSE 0
                     [] op = "bitxor" -> (x + y) % 2
Bitwise(op, x, y, bits) ==
  LET sum[n \in 0..bits] ==
        IF n = 0 THEN 0
        ELSE sum[n - 1] + 2^(n - 1) * BitOp(op, Bit(x, n - 1), Bit(y, n - 1))
  IN Signed(sum[bits], bits)

Operation(op, l, r) == CASE op = "add" -> l + r
                         [] op = "sub" -> l - r
                         [] op = "mul" -> l * r
                         [] op = "rem" -> TruncRem(l, r)
\* add_values, sub_values, mul_values and rem_values: checked, or with BigInts.
CheckedValues(op, a, b) ==
  IF op = "rem" /\ Unpack(b) = 0 THEN Abort
  ELSE LET x == Operation(op, Unpack(a), Unpack(b))
       IN IF Both(a, b) /\ InWord(x) THEN NewInteger(x) ELSE NewBigint(x)

DivValues(a, b) ==
  IF Unpack(b) = 0 THEN DivideByZero
  ELSE LET q == FloorDiv(Unpack(a), Unpack(b))
       IN IF Both(a, b) THEN NewInteger(q) ELSE NewBigint(q)

BitValues(op, a, b) ==
  IF Both(a, b) THEN NewInteger(Bitwise(op, Unpack(a), Unpack(b), WordBits))
  ELSE NewBigint(Bitwise(op, Unpack(a), Unpack(b), 2 * WordBits))

\* A count loses its upper half; checked_shl and checked_shr refuse counts of
\* a word and more, and lose the bits that leave the word below that.
Count(n) == n % 2^CountBits
IntShr(l, c) == NewInteger(IF c < WordBits THEN l \div 2^c ELSE IF l >= 0 THEN 0 ELSE -1)
IntShl(l, c) == IF c < WordBits THEN NewInteger(Word(l * 2^c)) ELSE NewBigint(l * 2^c)

ShiftsLeft(op, n) == IF op = "shl" THEN n >= 0 ELSE n < 0
ShiftValues(op, a, b) ==
  LET l == Unpack(a)
      n == Unpack(b)
      c == Count(Abs(n))
  IN IF IsFixnum(a)
     THEN IF ShiftsLeft(op, n) THEN IntShl(l, c) ELSE IntShr(l, c)
     ELSE NewBigint(IF ShiftsLeft(op, n) THEN l * 2^c ELSE l \div 2^c)

IsI32(n) == Signed(n, CountBits) = n
Power(l, r) == LET power[n \in 0..r] == IF n = 0 THEN 1 ELSE l * power[n - 1] IN power[r]
PowII(l, r) == CASE ~IsI32(r)           -> Infinity
                 [] IsI32(r) /\ r < 0   -> Abort
                 [] IsI32(r) /\ r >= 0  -> NewBigint(Power(l, r))
\* A Bignum raised to a negative number is raised to 2^32 less.
PowValues(a, b) ==
  IF IsFixnum(b) THEN PowII(Unpack(a), Unpack(b)) ELSE Infinity

NegValue(a) == LET x == -Unpack(a)
               IN IF IsFixnum(a) /\ InWord(x) THEN NewInteger(x) ELSE NewBigint(x)

Values(op, a, b) ==
  CASE op \in {"add", "sub", "mul", "rem"}      -> CheckedValues(op, a, b)
    [] op = "div"                               -> DivValues(a, b)
    [] op \in {"bitor", "bitand", "bitxor"}     -> BitValues(op, a, b)
    [] op \in {"shl", "shr"}                    -> ShiftValues(op, a, b)
    [] op = "exp"                               -> PowValues(a, b)
-----------------------------------------------------------------------------
(* Fast paths: x and y are tagged words.                                    *)

\* The result, or the exit on an overflow (jo).
Unless(x, result, exit) == IF InWord(x) THEN <<"fixnum", result>> ELSE exit

FastAdd(x, y, exit) == Unless((x - 1) + y, (x - 1) + y, exit)
FastSub(x, y, exit) == Unless(x - y, x - y + 1, exit)
FastBits(op, x, y)  ==
  <<"fixnum", Bitwise(op, x, y, WordBits) + (IF op = "bitxor" THEN 1 ELSE 0)>>

\* lzcnt
LeadingZeros(x) == IF x < 0 THEN 0 ELSE Cardinality({k \in 0..WordBits - 1 : x < 2^k})
Odd(x) == IF x % 2 = 1 THEN x ELSE x + 1

FastShr(x, n) ==
  <<"fixnum", Odd(IF n >= WordBits THEN (IF x < 0 THEN -1 ELSE 0) ELSE x \div 2^n)>>

\* Mutated: a count of exactly as many bits as are free, and one more, is taken.
FastShl_OneMore(x, n, exit) ==
  IF n > LeadingZeros(x) + 1 THEN exit ELSE <<"fixnum", Odd(Word((x - 1) * 2^n))>>

FastShl(x, n, exit) ==
  IF n > LeadingZeros(x) THEN exit ELSE <<"fixnum", Odd(Word((x - 1) * 2^n))>>

VmBinary(op, a, b) ==
  LET generic == Values(op, a, b)
  IN CASE Both(a, b) /\ op = "add" -> FastAdd(a[2], b[2], generic)
       [] Both(a, b) /\ op = "sub" -> FastSub(a[2], b[2], generic)
       [] Both(a, b) /\ op \in {"bitor", "bitand", "bitxor"} -> FastBits(op, a[2], b[2])
       [] ~Both(a, b) \/ op \notin {"add", "sub", "bitor", "bitand", "bitxor"} -> generic

VmNeg(a) == IF IsFixnum(a) THEN <<"fixnum", Word(2 * Word(-Untag(a[2])) + 1)>> ELSE NegValue(a)

\* Code compiled after Integers were seen; deoptimization repeats the
\* instruction in the interpreter.
JitBinary(op, form, a, b) ==
  LET generic == Values(op, a, b)
      deopt == VmBinary(op, a, b)
      shift == Untag(b[2])
      fast == Both(a, b)
  IN CASE op \in {"add", "sub", "exp"} /\ ~fast -> deopt
       [] fast /\ op = "add" -> FastAdd(a[2], b[2], deopt)
       [] fast /\ op = "sub" /\ form = "ri" -> Unless(a[2] - (b[2] - 1), a[2] - (b[2] - 1), deopt)
       [] fast /\ op = "sub" /\ form # "ri" -> FastSub(a[2], b[2], deopt)
       [] fast /\ op = "exp" -> PowII(Untag(a[2]), shift)
       [] fast /\ op \in {"bitor", "bitand", "bitxor"} -> FastBits(op, a[2], b[2])
       [] fast /\ op \in {"shl", "shr"} ->
            IF ShiftsLeft(op, shift) THEN FastShl(a[2], Abs(shift), generic)
            ELSE FastShr(a[2], Abs(shift))
       [] (~fast /\ op \notin {"add", "sub", "exp"}) \/ op \in {"mul", "div", "rem"} -> generic
-----------------------------------------------------------------------------
(* Comparisons.  Words are compared as signed numbers.  Of two Floats the   *)
(* machine gives two flags, which are both set if one of them is NaN.       *)

Orders == {"less", "equal", "greater", "unordered"}
Holds(kind, order) ==
  CASE kind = "eq" -> order = "equal"
    [] kind = "ne" -> order # "equal"
    [] kind = "lt" -> order = "less"
    [] kind = "le" -> order \in {"less", "equal"}
    [] kind = "gt" -> order = "greater"
    [] kind = "ge" -> order \in {"greater", "equal"}

OrderOf(x, y) == IF x < y THEN "less" ELSE IF x = y THEN "equal" ELSE "greater"
IntegerCmp(kind, a, b) == Holds(kind, IF Both(a, b) THEN OrderOf(a[2], b[2])
                                      ELSE OrderOf(Unpack(a), Unpack(b)))

\* ucomisd
Zero(order)  == order \in {"equal", "unordered"}
Carry(order) == order \in {"less", "unordered"}
FloatFlag(kind, order) ==
  CASE kind = "eq" -> Zero(order)
    [] kind = "ne" -> ~Zero(order)
    [] kind = "lt" -> Carry(order)
    [] kind = "le" -> Carry(order) \/ Zero(order)
    [] kind = "gt" -> ~Carry(order) /\ ~Zero(order)
    [] kind = "ge" -> ~Carry(order)
RevKind == [eq |-> "ne", ne |-> "eq", gt |-> "le", le |-> "gt", lt |-> "ge", ge |-> "lt"]
\* A comparison and the branch on it in one: BrIfNot jumps on the reverse.
BranchTaken(kind, brkind, order) ==
  FloatFlag(IF brkind = "if" THEN kind ELSE RevKind[kind], order)
-----------------------------------------------------------------------------
(* What Ruby means, for Integers without a bound.                           *)

Value(n) == IF n \in -2^(WordBits - 2)..2^(WordBits - 2) - 1 THEN <<"fixnum", 2 * n + 1>>
            ELSE <<"bignum", n>>
Meaning(op, l, r) ==
  CASE op \in {"add", "sub", "mul"} -> Value(Operation(op, l, r))
    [] op \in {"div", "rem"} /\ r = 0 -> DivideByZero
    [] op = "div" /\ r # 0 -> Value(FloorDiv(l, r))
    [] op = "rem" /\ r # 0 -> Value(l - r * FloorDiv(l, r))
    [] op \in {"bitor", "bitand", "bitxor"} -> Value(Bitwise(op, l, r, 2 * WordBits))
    [] op \in {"shl", "shr"} ->
         Value(IF ShiftsLeft(op, r) THEN l * 2^Abs(r) ELSE l \div 2^Abs(r))
    [] op = "exp" -> Value(Power(l, r))

\* Where an instruction is known to differ: % truncates, and panics for 0;
\* << loses the bits that leave the word; ...
Truncates(op, l, r) == op = "rem" /\ (r = 0 \/ (l < 0) # (r < 0))
ShiftsOut(op, l, r) == /\ op \in {"shl", "shr"} /\ ShiftsLeft(op, r)
                       /\ IsFixnum(Value(l)) /\ Abs(r) < WordBits /\ ~InWord(l * 2^Abs(r))
\* ... counts are taken modulo 2^32; a ** b has no b < 0, and no b from 2^31 on;
CountsLost(op, r) == op \in {"shl", "shr"} /\ Count(Abs(r)) # Abs(r)
NoPower(op, r) == op = "exp" /\ (r < 0 \/ ~IsI32(r))
\* compiled code shifts by one bit too many, into the sign: 1 << 62 for one.
IntoSign(op, l, r) == /\ op \in {"shl", "shr"} /\ ShiftsLeft(op, r)
                      /\ Abs(r) = LeadingZeros(Tag(l)) /\ ~IsFixnum(Value(l * 2^Abs(r)))

Inexact(op, l, r) ==
  Truncates(op, l, r) \/ ShiftsOut(op, l, r) \/ CountsLost(op, r) \/ NoPower(op, r)

Immediates == -2^(ImmBits - 1)..2^(ImmBits - 1) - 1
Lefts(op, form) == IF form = "ir" THEN Immediates ELSE -MaxOperand..MaxOperand
Rights(op, form) == IF form = "ri" THEN Immediates
                    ELSE IF op \in {"shl", "shr"} THEN -MaxCount..MaxCount
                    ELSE -MaxOperand..MaxOperand

BinaryExact(op, form) ==
  \A l \in Lefts(op, form), r \in Rights(op, form) :
    ~Inexact(op, l, r) =>
      /\ VmBinary(op, Value(l), Value(r)) = Meaning(op, l, r)
      /\ ~IntoSign(op, l, r) => JitBinary(op, form, Value(l), Value(r)) = Meaning(op, l, r)

\* The interpreter's negation of the least fixnum wraps around.
NegExact ==
  \A n \in -MaxOperand..MaxOperand :
    /\ NegValue(Value(n)) = Value(-n)
    /\ n = -2^(WordBits - 2) \/ VmNeg(Value(n)) = Value(-n)

\* Compiled code takes NaN for equal to and less than everything.
Unordered(kind) == kind \in {"eq", "ne", "lt", "le"}
CompareExact(kind) ==
  /\ \A x, y \in -MaxOperand..MaxOperand :
       IntegerCmp(kind, Value(x), Value(y)) = Holds(kind, OrderOf(x, y))
  /\ \A order \in Orders : ~(order = "unordered" /\ Unordered(kind)) =>
       /\ FloatFlag(kind, order) = Holds(kind, order)
       /\ BranchTaken(kind, "if", order) = Holds(kind, order)
       /\ BranchTaken(kind, "ifnot", order) = ~Holds(kind, order)
=============================================================================
