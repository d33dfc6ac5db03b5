----------------------------- MODULE FixnumProofs -----------------------------
(***************************************************************************)
(* Arithmetic on tagged words is exact, for words of any width and all     *)
(* Integers: an overflow of the tagged word is an overflow of the number.  *)
(***************************************************************************)
EXTENDS Fixnum, FiniteSetTheorems, NaturalsInduction, WellFoundedInduction, TLAPS

(* A non-empty set of natural numbers has a least element. *)
LEMMA Least == ASSUME NEW S \in SUBSET Nat, S # {} PROVE \E m \in S : \A k \in S : m <= k
<1> DEFINE R == {ss \in Nat \X Nat : ss[1] < ss[2]}
<1>1. IsWellFoundedOn(R, Nat) BY NatLessThanWellFounded DEF OpToRel
<1>2. \A a, b \in Nat : <<a, b>> \notin R => b <= a OBVIOUS
<1> HIDE DEF R
<1>3. PICK m \in S : \A k \in S : ~(<<k, m>> \in R) BY <1>1, WFMin
<1> QED BY <1>2, <1>3

-----------------------------------------------------------------------------
(* Tables that are filled step by step, as recursive functions are.         *)

Filled(t, base, step, lo, hi) ==
    t[lo] = base /\ \A j \in (lo + 1)..hi : t[j] = step[j][t[j - 1]]

LEMMA TablesExist ==
    ASSUME NEW T, NEW lo \in Nat, NEW hi \in Nat, lo <= hi, NEW base \in T, NEW step,
           \A j \in (lo + 1)..hi : \A t \in T : step[j][t] \in T
    PROVE  \E t \in [lo..hi -> T] : Filled(t, base, step, lo, hi)
<1> SUFFICES ASSUME ~\E t \in [lo..hi -> T] : Filled(t, base, step, lo, hi) PROVE FALSE
  OBVIOUS
<1> DEFINE Q == {n \in Nat : /\ lo <= n /\ n <= hi
                             /\ ~\E t \in [lo..n -> T] : Filled(t, base, step, lo, n)}
<1>1. Q \in SUBSET Nat /\ Q # {}
  <2>1. hi \in Q OBVIOUS
  <2>2. Q \subseteq Nat OBVIOUS
  <2> QED BY <2>1, <2>2
<1>2. PICK m \in Q : \A k \in Q : m <= k BY <1>1, Least
<1>3. m # lo
  <2> DEFINE t == [k \in lo..lo |-> base]
  <2>1. t \in [lo..lo -> T] /\ Filled(t, base, step, lo, lo) BY DEF Filled
  <2> QED BY <2>1
<1>4. m \in Nat /\ lo <= m - 1 /\ m - 1 \in Nat /\ m - 1 \notin Q /\ m <= hi BY <1>1, <1>2, <1>3
<1>5. PICK t \in [lo..(m - 1) -> T] : Filled(t, base, step, lo, m - 1) BY <1>4
<1>6. t[m - 1] \in T /\ m \in (lo + 1)..hi BY <1>4
<1>7. step[m][t[m - 1]] \in T BY <1>6
<1> DEFINE g == [k \in lo..m |-> IF k = m THEN step[m][t[m - 1]] ELSE t[k]]
<1>8. g \in [lo..m -> T] BY <1>4, <1>5, <1>7
<1>9. \A k \in lo..m : g[k] = IF k = m THEN step[m][t[m - 1]] ELSE t[k] OBVIOUS
<1> HIDE DEF g
<1>10. \A j \in (lo + 1)..m : g[j] = step[j][g[j - 1]]
  <2> SUFFICES ASSUME NEW j \in (lo + 1)..m PROVE g[j] = step[j][g[j - 1]] OBVIOUS
  <2>1. CASE j = m BY <1>4, <1>9, <2>1
  <2>2. CASE j # m
    <3>1. j \in (lo + 1)..(m - 1) BY <1>4, <2>2
    <3>2. t[j] = step[j][t[j - 1]] BY <1>5, <3>1 DEF Filled
    <3>3. j \in lo..m /\ j - 1 \in lo..m /\ j - 1 # m BY <1>4, <3>1
    <3> QED BY <1>9, <2>2, <3>2, <3>3
  <2> QED BY <2>1, <2>2
<1>11. g[lo] = base BY <1>3, <1>4, <1>5, <1>9 DEF Filled
<1>12. Filled(g, base, step, lo, m) BY <1>10, <1>11 DEF Filled
<1> QED BY <1>2, <1>8, <1>12

LEMMA FilledIsTyped ==
    ASSUME NEW T, NEW hi \in Nat, NEW base \in T, NEW step, NEW w, Filled(w, base, step, 0, hi),
           \A j \in (0 + 1)..hi : \A t \in T : step[j][t] \in T
    PROVE  \A n \in 0..hi : w[n] \in T
<1> DEFINE Q == {n \in Nat : n <= hi /\ ~(w[n] \in T)}
<1>1. Q = {}
  <2> SUFFICES ASSUME Q # {} PROVE FALSE OBVIOUS
  <2>1. PICK m \in Q : \A k \in Q : m <= k BY Least
  <2>2. m # 0 BY <2>1 DEF Filled
  <2>3. m - 1 \in Nat /\ m - 1 <= hi /\ m - 1 \notin Q /\ m \in (0 + 1)..hi BY <2>1, <2>2
  <2>4. w[m - 1] \in T BY <2>3
  <2>5. w[m] = step[m][w[m - 1]] BY <2>3 DEF Filled
  <2> QED BY <2>1, <2>3, <2>4, <2>5
<1> QED BY <1>1

-----------------------------------------------------------------------------
(* Division.                                                                *)

LEMMA Division ==
    ASSUME NEW a \in Int, NEW b \in Nat \ {0}
    PROVE  /\ a \div b \in Int /\ a % b \in Int /\ 0 <= a % b /\ a % b < b
           /\ a = (b * (a \div b)) + (a % b)
OBVIOUS

LEMMA Quotient ==
    ASSUME NEW a \in Int, NEW b \in Nat \ {0}, NEW q \in Int, q * b <= a, a < q * b + b
    PROVE  a \div b = q
OBVIOUS

LEMMA Remainder ==
    ASSUME NEW a \in Int, NEW b \in Nat \ {0}, 0 <= a, a < b
    PROVE  a % b = a
OBVIOUS
LEMMA Product == ASSUME NEW l \in Int, NEW r \in Int PROVE l * r \in Int OBVIOUS

(* A quotient is no further from 0 than its dividend. *)
LEMMA Between ==
    ASSUME NEW a \in Int, NEW b \in Nat \ {0}, NEW lo \in Int, NEW hi \in Int,
           lo <= 0, 0 <= hi, lo <= a, a <= hi
    PROVE  lo <= a \div b /\ a \div b <= hi
<1> DEFINE d == a \div b
<1>1. d \in Int /\ b * d <= a /\ a < (b * d) + b
  <2>1. a \div b \in Int /\ a % b \in Int /\ 0 <= a % b /\ a % b < b /\ a = (b * (a \div b)) + (a % b)
    BY Division
  <2>2. b * (a \div b) \in Int BY <2>1, Product
  <2> QED BY <2>1, <2>2
<1> HIDE DEF d
<1>2. b * d \in Int /\ b * (d + 1) = (b * d) + b BY <1>1
<1>3. d <= hi
  <2> SUFFICES ASSUME d > hi PROVE FALSE BY <1>1
  <2>1. d >= 0 /\ b * d >= d BY <1>1
  <2> QED BY <1>1, <1>2, <2>1
<1>4. lo <= d
  <2> SUFFICES ASSUME d < lo PROVE FALSE BY <1>1
  <2>1. d + 1 <= 0 /\ b * (d + 1) <= d + 1 BY <1>1
  <2>2. d + 1 <= lo BY <1>1
  <2> QED BY <1>1, <1>2, <2>1, <2>2
<1> QED BY <1>3, <1>4 DEF d

-----------------------------------------------------------------------------
(* Words.  Small Integers have one bit less than two of a word.             *)

Quarter == 2^(WordBits - 2)

LEMMA Widths ==
    /\ WordBits \in Nat /\ CountBits \in Nat /\ MaxCount \in Nat /\ MaxPower \in Nat
    /\ WordBits >= 3 /\ CountBits >= 1 /\ CountBits < WordBits
    /\ 2 * WordBits <= MaxPower /\ MaxCount <= MaxPower
BY FixnumAssumption DEF MaxPower

LEMMA WordPowers == \A n \in 0..WordBits : 2^n \in Nat \ {0} /\ 2^(n + 1) = 2 * 2^n
<1> SUFFICES ASSUME NEW n \in 0..WordBits PROVE 2^n \in Nat \ {0} /\ 2^(n + 1) = 2 * 2^n OBVIOUS
<1>1. n \in 0..MaxPower BY Widths
<1> QED BY <1>1, PowersAssumption

LEMMA Powers ==
    /\ Quarter \in Nat \ {0}
    /\ 2^(WordBits - 1) = 2 * Quarter
    /\ 2^WordBits = 4 * Quarter
<1>1. WordBits \in Nat /\ WordBits - 2 \in 0..WordBits /\ WordBits - 1 \in 0..WordBits
  BY FixnumAssumption
<1>2. (WordBits - 2) + 1 = WordBits - 1 /\ (WordBits - 1) + 1 = WordBits BY <1>1
<1>3. /\ 2^(WordBits - 2) \in Nat \ {0} /\ 2^((WordBits - 2) + 1) = 2 * 2^(WordBits - 2)
      /\ 2^((WordBits - 1) + 1) = 2 * 2^(WordBits - 1)
  BY <1>1, WordPowers
<1>4. 2^(WordBits - 1) = 2 * 2^(WordBits - 2) BY <1>2, <1>3
<1>5. 2^WordBits = 2 * 2^(WordBits - 1) BY <1>2, <1>3
<1> QED BY <1>3, <1>4, <1>5 DEF Quarter

(* Powers add up, by the least exponent that would not. *)
LEMMA Exponents ==
    ASSUME NEW m \in 0..MaxPower, NEW n \in 0..m
    PROVE  2^(m - n) * 2^n = 2^m
<1> DEFINE Fails == {i \in Nat : i <= m /\ 2^(m - i) * 2^i # 2^m}
           R == {ss \in Nat \X Nat : ss[1] < ss[2]}
<1>1. MaxPower \in Nat /\ m \in Nat /\ m <= MaxPower BY Widths
<1>2. \A i \in 0..MaxPower : 2^i \in Nat \ {0} /\ 2^(i + 1) = 2 * 2^i BY PowersAssumption
<1>3. Fails = {}
  <2> SUFFICES ASSUME Fails # {} PROVE FALSE OBVIOUS
  <2>1. IsWellFoundedOn(R, Nat) BY NatLessThanWellFounded DEF OpToRel
  <2>2. \A a, b \in Nat : <<a, b>> \notin R => b <= a OBVIOUS
  <2>3. Fails \in SUBSET Nat OBVIOUS
  <2> HIDE DEF R, Fails
  <2>4. PICK i \in Fails : \A k \in Fails : ~(<<k, i>> \in R) BY <2>1, <2>3, WFMin
  <2>5. i \in Nat /\ i <= m /\ 2^(m - i) * 2^i # 2^m BY <2>4 DEF Fails
  <2>6. i # 0
    <3> SUFFICES ASSUME i = 0 PROVE FALSE OBVIOUS
    <3>1. 2^0 = 1 OBVIOUS
    <3>2. 2^(m - 0) = 2^m /\ 2^m \in Nat BY <1>1, <1>2
    <3> QED BY <2>5, <3>1, <3>2
  <2> DEFINE j == i - 1
  <2>7. j \in Nat /\ j < i /\ j \notin Fails
    <3>1. j \in Nat /\ j < i BY <2>5, <2>6
    <3> HIDE DEF j
    <3>2. ASSUME j \in Fails PROVE FALSE
      <4>1. <<j, i>> \notin R BY <2>4, <3>2
      <4> QED BY <2>2, <2>5, <3>1, <4>1
    <3> QED BY <3>1, <3>2
  <2>8. 2^(m - j) * 2^j = 2^m BY <1>1, <2>5, <2>7 DEF Fails
  <2>9. 2^(m - j) = 2 * 2^(m - i)
    <3>1. (m - i) + 1 = m - j /\ m - i \in 0..MaxPower BY <1>1, <2>5
    <3> QED BY <1>2, <3>1
  <2>10. 2^i = 2 * 2^j
    <3>1. j + 1 = i /\ j \in 0..MaxPower BY <1>1, <2>5, <2>7
    <3> QED BY <1>2, <3>1
  <2>11. 2^(m - i) \in Nat /\ 2^j \in Nat BY <1>1, <1>2, <2>5, <2>7
  <2> DEFINE a == 2^(m - i)
             b == 2^j
  <2>12. (2 * a) * b = a * (2 * b)
    <3> HIDE DEF a, b
    <3> SUFFICES ASSUME a \in Nat, b \in Nat PROVE (2 * a) * b = a * (2 * b) BY <2>11 DEF a, b
    <3> QED OBVIOUS
  <2> QED BY <2>5, <2>8, <2>9, <2>10, <2>12
<1> QED BY <1>1, <1>3

LEMMA Monotone ==
    ASSUME NEW m \in 0..MaxPower, NEW n \in 0..m
    PROVE  2^n <= 2^m
<1>1. 2^(m - n) * 2^n = 2^m BY Exponents
<1>2. m \in Nat /\ m - n \in 0..MaxPower /\ n \in 0..MaxPower BY Widths
<1> DEFINE a == 2^(m - n)
           b == 2^n
<1>3. a \in Nat \ {0} /\ b \in Nat \ {0} BY <1>2, PowersAssumption
<1> HIDE DEF a, b
<1>4. b <= a * b BY <1>3
<1> QED BY <1>1, <1>4 DEF a, b

(* Two's complement, in any number of bits. *)
LEMMA HalfRange ==
    ASSUME NEW m \in 1..MaxPower
    PROVE  2^(m - 1) \in Nat \ {0} /\ 2^m = 2 * 2^(m - 1)
<1>1. m \in Nat /\ m - 1 \in 0..MaxPower /\ (m - 1) + 1 = m BY Widths
<1> QED BY <1>1, PowersAssumption

LEMMA Wraps ==
    ASSUME NEW m \in 1..MaxPower, NEW v \in Int, NEW k \in Int,
           -2^(m - 1) <= v, v < 2^(m - 1)
    PROVE  Signed(v + k * 2^m, m) = v
<1> DEFINE h == 2^(m - 1)
           b == 2^m
<1>1. h \in Nat \ {0} /\ b = 2 * h /\ -h <= v /\ v < h BY HalfRange
<1>2. Signed(v + k * 2^m, m) = (((v + k * b) + h) % b) - h BY DEF Signed
<1> HIDE DEF h, b
<1> DEFINE a == (v + k * b) + h
           r == v + h
<1>3. k * b \in Int BY <1>1, Product
<1>4. a \in Int /\ b \in Nat \ {0} /\ r \in Int /\ 0 <= r /\ r < b /\ a = (k * b) + r BY <1>1, <1>3
<1>5. a \div b = k
  <2> HIDE DEF a, r
  <2>1. k * b <= a /\ a < k * b + b BY <1>3, <1>4
  <2> QED BY <1>4, <2>1, Quotient
<1>6. a % b = r
  <2> HIDE DEF a, r
  <2>1. a = (b * (a \div b)) + (a % b) /\ a % b \in Int BY <1>4, Division
  <2>2. b * k = k * b BY <1>4
  <2> QED BY <1>3, <1>4, <1>5, <2>1, <2>2
<1> HIDE DEF a
<1>7. (a % b) - h = v BY <1>1, <1>6
<1> QED BY <1>2, <1>7 DEF a

LEMMA SignedIs ==
    ASSUME NEW m \in 1..MaxPower, NEW x \in Int
    PROVE  Signed(x, m) = x <=> -2^(m - 1) <= x /\ x < 2^(m - 1)
<1> DEFINE h == 2^(m - 1)
           b == 2^m
           y == x + h
<1>1. h \in Nat \ {0} /\ b = 2 * h BY HalfRange
<1>2. Signed(x, m) = (y % b) - h BY DEF Signed
<1> HIDE DEF h, b
<1>3. y \in Int /\ b \in Nat \ {0} BY <1>1
<1>4. y % b \in Int /\ 0 <= y % b /\ y % b < b BY <1>3, Division
<1>5. ASSUME Signed(x, m) = x PROVE -h <= x /\ x < h
  <2>1. y % b = y
    <3> DEFINE z == y % b
    <3>1. z \in Int /\ z - h = x BY <1>2, <1>4, <1>5
    <3> HIDE DEF z
    <3> QED BY <1>1, <3>1 DEF z
  <2> QED BY <1>1, <1>4, <2>1
<1>6. ASSUME -h <= x, x < h PROVE Signed(x, m) = x
  <2>1. Signed(x + 0 * 2^m, m) = x
    <3>1. 0 \in Int OBVIOUS
    <3> QED BY <1>6, <3>1, Wraps DEF h
  <2>2. x + 0 * 2^m = x BY <1>1 DEF b
  <2> QED BY <2>1, <2>2
<1> QED BY <1>5, <1>6 DEF h

(* Two's complement. *)
LEMMA Words ==
    ASSUME NEW x \in Int
    PROVE  InWord(x) <=> -2 * Quarter <= x /\ x < 2 * Quarter
<1> DEFINE q == Quarter
<1>1. q \in Nat \ {0} /\ Word(x) = ((x + 2 * q) % (4 * q)) - 2 * q BY Powers DEF Word, Signed
<1> HIDE DEF q
<1> DEFINE y == x + 2 * q
           b == 4 * q
<1>2. y \in Int /\ b \in Nat \ {0} BY <1>1
<1>3. y % b \in Int /\ 0 <= y % b /\ y % b < b BY <1>2, Division
<1>4. 0 <= y /\ y < b => y % b = y BY <1>2, Remainder
<1>5. Word(x) = x <=> y % b = y
  <2>1. Word(x) = (y % b) - 2 * q BY <1>1
  <2> HIDE DEF b
  <2> QED BY <1>1, <1>3, <2>1
<1>6. InWord(x) <=> 0 <= y /\ y < b BY <1>3, <1>4, <1>5 DEF InWord
<1> QED BY <1>1, <1>6 DEF q

LEMMA Smalls ==
    ASSUME NEW n \in Int
    PROVE  /\ n \in (-Quarter)..(Quarter - 1) => Value(n) = <<"fixnum", 2 * n + 1>>
           /\ n \notin (-Quarter)..(Quarter - 1) => Value(n) = <<"bignum", n>>
BY DEF Value, Quarter

(* The upper two bits of a word are the same in small Integers only. *)
LEMMA I63 ==
    ASSUME NEW n \in Int, InWord(n)
    PROVE  IsI63(n) <=> n \in (-Quarter)..(Quarter - 1)
<1> DEFINE q == Quarter
<1>1. /\ q \in Nat \ {0} /\ -2 * q <= n /\ n < 2 * q
      /\ Bit(n, WordBits - 2) = (n \div q) % 2 /\ Bit(n, WordBits - 1) = (n \div (2 * q)) % 2
  BY Powers, Words DEF Bit, Quarter
<1> HIDE DEF q
<1> DEFINE b == 2 * q
<1>2. b \in Nat \ {0} BY <1>1
<1> HIDE DEF b
<1>3. CASE n < -q
  <2>1. n \div q = -2 BY <1>1, <1>3, Quotient
  <2>2. n \div b = -1 BY <1>1, <1>2, <1>3, Quotient DEF b
  <2> QED BY <1>1, <1>3, <2>1, <2>2 DEF b, q, IsI63
<1>4. CASE -q <= n /\ n < 0
  <2>1. n \div q = -1 BY <1>1, <1>4, Quotient
  <2>2. n \div b = -1 BY <1>1, <1>2, <1>4, Quotient DEF b
  <2> QED BY <1>1, <1>4, <2>1, <2>2 DEF b, q, IsI63
<1>5. CASE 0 <= n /\ n < q
  <2>1. n \div q = 0 BY <1>1, <1>5, Quotient
  <2>2. n \div b = 0 BY <1>1, <1>2, <1>5, Quotient DEF b
  <2> QED BY <1>1, <1>5, <2>1, <2>2 DEF b, q, IsI63
<1>6. CASE q <= n
  <2>1. n \div q = 1 BY <1>1, <1>6, Quotient
  <2>2. n \div b = 0 BY <1>1, <1>2, <1>6, Quotient DEF b
  <2> QED BY <1>1, <1>6, <2>1, <2>2 DEF b, q, IsI63
<1> QED BY <1>1, <1>3, <1>4, <1>5, <1>6

(* Integer::new and the like make the Integer that was meant. *)
LEMMA Made ==
    ASSUME NEW n \in Int
    PROVE  /\ NewBigint(n) = Value(n)
           /\ InWord(n) => NewInteger(n) = Value(n)
<1>1. Quarter \in Nat \ {0} BY Powers
<1>2. CASE InWord(n) /\ n \in (-Quarter)..(Quarter - 1)
  <2>1. InWord(2 * n + 1) BY <1>1, <1>2, Words
  <2>2. Tag(n) = 2 * n + 1 BY <2>1 DEF Tag, InWord
  <2>3. NewInteger(n) = <<"fixnum", 2 * n + 1>> BY <1>2, <2>2, I63 DEF NewInteger
  <2> QED BY <1>2, <2>3, Smalls DEF NewBigint
<1>3. CASE InWord(n) /\ n \notin (-Quarter)..(Quarter - 1)
  <2>1. NewInteger(n) = <<"bignum", n>> BY <1>3, I63 DEF NewInteger
  <2> QED BY <1>3, <2>1, Smalls DEF NewBigint
<1>4. CASE ~InWord(n)
  <2>1. n \notin (-Quarter)..(Quarter - 1) BY <1>1, <1>4, Words
  <2> QED BY <1>4, <2>1, Smalls DEF NewBigint
<1> QED BY <1>2, <1>3, <1>4

(* Unpacking undoes it. *)
LEMMA Unpacked ==
    ASSUME NEW n \in Int
    PROVE  /\ Unpack(Value(n)) = n
           /\ IsFixnum(Value(n)) <=> n \in (-Quarter)..(Quarter - 1)
           /\ IsFixnum(Value(n)) => Value(n)[2] = 2 * n + 1
<1>1. (2 * n + 1) \div 2 = n OBVIOUS
<1>2. CASE n \in (-Quarter)..(Quarter - 1)
  <2>1. Value(n) = <<"fixnum", 2 * n + 1>> BY <1>2, Smalls
  <2>2. IsFixnum(Value(n)) /\ Value(n)[2] = 2 * n + 1 BY <2>1 DEF IsFixnum
  <2> QED BY <1>1, <1>2, <2>2 DEF Unpack, Untag
<1>3. CASE n \notin (-Quarter)..(Quarter - 1)
  <2>1. Value(n) = <<"bignum", n>> BY <1>3, Smalls
  <2>2. ~IsFixnum(Value(n)) /\ Value(n)[2] = n BY <2>1 DEF IsFixnum
  <2> QED BY <1>3, <2>2 DEF Unpack
<1> QED BY <1>2, <1>3
-----------------------------------------------------------------------------
(* The generic functions.                                                   *)

LEMMA Operations ==
    ASSUME NEW l \in Int, NEW r \in Int
    PROVE  /\ Operation("add", l, r) = l + r /\ Operation("sub", l, r) = l - r
           /\ Operation("mul", l, r) = l * r /\ Operation("rem", l, r) = TruncRem(l, r)
BY DEF Operation

LEMMA CheckedIs ==
    ASSUME NEW op, NEW l \in Int, NEW r \in Int, Operation(op, l, r) \in Int, op = "rem" => r # 0
    PROVE  CheckedValues(op, Value(l), Value(r)) = Value(Operation(op, l, r))
<1> DEFINE x == Operation(op, l, r)
<1>1. Unpack(Value(l)) = l /\ Unpack(Value(r)) = r BY Unpacked
<1>2. ~(op = "rem" /\ Unpack(Value(r)) = 0) BY <1>1
<1>3. CheckedValues(op, Value(l), Value(r)) =
        IF Both(Value(l), Value(r)) /\ InWord(x) THEN NewInteger(x) ELSE NewBigint(x)
  BY <1>1, <1>2 DEF CheckedValues
<1> HIDE DEF x
<1>4. x \in Int BY DEF x
<1>5. NewBigint(x) = Value(x) /\ (InWord(x) => NewInteger(x) = Value(x)) BY <1>4, Made
<1> QED BY <1>3, <1>5 DEF x

(* A quotient is a word if both numbers are small. *)
LEMMA FloorDivIs ==
    ASSUME NEW l \in Int, NEW r \in Int, r # 0
    PROVE  /\ FloorDiv(l, r) \in Int
           /\ l \in (-Quarter)..(Quarter - 1) => InWord(FloorDiv(l, r))
<1>1. Quarter \in Nat \ {0} BY Powers
<1>2. ASSUME NEW a \in Int, NEW b \in Nat \ {0}, -Quarter <= a, a <= Quarter
      PROVE  -Quarter <= a \div b /\ a \div b <= Quarter
  <2>1. -Quarter \in Int /\ -Quarter <= 0 /\ 0 <= Quarter BY <1>1
  <2> QED BY <1>1, <1>2, <2>1, Between
<1>3. CASE r > 0
  <2>1. r \in Nat \ {0} /\ FloorDiv(l, r) = l \div r BY <1>3 DEF FloorDiv
  <2>2. l \div r \in Int BY <2>1, Division
  <2>3. ASSUME l \in (-Quarter)..(Quarter - 1) PROVE InWord(l \div r)
    <3>1. -Quarter <= l /\ l <= Quarter BY <1>1, <2>3
    <3>2. -Quarter <= l \div r /\ l \div r <= Quarter BY <1>2, <2>1, <3>1
    <3> HIDE DEF FloorDiv
    <3> QED BY <1>1, <2>2, <3>2, Words
  <2> QED BY <2>1, <2>2, <2>3
<1>4. CASE ~(r > 0)
  <2> DEFINE a == -l
             b == -r
  <2>1. a \in Int /\ b \in Nat \ {0} /\ FloorDiv(l, r) = a \div b BY <1>4 DEF FloorDiv, Negated
  <2> HIDE DEF a, b
  <2>2. a \div b \in Int BY <2>1, Division
  <2>3. ASSUME l \in (-Quarter)..(Quarter - 1) PROVE InWord(a \div b)
    <3>1. -Quarter <= a /\ a <= Quarter BY <1>1, <2>3 DEF a
    <3>2. -Quarter <= a \div b /\ a \div b <= Quarter BY <1>2, <2>1, <3>1
    <3> QED BY <1>1, <2>2, <3>2, Words
  <2> QED BY <2>1, <2>2, <2>3
<1> QED BY <1>3, <1>4

LEMMA DivIs ==
    ASSUME NEW l \in Int, NEW r \in Int
    PROVE  DivValues(Value(l), Value(r)) = IF r = 0 THEN DivideByZero ELSE Value(FloorDiv(l, r))
<1> DEFINE q == FloorDiv(l, r)
<1>1. Unpack(Value(l)) = l /\ Unpack(Value(r)) = r BY Unpacked
<1>2. DivValues(Value(l), Value(r)) =
        IF r = 0 THEN DivideByZero ELSE IF Both(Value(l), Value(r)) THEN NewInteger(q) ELSE NewBigint(q)
  BY <1>1 DEF DivValues
<1>3. r # 0 => q \in Int /\ (l \in (-Quarter)..(Quarter - 1) => InWord(q)) BY FloorDivIs
<1>4. Both(Value(l), Value(r)) => l \in (-Quarter)..(Quarter - 1) BY Unpacked DEF Both
<1> HIDE DEF q
<1>5. r # 0 => NewBigint(q) = Value(q) /\ (InWord(q) => NewInteger(q) = Value(q)) BY <1>3, Made
<1> QED BY <1>2, <1>3, <1>4, <1>5 DEF q

(* The truncating remainder is Ruby's if the signs are the same. *)
LEMMA RemIs ==
    ASSUME NEW l \in Int, NEW r \in Int, r # 0, (l < 0) <=> (r < 0)
    PROVE  TruncRem(l, r) \in Int /\ TruncRem(l, r) = l - r * FloorDiv(l, r)
<1>1. CASE r > 0
  <2>1. /\ r \in Nat \ {0} /\ Abs(l) = l /\ Abs(r) = r /\ ~(l < 0)
        /\ FloorDiv(l, r) = l \div r /\ TruncRem(l, r) = l % r
    BY <1>1 DEF Abs, TruncRem, FloorDiv
  <2>2. l = (r * (l \div r)) + (l % r) /\ l % r \in Int /\ l \div r \in Int BY <2>1, Division
  <2>3. r * (l \div r) \in Int BY <2>2, Product
  <2> QED BY <2>1, <2>2, <2>3
<1>2. CASE ~(r > 0)
  <2> DEFINE a == -l
             b == -r
  <2>1. /\ a \in Int /\ b \in Nat \ {0} /\ Abs(l) = a /\ Abs(r) = b /\ l < 0
        /\ FloorDiv(l, r) = a \div b
    BY <1>2 DEF Abs, FloorDiv, Negated
  <2>2. TruncRem(l, r) = -(a % b) BY <2>1 DEF TruncRem
  <2>3. l = -a /\ r = -b BY DEF a, b
  <2> HIDE DEF a, b
  <2> DEFINE d == a \div b
             m == a % b
  <2>4. a = (b * d) + m /\ m \in Int /\ d \in Int BY <2>1, Division
  <2> HIDE DEF d, m
  <2>5. b * d \in Int /\ (-b) * d = -(b * d) BY <2>1, <2>4
  <2>6. l - r * d = -m BY <2>1, <2>3, <2>4, <2>5
  <2> QED BY <2>1, <2>2, <2>4, <2>6 DEF d, m
<1> QED BY <1>1, <1>2
-----------------------------------------------------------------------------
(* The fast paths.                                                          *)

(* An overflow flag is set when the number is not small. *)
LEMMA Overflow ==
    ASSUME NEW s \in Int, NEW exit
    PROVE  /\ Unless(2 * s + 1, 2 * s + 1, exit)
                = IF s \in (-Quarter)..(Quarter - 1) THEN Value(s) ELSE exit
           /\ Unless(2 * s, 2 * s + 1, exit)
                = IF s \in (-Quarter)..(Quarter - 1) THEN Value(s) ELSE exit
<1>1. Quarter \in Nat \ {0} BY Powers
<1>2. InWord(2 * s + 1) <=> s \in (-Quarter)..(Quarter - 1)
  <2>1. InWord(2 * s + 1) <=> -2 * Quarter <= 2 * s + 1 /\ 2 * s + 1 < 2 * Quarter BY Words
  <2> QED BY <1>1, <2>1
<1>3. InWord(2 * s) <=> s \in (-Quarter)..(Quarter - 1)
  <2>1. InWord(2 * s) <=> -2 * Quarter <= 2 * s /\ 2 * s < 2 * Quarter BY Words
  <2> QED BY <1>1, <2>1
<1>4. s \in (-Quarter)..(Quarter - 1) => Value(s) = <<"fixnum", 2 * s + 1>> BY Smalls
<1> QED BY <1>2, <1>3, <1>4 DEF Unless

LEMMA FastIs ==
    ASSUME NEW l \in Int, NEW r \in Int, NEW exit
    PROVE  LET x == 2 * l + 1
               y == 2 * r + 1
           IN /\ FastAdd(x, y, exit)
                   = IF l + r \in (-Quarter)..(Quarter - 1) THEN Value(l + r) ELSE exit
              /\ FastSub(x, y, exit)
                   = IF l - r \in (-Quarter)..(Quarter - 1) THEN Value(l - r) ELSE exit
              /\ Unless(x - (y - 1), x - (y - 1), exit)
                   = IF l - r \in (-Quarter)..(Quarter - 1) THEN Value(l - r) ELSE exit
<1> DEFINE x == 2 * l + 1
           y == 2 * r + 1
<1>1. (x - 1) + y = 2 * (l + r) + 1 /\ l + r \in Int OBVIOUS
<1>2. x - y = 2 * (l - r) /\ (x - y) + 1 = 2 * (l - r) + 1 /\ l - r \in Int OBVIOUS
<1>3. x - (y - 1) = 2 * (l - r) + 1 OBVIOUS
<1> HIDE DEF x, y
<1>4. FastAdd(x, y, exit)
        = IF l + r \in (-Quarter)..(Quarter - 1) THEN Value(l + r) ELSE exit
  BY <1>1, Overflow DEF FastAdd
<1>5. FastSub(x, y, exit)
        = IF l - r \in (-Quarter)..(Quarter - 1) THEN Value(l - r) ELSE exit
  BY <1>2, Overflow DEF FastSub
<1>6. Unless(x - (y - 1), x - (y - 1), exit)
        = IF l - r \in (-Quarter)..(Quarter - 1) THEN Value(l - r) ELSE exit
  BY <1>2, <1>3, Overflow
<1> QED BY <1>4, <1>5, <1>6 DEF x, y

LEMMA GenericIs ==
    ASSUME NEW op \in {"add", "sub", "mul", "div", "rem"}, NEW l \in Int, NEW r \in Int,
           ~Truncates(op, l, r)
    PROVE  Values(op, Value(l), Value(r)) = Meaning(op, l, r)
<1>1. CASE op \in {"add", "sub", "mul"}
  <2>1. Operation(op, l, r) \in Int
    <3>1. CASE op = "add" BY <3>1, Operations
    <3>2. CASE op = "sub" BY <3>2, Operations
    <3>3. CASE op = "mul"
      <4>1. Operation(op, l, r) = l * r BY <3>3, Operations
      <4> QED BY <4>1, Product
    <3> QED BY <1>1, <3>1, <3>2, <3>3
  <2>2. CheckedValues(op, Value(l), Value(r)) = Value(Operation(op, l, r))
    BY <1>1, <2>1, CheckedIs
  <2> QED BY <1>1, <2>2 DEF Values, Meaning
<1>2. CASE op = "div"
  <2>1. DivValues(Value(l), Value(r)) = IF r = 0 THEN DivideByZero ELSE Value(FloorDiv(l, r))
    BY DivIs
  <2>2. Values(op, Value(l), Value(r)) = DivValues(Value(l), Value(r)) BY <1>2 DEF Values
  <2>3. Meaning(op, l, r) = IF r = 0 THEN DivideByZero ELSE Value(FloorDiv(l, r))
    BY <1>2 DEF Meaning
  <2> QED BY <2>1, <2>2, <2>3
<1>3. CASE op = "rem"
  <2>1. r # 0 /\ ((l < 0) <=> (r < 0)) BY <1>3 DEF Truncates
  <2>2. TruncRem(l, r) \in Int /\ TruncRem(l, r) = l - r * FloorDiv(l, r) BY <2>1, RemIs
  <2>3. Operation(op, l, r) = TruncRem(l, r) BY <1>3, Operations
  <2>4. CheckedValues(op, Value(l), Value(r)) = Value(TruncRem(l, r))
    BY <2>1, <2>2, <2>3, CheckedIs
  <2>5. Values(op, Value(l), Value(r)) = CheckedValues(op, Value(l), Value(r))
    BY <1>3 DEF Values
  <2>6. Meaning(op, l, r) = Value(l - r * FloorDiv(l, r)) BY <1>3, <2>1 DEF Meaning
  <2> QED BY <2>2, <2>4, <2>5, <2>6
<1> QED BY <1>1, <1>2, <1>3

(***************************************************************************)
(* +, -, *, / and % mean what they mean in Ruby: for all Integers, in      *)
(* words of any width, the interpreter's instruction, the generic function *)
(* it falls back on, and compiled code in each of its forms give the exact *)
(* result, as a small Integer exactly when it is small.  Not so % of       *)
(* numbers of different signs, which truncates, and % 0.                   *)
(***************************************************************************)
THEOREM ArithmeticIsExact ==
    ASSUME NEW op \in {"add", "sub", "mul", "div", "rem"}, NEW form \in {"rr", "ri", "ir"},
           NEW l \in Int, NEW r \in Int, ~Truncates(op, l, r)
    PROVE  /\ VmBinary(op, Value(l), Value(r)) = Meaning(op, l, r)
           /\ JitBinary(op, form, Value(l), Value(r)) = Meaning(op, l, r)
<1> DEFINE a == Value(l)
           b == Value(r)
           meaning == Meaning(op, l, r)
<1>1. Values(op, a, b) = meaning BY GenericIs
<1>2. Both(a, b) => a[2] = 2 * l + 1 /\ b[2] = 2 * r + 1 BY Unpacked DEF Both
<1>3. op = "add" => meaning = Value(l + r) BY Operations DEF Meaning
<1>4. op = "sub" => meaning = Value(l - r) BY Operations DEF Meaning
<1>5. ASSUME NEW exit, exit = meaning, Both(a, b)
      PROVE  /\ op = "add" => FastAdd(a[2], b[2], exit) = meaning
             /\ op = "sub" => FastSub(a[2], b[2], exit) = meaning
             /\ op = "sub" => Unless(a[2] - (b[2] - 1), a[2] - (b[2] - 1), exit) = meaning
  <2> HIDE DEF a, b, meaning
  <2>1. /\ FastAdd(a[2], b[2], exit)
             = IF l + r \in (-Quarter)..(Quarter - 1) THEN Value(l + r) ELSE exit
        /\ FastSub(a[2], b[2], exit)
             = IF l - r \in (-Quarter)..(Quarter - 1) THEN Value(l - r) ELSE exit
        /\ Unless(a[2] - (b[2] - 1), a[2] - (b[2] - 1), exit)
             = IF l - r \in (-Quarter)..(Quarter - 1) THEN Value(l - r) ELSE exit
    BY <1>2, <1>5, FastIs
  <2> QED BY <1>3, <1>4, <1>5, <2>1
<1> HIDE DEF a, b, meaning
<1>6. VmBinary(op, a, b) = meaning
  <2>1. CASE Both(a, b) /\ op = "add"
    BY <1>1, <1>5, <2>1 DEF VmBinary
  <2>2. CASE Both(a, b) /\ op = "sub"
    BY <1>1, <1>5, <2>2 DEF VmBinary
  <2>3. CASE ~Both(a, b) \/ op \notin {"add", "sub"}
    BY <1>1, <2>3 DEF VmBinary
  <2> QED BY <2>1, <2>2, <2>3
<1>7. JitBinary(op, form, a, b) = meaning
  <2>1. CASE Both(a, b) /\ op = "add"
    BY <1>5, <1>6, <2>1 DEF JitBinary
  <2>2. CASE Both(a, b) /\ op = "sub" /\ form = "ri"
    BY <1>5, <1>6, <2>2 DEF JitBinary
  <2>3. CASE Both(a, b) /\ op = "sub" /\ form # "ri"
    BY <1>5, <1>6, <2>3 DEF JitBinary
  <2>4. CASE ~Both(a, b) /\ op \in {"add", "sub"}
    BY <1>6, <2>4 DEF JitBinary
  <2>5. CASE op \in {"mul", "div", "rem"}
    BY <1>1, <2>5 DEF JitBinary
  <2> QED BY <2>1, <2>2, <2>3, <2>4, <2>5
<1> QED BY <1>6, <1>7 DEF a, b, meaning

-----------------------------------------------------------------------------
(* Shifts.                                                                  *)

(* Shifting a tagged word right and setting its lowest bit. *)
LEMMA ShrIs ==
    ASSUME NEW l \in Int, l \in (-Quarter)..(Quarter - 1), NEW n \in 0..(WordBits - 1)
    PROVE  FastShr(2 * l + 1, n) = Value(l \div 2^n) /\ InWord(l \div 2^n)
<1> DEFINE q == l \div 2^n
<1>1. /\ WordBits \in Nat /\ n \in Nat /\ n < WordBits /\ n \in 0..WordBits
      /\ 2^n \in Nat \ {0} /\ Quarter \in Nat \ {0}
  BY FixnumAssumption, WordPowers, Powers
<1>2. q \in Int /\ -Quarter <= q /\ q <= Quarter - 1
  <2>1. -Quarter <= l /\ l <= Quarter - 1 /\ -Quarter \in Int /\ Quarter - 1 \in Int /\ -Quarter <= 0 /\ 0 <= Quarter - 1
    BY <1>1
  <2>2. -Quarter <= l \div 2^n /\ l \div 2^n <= Quarter - 1 BY <1>1, <2>1, Between
  <2> QED BY <1>1, <2>2, Division
<1>3. Odd((2 * l + 1) \div 2^n) = 2 * q + 1
  <2>1. CASE n = 0
    <3>1. 2^0 = 1 OBVIOUS
    <3>2. (2 * l + 1) \div 1 = 2 * l + 1 /\ l \div 1 = l OBVIOUS
    <3>3. (2 * l + 1) % 2 = 1 OBVIOUS
    <3> QED BY <2>1, <3>1, <3>2, <3>3 DEF Odd
  <2>2. CASE n # 0
    <3> DEFINE b == 2^(n - 1)
    <3>1. b \in Nat \ {0} /\ 2^n = 2 * b
      <4>1. n - 1 \in 0..WordBits /\ (n - 1) + 1 = n BY <1>1, <2>2
      <4> QED BY <4>1, WordPowers
    <3> HIDE DEF b
    <3> DEFINE c == 2 * b
               m == l % c
    <3>2. c \in Nat \ {0} BY <3>1
    <3>3. m \in Int /\ 0 <= m /\ m < c /\ l = (c * q) + m
      <4>1. q = l \div c BY <3>1
      <4> HIDE DEF c, q
      <4> QED BY <3>2, <4>1, Division
    <3> HIDE DEF m, q, c
    <3> DEFINE p == b * q
    <3>4. p \in Int BY <1>2, <3>1, Product
    <3>5. c * q = 2 * p /\ (2 * q) * c = 4 * p /\ (2 * q + 1) * c = (4 * p) + (2 * b) BY <1>2, <3>1 DEF c
    <3> HIDE DEF p
    <3>6. CASE m < b
      <4>1. (2 * q) * c <= 2 * l + 1 /\ 2 * l + 1 < (2 * q) * c + c
        BY <3>1, <3>3, <3>4, <3>5, <3>6 DEF c
      <4>2. (2 * l + 1) \div c = 2 * q
        <5> DEFINE x == 2 * l + 1
                   y == 2 * q
        <5>1. x \in Int /\ y \in Int BY <1>2
        <5>2. y * c <= x /\ x < y * c + c BY <4>1
        <5> HIDE DEF x, y
        <5>3. x \div c = y BY <3>2, <5>1, <5>2, Quotient
        <5> QED BY <5>3 DEF x, y
      <4>3. (2 * q) % 2 = 0 BY <1>2
      <4> QED BY <3>1, <4>2, <4>3 DEF Odd, c
    <3>7. CASE b <= m
      <4>1. (2 * q + 1) * c <= 2 * l + 1 /\ 2 * l + 1 < (2 * q + 1) * c + c
        BY <3>1, <3>3, <3>4, <3>5, <3>7 DEF c
      <4>2. (2 * l + 1) \div c = 2 * q + 1
        <5> DEFINE x == 2 * l + 1
                   y == 2 * q + 1
        <5>1. x \in Int /\ y \in Int BY <1>2
        <5>2. y * c <= x /\ x < y * c + c BY <4>1
        <5> HIDE DEF x, y
        <5>3. x \div c = y BY <3>2, <5>1, <5>2, Quotient
        <5> QED BY <5>3 DEF x, y
      <4>3. (2 * q + 1) % 2 = 1 BY <1>2
      <4> QED BY <3>1, <4>2, <4>3 DEF Odd, c
    <3> QED BY <3>1, <3>3, <3>6, <3>7
  <2> QED BY <2>1, <2>2
<1>4. FastShr(2 * l + 1, n) = <<"fixnum", Odd((2 * l + 1) \div 2^n)>>
  BY <1>1 DEF FastShr
<1> HIDE DEF q
<1>5. Value(q) = <<"fixnum", 2 * q + 1>> BY <1>1, <1>2, Smalls
<1>6. InWord(q) BY <1>1, <1>2, Words
<1> QED BY <1>3, <1>4, <1>5, <1>6 DEF q

(* Further shifts leave the sign. *)
LEMMA RightIs ==
    ASSUME NEW l \in Int, l \in (-Quarter)..(Quarter - 1), NEW n \in 0..MaxPower
    PROVE  FastShr(2 * l + 1, n) = Value(l \div 2^n) /\ IntShr(l, n) = Value(l \div 2^n)
<1> DEFINE q == l \div 2^n
<1>1. /\ WordBits \in Nat /\ n \in Nat /\ Quarter \in Nat \ {0} /\ 2^n \in Nat \ {0}
  BY Widths, Powers, PowersAssumption
<1>2. CASE n < WordBits
  <2>1. n \in 0..(WordBits - 1) BY <1>1, <1>2
  <2>2. FastShr(2 * l + 1, n) = Value(q) /\ InWord(q) /\ q \in Int BY <1>1, <2>1, ShrIs, Division
  <2>3. IntShr(l, n) = NewInteger(q) BY <1>2 DEF IntShr
  <2> HIDE DEF q
  <2>4. NewInteger(q) = Value(q) BY <2>2, Made
  <2> QED BY <2>2, <2>3, <2>4 DEF q
<1>3. CASE ~(n < WordBits)
  <2> DEFINE s == IF l >= 0 THEN 0 ELSE -1
             b == 2^n
  <2>1. WordBits - 2 \in 0..n BY <1>1, <1>3, Widths
  <2>2. Quarter <= b BY <2>1, Monotone DEF Quarter
  <2>3. q = s
    <3>1. b \in Nat \ {0} BY <1>1
    <3> HIDE DEF b
    <3>2. s * b <= l /\ l < s * b + b /\ s \in Int BY <1>1, <2>2, <3>1
    <3> HIDE DEF s
    <3>3. l \div b = s BY <3>1, <3>2, Quotient
    <3> QED BY <3>3 DEF b
  <2>4. IntShr(l, n) = NewInteger(s) BY <1>3 DEF IntShr
  <2>5. s \in Int /\ InWord(s) /\ s \in (-Quarter)..(Quarter - 1) BY <1>1, Words
  <2>6. FastShr(2 * l + 1, n) = <<"fixnum", 2 * s + 1>>
    <3>1. FastShr(2 * l + 1, n) = <<"fixnum", Odd(IF 2 * l + 1 < 0 THEN -1 ELSE 0)>>
      BY <1>1, <1>3 DEF FastShr
    <3>2. Odd(-1) = -1 /\ Odd(0) = 1
      <4>1. \A z \in Int : (2 * z + 1) % 2 = 1 OBVIOUS
      <4>2. -1 \in Int /\ 2 * (-1) + 1 = -1 /\ 0 % 2 = 0 OBVIOUS
      <4>3. ASSUME NEW x \in Int, x = -1 PROVE Odd(x) = x
        <5>1. x % 2 = 1 BY <4>1, <4>2, <4>3
        <5> QED BY <5>1 DEF Odd
      <4>4. Odd(0) = 1 BY <4>2 DEF Odd
      <4> HIDE DEF Odd
      <4> QED BY <4>2, <4>3, <4>4
    <3>3. CASE l >= 0 BY <3>1, <3>2, <3>3
    <3>4. CASE ~(l >= 0) BY <3>1, <3>2, <3>4
    <3> QED BY <3>3, <3>4
  <2> HIDE DEF s
  <2>7. NewInteger(s) = Value(s) /\ Value(s) = <<"fixnum", 2 * s + 1>> BY <2>5, Made, Smalls
  <2> HIDE DEF q
  <2>8. Value(q) = Value(s) BY <2>3
  <2> QED BY <2>4, <2>6, <2>7, <2>8 DEF q
<1> QED BY <1>2, <1>3

(* A tagged word is not 0. *)
LEMMA SomeBitIsSet ==
    ASSUME NEW l \in Int
    PROVE  LeadingZeros(2 * l + 1) \in Nat /\ LeadingZeros(2 * l + 1) < WordBits
<1> DEFINE x == 2 * l + 1
           S == {k \in 0..WordBits - 1 : x < 2^k}
<1>0. WordBits \in Nat /\ WordBits >= 3 BY Widths
<1>1. CASE x < 0 BY <1>0, <1>1 DEF LeadingZeros
<1>2. CASE ~(x < 0)
  <2>1. S \subseteq 1..WordBits - 1
    <3> SUFFICES ASSUME NEW k \in S, k = 0 PROVE FALSE BY <1>0
    <3>1. 2^0 = 1 OBVIOUS
    <3>2. x < 2^0 OBVIOUS
    <3> QED BY <1>2, <3>1, <3>2
  <2>2. IsFiniteSet(1..WordBits - 1) /\ Cardinality(1..WordBits - 1) = WordBits - 1
    <3>1. 1 \in Int /\ WordBits - 1 \in Int BY <1>0
    <3>2. /\ IsFiniteSet(1..WordBits - 1)
          /\ Cardinality(1..WordBits - 1) = IF 1 > WordBits - 1 THEN 0 ELSE ((WordBits - 1) - 1) + 1
      BY ONLY <3>1, FS_Interval, SMT
    <3> QED BY <1>0, <3>2
  <2>3. LeadingZeros(x) = Cardinality(S) BY <1>2 DEF LeadingZeros
  <2> HIDE DEF S
  <2>4. IsFiniteSet(S) /\ Cardinality(S) <= WordBits - 1 BY <2>1, <2>2, FS_Subset
  <2>5. Cardinality(S) \in Nat BY <2>4, FS_CardinalityType
  <2> QED BY <1>0, <2>3, <2>4, <2>5
<1> QED BY <1>1, <1>2

(* A number with more leading zeros than the count keeps its sign. *)
LEMMA Zeros ==
    ASSUME NEW l \in Nat, NEW n \in 0..(WordBits - 1), n < LeadingZeros(2 * l + 1)
    PROVE  l * 2^n < Quarter
<1> DEFINE x == 2 * l + 1
           S == {k \in 0..(WordBits - 1) : x < 2^k}
           e == (WordBits - 1) - n
<1>1. /\ WordBits \in Nat \ {0} /\ n \in Nat /\ n < WordBits /\ e \in 0..WordBits /\ x \in Nat
      /\ 2^(WordBits - 1) = 2 * Quarter /\ Quarter \in Nat \ {0}
  BY FixnumAssumption, Powers
<1>2. \A k \in 0..WordBits : 2^k \in Nat \ {0} BY WordPowers
<1>3. n < Cardinality(S) BY DEF LeadingZeros
<1>4. x < 2^e
  <2> SUFFICES ASSUME 2^e <= x PROVE FALSE BY <1>1, <1>2
  <2>1. \A k \in S : k \in (WordBits - n)..(WordBits - 1)
    <3> SUFFICES ASSUME NEW k \in S, k <= e PROVE FALSE BY <1>1
    <3>1. k \in Nat /\ k <= e /\ x < 2^k /\ k \in 0..e /\ e - k \in 0..WordBits /\ k \in 0..WordBits BY <1>1
    <3>0. e \in 0..MaxPower BY <1>1, Widths
    <3>2. 2^(e - k) * 2^k = 2^e BY <3>0, <3>1, Exponents
    <3>3. 2^(e - k) \in Nat \ {0} /\ 2^k \in Nat \ {0} /\ 2^e \in Nat BY <1>1, <1>2, <3>1
    <3>4. 2^(e - k) * 2^k >= 2^k BY <3>3
    <3> HIDE DEF e, x
    <3> QED BY <1>1, <3>1, <3>2, <3>3, <3>4
  <2>2. S \subseteq (WordBits - n)..(WordBits - 1) BY <2>1
  <2>3. /\ IsFiniteSet((WordBits - n)..(WordBits - 1))
        /\ Cardinality((WordBits - n)..(WordBits - 1)) = n
    <3>1. WordBits - n \in Int /\ WordBits - 1 \in Int BY <1>1
    <3>2. /\ IsFiniteSet((WordBits - n)..(WordBits - 1))
          /\ Cardinality((WordBits - n)..(WordBits - 1))
               = IF WordBits - n > WordBits - 1 THEN 0 ELSE ((WordBits - 1) - (WordBits - n)) + 1
      BY ONLY <3>1, FS_Interval, SMT
    <3> QED BY <1>1, <3>2
  <2> HIDE DEF S
  <2>4. IsFiniteSet(S) /\ Cardinality(S) <= n BY <2>2, <2>3, FS_Subset
  <2>5. Cardinality(S) \in Nat BY <2>4, FS_CardinalityType
  <2> QED BY <1>1, <1>3, <2>4, <2>5
<1>5. 2^e * 2^n = 2 * Quarter
  <2>1. n \in 0..(WordBits - 1) /\ WordBits - 1 \in 0..MaxPower BY <1>1, Widths
  <2> QED BY <1>1, <2>1, Exponents
<1> DEFINE b == 2^n
           c == 2^e
<1>6. b \in Nat \ {0} /\ c \in Nat BY <1>1, <1>2
<1>7. c * b = 2 * Quarter /\ 2 * l + 1 < c BY <1>4, <1>5
<1> HIDE DEF b, c
<1> DEFINE d == c - (2 * l + 1)
<1>8. d \in Nat /\ c = 2 * l + 1 + d BY <1>6, <1>7
<1> HIDE DEF d
<1>9. c * b = 2 * (l * b) + b + (d * b) /\ d * b >= 0 /\ l * b \in Nat /\ d * b \in Nat BY <1>6, <1>8
<1>10. 2 * (l * b) < 2 * Quarter BY <1>6, <1>7, <1>9
<1> QED BY <1>1, <1>9, <1>10 DEF b

LEMMA ShlIs ==
    ASSUME NEW l \in Int, l \in (-Quarter)..(Quarter - 1), NEW n \in 0..MaxPower, NEW exit,
           n = LeadingZeros(2 * l + 1) => IsFixnum(Value(l * 2^n))
    PROVE  \/ FastShl(2 * l + 1, n, exit) = exit
           \/ FastShl(2 * l + 1, n, exit) = Value(l * 2^n)
<1> SUFFICES ASSUME ~(n > LeadingZeros(2 * l + 1))
             PROVE  FastShl(2 * l + 1, n, exit) = Value(l * 2^n)
  BY DEF FastShl
<1> DEFINE v == l * 2^n
<1>0. LeadingZeros(2 * l + 1) \in Nat /\ LeadingZeros(2 * l + 1) < WordBits BY SomeBitIsSet
<1>1. /\ n \in Nat /\ n \in 0..(WordBits - 1) /\ Quarter \in Nat \ {0} /\ 2^n \in Nat \ {0}
  BY <1>0, Widths, PowersAssumption, Powers
<1>2. v \in Int BY <1>1, Product
<1>3. v \in (-Quarter)..(Quarter - 1)
  <2>1. CASE n = LeadingZeros(2 * l + 1) BY <1>2, <2>1, Unpacked
  <2>2. CASE n < LeadingZeros(2 * l + 1)
    <3>1. ~(2 * l + 1 < 0) BY <1>1, <2>2 DEF LeadingZeros
    <3>2. l \in Nat BY <3>1
    <3>3. l * 2^n < Quarter BY <1>1, <2>2, <3>2, Zeros
    <3>4. 0 <= l * 2^n BY <1>1, <3>2
    <3> QED BY <1>1, <1>2, <3>3, <3>4
  <2> QED BY <1>0, <1>1, <2>1, <2>2
<1>4. ((2 * l + 1) - 1) * 2^n = 2 * v
  <2> DEFINE b == 2^n
  <2>1. b \in Nat BY <1>1
  <2> HIDE DEF b
  <2>2. ((2 * l + 1) - 1) * b = 2 * (l * b) BY <2>1
  <2> QED BY <2>2 DEF b
<1> HIDE DEF v
<1>5. Word(2 * v) = 2 * v BY <1>1, <1>2, <1>3, Words DEF InWord
<1>6. Odd(2 * v) = 2 * v + 1
  <2>1. (2 * v) % 2 = 0 BY <1>2
  <2> QED BY <2>1 DEF Odd
<1>7. FastShl(2 * l + 1, n, exit) = <<"fixnum", 2 * v + 1>> BY <1>4, <1>5, <1>6 DEF FastShl
<1> QED BY <1>2, <1>3, <1>7, Smalls DEF v

LEMMA ShlIsInt ==
    ASSUME NEW l \in Int, NEW n \in 0..MaxPower, n < WordBits => InWord(l * 2^n)
    PROVE  IntShl(l, n) = Value(l * 2^n)
<1> DEFINE v == l * 2^n
<1>1. v \in Int
  <2>1. 2^n \in Nat BY PowersAssumption
  <2> QED BY <2>1, Product
<1>2. IntShl(l, n) = IF n < WordBits THEN NewInteger(Word(v)) ELSE NewBigint(v) BY DEF IntShl
<1>3. n < WordBits => InWord(v) OBVIOUS
<1> HIDE DEF v
<1>4. n < WordBits => Word(v) = v BY <1>3 DEF InWord
<1>5. NewBigint(v) = Value(v) /\ (InWord(v) => NewInteger(v) = Value(v)) BY <1>1, Made
<1> QED BY <1>2, <1>3, <1>4, <1>5 DEF v

(***************************************************************************)
(* Shifts by any count that is not cut are exact, except that a number     *)
(* that leaves the word on the left loses its upper bits (ShiftsOut).  So  *)
(* are compiled shifts that leave the sign alone: a shift by exactly as    *)
(* many bits as are free (IntoSign) is one too many.                       *)
(***************************************************************************)
THEOREM ShiftsAreExact ==
    ASSUME NEW op \in {"shl", "shr"}, NEW form \in {"rr", "ri", "ir"},
           NEW l \in Int, NEW r \in Int, Abs(r) \in 0..MaxPower,
           ~ShiftsOut(op, l, r), ~CountsLost(op, r)
    PROVE  /\ VmBinary(op, Value(l), Value(r)) = Meaning(op, l, r)
           /\ ~IntoSign(op, l, r) => JitBinary(op, form, Value(l), Value(r)) = Meaning(op, l, r)
<1> DEFINE a == Value(l)
           b == Value(r)
           n == Abs(r)
           left == ShiftsLeft(op, r)
           meaning == Meaning(op, l, r)
<1>1. n \in Nat /\ n \in 0..MaxPower /\ 2^n \in Nat \ {0} /\ Quarter \in Nat \ {0}
  <2>1. n \in 0..MaxPower OBVIOUS
  <2> HIDE DEF n
  <2> QED BY <2>1, PowersAssumption, Powers
<1>2. Count(n) = n BY DEF CountsLost
<1>3. Unpack(a) = l /\ Unpack(b) = r BY Unpacked
<1>4. meaning = Value(IF left THEN l * 2^n ELSE l \div 2^n) BY DEF Meaning
<1>5. l * 2^n \in Int /\ l \div 2^n \in Int BY <1>1, Product, Division
<1>6. left /\ IsFixnum(a) => (n < WordBits => InWord(l * 2^n)) BY <1>1 DEF ShiftsOut
<1>7. IsFixnum(a) => /\ l \in (-Quarter)..(Quarter - 1) /\ a[2] = 2 * l + 1
                     /\ FastShr(2 * l + 1, n) = Value(l \div 2^n)
                     /\ IntShr(l, n) = Value(l \div 2^n)
  <2>1. IsFixnum(a) => l \in (-Quarter)..(Quarter - 1) /\ a[2] = 2 * l + 1 BY Unpacked
  <2>2. l \in (-Quarter)..(Quarter - 1) =>
          FastShr(2 * l + 1, n) = Value(l \div 2^n) /\ IntShr(l, n) = Value(l \div 2^n)
    <3> HIDE DEF n
    <3> QED BY <1>1, RightIs
  <2> QED BY <2>1, <2>2
<1>8. ShiftValues(op, a, b) = meaning
  <2> HIDE DEF a, b, n, left, meaning
  <2>1. ShiftValues(op, a, b) =
          IF IsFixnum(a) THEN IF left THEN IntShl(l, n) ELSE IntShr(l, n)
          ELSE NewBigint(IF left THEN l * 2^n ELSE l \div 2^n)
    BY <1>2, <1>3 DEF ShiftValues, n, left
  <2>2. CASE ~IsFixnum(a) /\ left
    <3>1. NewBigint(l * 2^n) = Value(l * 2^n) BY <1>5, Made
    <3> QED BY <1>4, <2>1, <2>2, <3>1
  <2>3. CASE ~IsFixnum(a) /\ ~left
    <3>1. NewBigint(l \div 2^n) = Value(l \div 2^n) BY <1>5, Made
    <3> QED BY <1>4, <2>1, <2>3, <3>1
  <2>4. CASE IsFixnum(a) /\ left
    <3>1. IntShl(l, n) = Value(l * 2^n) BY <1>1, <1>6, <2>4, ShlIsInt
    <3> QED BY <1>4, <2>1, <2>4, <3>1
  <2>5. CASE IsFixnum(a) /\ ~left BY <1>4, <1>7, <2>1, <2>5
  <2> QED BY <2>2, <2>3, <2>4, <2>5
<1>9. Values(op, a, b) = meaning BY <1>8 DEF Values
<1>10. ~IntoSign(op, l, r) /\ left /\ IsFixnum(a) => FastShl(2 * l + 1, n, meaning) = meaning
  <2> SUFFICES ASSUME ~IntoSign(op, l, r), left, IsFixnum(a)
               PROVE  FastShl(2 * l + 1, n, meaning) = meaning
    OBVIOUS
  <2>1. l \in (-Quarter)..(Quarter - 1) BY <1>7
  <2>2. Tag(l) = 2 * l + 1
    <3>1. InWord(2 * l + 1) BY <1>1, <2>1, Words
    <3> QED BY <3>1 DEF Tag, InWord
  <2>3. n = LeadingZeros(2 * l + 1) => IsFixnum(Value(l * 2^n)) BY <2>2 DEF IntoSign
  <2>4. meaning = Value(l * 2^n) BY <1>4
  <2> HIDE DEF n, meaning
  <2>5. \/ FastShl(2 * l + 1, n, meaning) = meaning
        \/ FastShl(2 * l + 1, n, meaning) = Value(l * 2^n)
    BY <1>1, <2>1, <2>3, ShlIs
  <2> QED BY <2>4, <2>5
<1>11. Both(a, b) => IsFixnum(a) /\ Untag(b[2]) = r BY <1>3 DEF Both, Unpack
<1>12. ~left => meaning = Value(l \div 2^n) BY <1>4
<1> HIDE DEF a, b, meaning
<1>13. VmBinary(op, a, b) = meaning
  <2>1. op \notin {"add", "sub", "bitor", "bitand", "bitxor"} OBVIOUS
  <2>2. VmBinary(op, a, b) = Values(op, a, b) BY <2>1 DEF VmBinary
  <2> QED BY <1>9, <2>2
<1>14. ASSUME ~IntoSign(op, l, r) PROVE JitBinary(op, form, a, b) = meaning
  <2>1. CASE ~Both(a, b) BY <1>9, <2>1 DEF JitBinary
  <2>2. CASE Both(a, b) /\ left
    <3>1. JitBinary(op, form, a, b) = FastShl(a[2], n, Values(op, a, b))
      BY <1>11, <2>2 DEF JitBinary
    <3>2. a[2] = 2 * l + 1 BY <1>7, <1>11, <2>2
    <3> HIDE DEF n, left
    <3> QED BY <1>9, <1>10, <1>11, <1>14, <2>2, <3>1, <3>2
  <2>3. CASE Both(a, b) /\ ~left
    <3>1. JitBinary(op, form, a, b) = FastShr(a[2], n) BY <1>11, <2>3 DEF JitBinary
    <3>2. a[2] = 2 * l + 1 BY <1>7, <1>11, <2>3
    <3> HIDE DEF n, left
    <3> QED BY <1>7, <1>11, <1>12, <2>3, <3>1, <3>2
  <2> QED BY <2>1, <2>2, <2>3
<1> QED BY <1>13, <1>14 DEF a, b, meaning

-----------------------------------------------------------------------------
(* Bits.  The bits of small Integers above their tags are all the same, and *)
(* so are those of the result.                                              *)

BitOps == {"bitand", "bitor", "bitxor"}
Digit(op, x, y, i) == BitOp(op, Bit(x, i), Bit(y, i))
Sums(g, op, x, y, n) ==
    g[0] = 0 /\ \A j \in 1..n : g[j] = g[j - 1] + 2^(j - 1) * Digit(op, x, y, j - 1)

LEMMA Digits ==
    ASSUME NEW op \in BitOps, NEW x \in {0, 1}, NEW y \in {0, 1}
    PROVE  BitOp(op, x, y) \in {0, 1}
<1>1. CASE x = 0 /\ y = 0 BY <1>1 DEF BitOps, BitOp
<1>2. CASE x = 1 /\ y = 0 BY <1>2 DEF BitOps, BitOp
<1>3. CASE x = 0 /\ y = 1 BY <1>3 DEF BitOps, BitOp
<1>4. CASE x = 1 /\ y = 1 BY <1>4 DEF BitOps, BitOp
<1> QED BY <1>1, <1>2, <1>3, <1>4

LEMMA BitIsDigit ==
    ASSUME NEW x \in Int, NEW i \in 0..MaxPower
    PROVE  Bit(x, i) \in {0, 1}
<1>1. 2^i \in Nat \ {0} BY PowersAssumption
<1> DEFINE q == x \div 2^i
<1>2. q \in Int BY <1>1, Division
<1> HIDE DEF q
<1>3. q % 2 \in {0, 1} BY <1>2
<1> QED BY <1>3 DEF Bit, q

LEMMA DigitsAre ==
    ASSUME NEW op \in BitOps, NEW x \in Int, NEW y \in Int, NEW i \in 0..MaxPower
    PROVE  Digit(op, x, y, i) \in {0, 1}
<1>1. Bit(x, i) \in {0, 1} /\ Bit(y, i) \in {0, 1} BY BitIsDigit
<1> QED BY <1>1, Digits DEF Digit

(* The bits of a small Integer from its sign on. *)
LEMMA SignBits ==
    ASSUME NEW x \in Int, x \in (-Quarter)..(Quarter - 1), NEW i \in (WordBits - 2)..MaxPower
    PROVE  Bit(x, i) = IF x < 0 THEN 1 ELSE 0
<1>1. i \in 0..MaxPower /\ WordBits - 2 \in 0..i BY Widths
<1> DEFINE b == 2^i
<1>2. b \in Nat \ {0} /\ Quarter \in Nat \ {0} BY <1>1, PowersAssumption, Powers
<1>3. Quarter <= b BY <1>1, Monotone DEF Quarter
<1>4. Bit(x, i) = (x \div b) % 2 BY DEF Bit
<1> HIDE DEF b
<1>5. CASE x < 0
  <2>1. -1 \in Int /\ -1 * b <= x /\ x < -1 * b + b BY <1>2, <1>3, <1>5
  <2>2. x \div b = -1 BY <1>2, <2>1, Quotient
  <2> QED BY <1>4, <1>5, <2>2
<1>6. CASE ~(x < 0)
  <2>1. 0 * b <= x /\ x < 0 * b + b BY <1>2, <1>3, <1>6
  <2>2. x \div b = 0 BY <1>2, <2>1, Quotient
  <2> QED BY <1>4, <1>6, <2>2
<1> QED BY <1>5, <1>6

(* A tagged word has the bits of the number, after its tag. *)
LEMMA TaggedBits ==
    ASSUME NEW x \in Int, NEW i \in 0..MaxPower
    PROVE  Bit(2 * x + 1, 0) = 1 /\ Bit(2 * x + 1, i + 1) = Bit(x, i)
<1>1. 2^0 = 1 /\ (2 * x + 1) \div 1 = 2 * x + 1 /\ (2 * x + 1) % 2 = 1 OBVIOUS
<1>2. Bit(2 * x + 1, 0) = 1 BY <1>1 DEF Bit
<1> DEFINE b == 2^i
           q == x \div b
           c == 2 * b
           y == 2 * x + 1
<1>3. b \in Nat \ {0} /\ 2^(i + 1) = c BY PowersAssumption
<1>4. Bit(y, i + 1) = (y \div c) % 2 /\ Bit(x, i) = q % 2 BY <1>3 DEF Bit
<1> HIDE DEF b
<1>5. q \in Int /\ x = (b * q) + (x % b) /\ x % b \in Int /\ 0 <= x % b /\ x % b < b BY <1>3, Division
<1> DEFINE m == x % b
           p == b * q
<1> HIDE DEF q, m
<1>6. p \in Int /\ q * c = 2 * p BY <1>3, <1>5, Product
<1>7. m \in Int /\ 0 <= m /\ m < b /\ x = p + m BY <1>5 DEF m
<1> HIDE DEF p
<1>8. q * c <= y /\ y < q * c + c BY <1>3, <1>6, <1>7
<1>9. y \in Int /\ c \in Nat \ {0} BY <1>3
<1> HIDE DEF y, c
<1>10. y \div c = q BY <1>5, <1>8, <1>9, Quotient
<1> QED BY <1>2, <1>4, <1>10 DEF y

(* The sum that Bitwise adds up, as a table. *)
LEMMA BitwiseSums ==
    ASSUME NEW op \in BitOps, NEW x \in Int, NEW y \in Int, NEW n \in 0..MaxPower
    PROVE  \E g : Sums(g, op, x, y, n) /\ Bitwise(op, x, y, n) = Signed(g[n], n)
<1> DEFINE step == [j \in 1..n |-> [t \in Int |-> t + 2^(j - 1) * Digit(op, x, y, j - 1)]]
<1>1. n \in Nat /\ 0 <= n /\ 0 \in Nat /\ 0 \in Int BY Widths
<1>2. ASSUME NEW j \in 1..n PROVE 2^(j - 1) * Digit(op, x, y, j - 1) \in Int
  <2>1. j - 1 \in 0..MaxPower BY Widths
  <2>2. 2^(j - 1) \in Int /\ Digit(op, x, y, j - 1) \in Int
    <3>1. 2^(j - 1) \in Nat BY <2>1, PowersAssumption
    <3>2. Digit(op, x, y, j - 1) \in {0, 1} BY <2>1, DigitsAre
    <3> QED BY <3>1, <3>2
  <2> QED BY <2>2, Product
<1>3. \A j \in (0 + 1)..n : \A t \in Int : step[j][t] \in Int
  <2> SUFFICES ASSUME NEW j \in (0 + 1)..n, NEW t \in Int PROVE step[j][t] \in Int OBVIOUS
  <2>1. j \in 1..n BY <1>1
  <2>2. step[j][t] = t + 2^(j - 1) * Digit(op, x, y, j - 1) BY <2>1
  <2>3. 2^(j - 1) * Digit(op, x, y, j - 1) \in Int BY <1>2, <2>1
  <2> HIDE DEF step
  <2> QED BY <2>2, <2>3
<1>4. \A j \in 1..n : \A t \in Int : step[j][t] = t + 2^(j - 1) * Digit(op, x, y, j - 1) OBVIOUS
<1> HIDE DEF step
<1>5. PICK g \in [0..n -> Int] : Filled(g, 0, step, 0, n) BY <1>1, <1>3, TablesExist
<1>6. Sums(g, op, x, y, n)
  <2>1. g[0] = 0 BY <1>5 DEF Filled
  <2>2. ASSUME NEW j \in 1..n PROVE g[j] = g[j - 1] + 2^(j - 1) * Digit(op, x, y, j - 1)
    <3>1. g[j] = step[j][g[j - 1]] BY <1>1, <1>5 DEF Filled
    <3>2. j - 1 \in 0..n BY <1>1
    <3>3. g[j - 1] \in Int BY <1>5, <3>2
    <3> QED BY <1>4, <3>1, <3>3
  <2> QED BY <2>1, <2>2 DEF Sums
<1> DEFINE Body(f) == [k \in 0..n |-> IF k = 0 THEN 0
                         ELSE f[k - 1] + 2^(k - 1) * BitOp(op, Bit(x, k - 1), Bit(y, k - 1))]
<1>7. g = Body(g)
  <2>1. \A k \in 0..n : g[k] = IF k = 0 THEN 0
                               ELSE g[k - 1] + 2^(k - 1) * BitOp(op, Bit(x, k - 1), Bit(y, k - 1))
    BY <1>6 DEF Sums, Digit
  <2> QED BY <1>5, <2>1
<1> DEFINE sum == CHOOSE f : f = Body(f)
<1>8. sum = Body(sum)
  <2> HIDE DEF Body
  <2> QED BY <1>7
<1>9. Bitwise(op, x, y, n) = Signed(sum[n], n) BY DEF Bitwise
<1>10. Sums(sum, op, x, y, n)
  <2>1. \A k \in 0..n : sum[k] = Body(sum)[k] BY <1>8
  <2> HIDE DEF sum
  <2>2. \A k \in 0..n : sum[k] = IF k = 0 THEN 0
                               ELSE sum[k - 1] + 2^(k - 1) * BitOp(op, Bit(x, k - 1), Bit(y, k - 1))
    BY <2>1
  <2> QED BY <1>1, <2>2 DEF Sums, Digit
<1> QED BY <1>9, <1>10

LEMMA SumBounds ==
    ASSUME NEW op \in BitOps, NEW x \in Int, NEW y \in Int, NEW n \in 0..MaxPower,
           NEW g, Sums(g, op, x, y, n)
    PROVE  \A k \in 0..n : g[k] \in Nat /\ g[k] < 2^k
<1> DEFINE Q == {k \in Nat : k <= n /\ ~(g[k] \in Nat /\ g[k] < 2^k)}
<1>0. n \in Nat /\ n <= MaxPower BY Widths
<1>1. Q = {}
  <2> SUFFICES ASSUME Q # {} PROVE FALSE OBVIOUS
  <2>1. PICK m \in Q : \A k \in Q : m <= k BY Least
  <2>0. m \in Nat /\ m <= n /\ ~(g[m] \in Nat /\ g[m] < 2^m) BY <2>1
  <2>2. m # 0
    <3>1. 2^0 = 1 OBVIOUS
    <3>2. g[0] = 0 BY DEF Sums
    <3>3. g[0] \in Nat /\ g[0] < 2^0 BY <3>1, <3>2
    <3> QED BY <2>0, <3>3
  <2>3. m - 1 \in Nat /\ m - 1 <= n /\ m - 1 \notin Q /\ m \in 1..n /\ m - 1 \in 0..MaxPower
    <3> HIDE DEF Q
    <3>0. MaxPower \in Nat /\ m \in Nat /\ m <= n BY <2>0, Widths
    <3>1. m - 1 \in Nat /\ m - 1 <= n /\ m \in 1..n /\ m - 1 \in 0..MaxPower BY <1>0, <2>2, <3>0
    <3>2. m - 1 \in Q => m <= m - 1 BY <2>1
    <3> QED BY <2>0, <3>1, <3>2
  <2> DEFINE b == 2^(m - 1)
             d == Digit(op, x, y, m - 1)
             a == g[m - 1]
  <2>4. a \in Nat /\ a < b BY <2>3
  <2>5. g[m] = a + b * d BY <2>3 DEF Sums
  <2>6. d \in {0, 1} BY <2>3, DigitsAre
  <2>7. b \in Nat \ {0} /\ 2^m = 2 * b
    <3>1. (m - 1) + 1 = m BY <2>3
    <3> QED BY <2>3, <3>1, PowersAssumption
  <2> HIDE DEF a, b, d, Q
  <2> QED BY <2>0, <2>4, <2>5, <2>6, <2>7
<1> QED BY <1>0, <1>1

LEMMA SumsAreSame ==
    ASSUME NEW op \in BitOps, NEW x \in Int, NEW y \in Int, NEW n \in 0..MaxPower, NEW m \in 0..n,
           NEW g, Sums(g, op, x, y, n), NEW h, Sums(h, op, x, y, m)
    PROVE  g[m] = h[m]
<1> DEFINE Q == {k \in Nat : k <= m /\ g[k] # h[k]}
<1>0. n \in Nat /\ m \in Nat /\ m <= n BY Widths
<1>1. Q = {}
  <2> SUFFICES ASSUME Q # {} PROVE FALSE OBVIOUS
  <2>1. PICK k \in Q : \A i \in Q : k <= i BY Least
  <2>2. k # 0 BY <2>1 DEF Sums
  <2>3. k - 1 \in Nat /\ k - 1 \notin Q /\ k \in 1..n /\ k \in 1..m BY <1>0, <2>1, <2>2
  <2>4. g[k - 1] = h[k - 1] BY <1>0, <2>3
  <2>5. /\ g[k] = g[k - 1] + 2^(k - 1) * Digit(op, x, y, k - 1)
        /\ h[k] = h[k - 1] + 2^(k - 1) * Digit(op, x, y, k - 1)
    BY <2>3 DEF Sums
  <2> QED BY <2>1, <2>4, <2>5
<1> QED BY <1>0, <1>1

Sign(x) == IF x < 0 THEN 1 ELSE 0

(* Above the sign, a sum grows by the same bit. *)
LEMMA SumTail ==
    ASSUME NEW op \in BitOps, NEW l \in (-Quarter)..(Quarter - 1), NEW r \in (-Quarter)..(Quarter - 1),
           NEW n \in (WordBits - 2)..MaxPower, NEW g, Sums(g, op, l, r, n)
    PROVE  g[n] = g[WordBits - 2] + BitOp(op, Sign(l), Sign(r)) * (2^n - Quarter)
<1> DEFINE s == BitOp(op, Sign(l), Sign(r))
           p == WordBits - 2
           t == g[p]
           Q == {k \in Nat : p <= k /\ k <= n /\ g[k] # t + s * (2^k - Quarter)}
<1>0. n \in Nat /\ p \in Nat /\ p <= n /\ n <= MaxPower /\ n \in 0..MaxPower /\ p \in 0..n BY Widths
<1>1. l \in Int /\ r \in Int /\ Quarter \in Nat \ {0} BY Powers
<1>2. s \in {0, 1}
  <2>1. Sign(l) \in {0, 1} /\ Sign(r) \in {0, 1} BY DEF Sign
  <2> QED BY <2>1, Digits
<1>3. t \in Nat BY <1>0, <1>1, SumBounds
<1>4. Q = {}
  <2> SUFFICES ASSUME Q # {} PROVE FALSE OBVIOUS
  <2>1. PICK m \in Q : \A k \in Q : m <= k BY Least
  <2>2. m # p
    <3>1. t = t + s * (2^p - Quarter) BY <1>1, <1>2, <1>3 DEF Quarter
    <3> QED BY <2>1, <3>1
  <2>3. m \in Nat /\ p <= m /\ m <= n /\ g[m] # t + s * (2^m - Quarter) BY <2>1
  <2>4. m - 1 \in Nat /\ p <= m - 1 /\ m - 1 <= n /\ m - 1 \notin Q BY <1>0, <2>1, <2>2, <2>3
  <2>5. g[m - 1] = t + s * (2^(m - 1) - Quarter) BY <2>4
  <2>6. m \in 1..n /\ m - 1 \in p..MaxPower /\ m - 1 \in 0..MaxPower
    <3> HIDE DEF Q, t, s, p
    <3>1. MaxPower \in Nat BY Widths
    <3> QED BY <1>0, <2>3, <2>4, <3>1
  <2>7. g[m] = g[m - 1] + 2^(m - 1) * Digit(op, l, r, m - 1) BY <2>6 DEF Sums
  <2>8. Digit(op, l, r, m - 1) = s
    <3>1. Bit(l, m - 1) = Sign(l) /\ Bit(r, m - 1) = Sign(r) BY <1>1, <2>6, SignBits DEF Sign
    <3> QED BY <3>1 DEF Digit
  <2> DEFINE b == 2^(m - 1)
  <2>9. b \in Nat \ {0} /\ 2^m = 2 * b
    <3>1. (m - 1) + 1 = m BY <2>6
    <3> QED BY <2>6, <3>1, PowersAssumption
  <2>10. g[m] = (t + s * (b - Quarter)) + b * s BY <2>5, <2>7, <2>8
  <2> HIDE DEF b, t, s, Q, p
  <2>11. (t + s * (b - Quarter)) + b * s = t + s * (2 * b - Quarter) BY <1>1, <1>2, <1>3, <2>9
  <2> QED BY <2>3, <2>9, <2>10, <2>11
<1> HIDE DEF Q
<1>5. n \notin Q BY <1>4
<1> QED BY <1>0, <1>5 DEF Q

(* The sum over tagged words. *)
LEMMA SumShift ==
    ASSUME NEW op \in BitOps, NEW l \in Int, NEW r \in Int, NEW n \in 0..(MaxPower - 1),
           NEW g, Sums(g, op, l, r, n), NEW h, Sums(h, op, 2 * l + 1, 2 * r + 1, n + 1)
    PROVE  h[n + 1] = BitOp(op, 1, 1) + 2 * g[n]
<1> DEFINE c == BitOp(op, 1, 1)
           Q == {k \in Nat : k <= n /\ h[k + 1] # c + 2 * g[k]}
<1>0. n \in Nat /\ n + 1 \in Nat /\ n <= MaxPower /\ n \in 0..MaxPower /\ 0 \in 0..MaxPower BY Widths
<1>1. c \in {0, 1} BY Digits
<1>2. \A k \in 0..n : g[k] \in Nat BY <1>0, SumBounds
<1>3. Q = {}
  <2> SUFFICES ASSUME Q # {} PROVE FALSE OBVIOUS
  <2>1. PICK m \in Q : \A k \in Q : m <= k BY Least
  <2>2. m \in Nat /\ m <= n /\ h[m + 1] # c + 2 * g[m] BY <2>1
  <2>3. m # 0
    <3>1. h[0 + 1] = h[0] + 2^0 * Digit(op, 2 * l + 1, 2 * r + 1, 0)
      <4>1. 1 \in 1..(n + 1) /\ 0 + 1 = 1 /\ 1 - 1 = 0 BY <1>0
      <4> QED BY <4>1 DEF Sums
    <3>2. Digit(op, 2 * l + 1, 2 * r + 1, 0) = c
      <4>1. Bit(2 * l + 1, 0) = 1 /\ Bit(2 * r + 1, 0) = 1 BY <1>0, TaggedBits
      <4> QED BY <4>1 DEF Digit
    <3>3. h[0] = 0 /\ g[0] = 0 BY DEF Sums
    <3>4. 2^0 = 1 OBVIOUS
    <3> HIDE DEF c
    <3>5. h[0 + 1] = c + 2 * g[0] BY <1>1, <3>1, <3>2, <3>3, <3>4
    <3> QED BY <2>2, <3>5
  <2> DEFINE j == m - 1
  <2>4. j \in Nat /\ j <= n /\ j \notin Q /\ m = j + 1 BY <1>0, <2>1, <2>2, <2>3
  <2> HIDE DEF j
  <2>5. h[j + 1] = c + 2 * g[j] BY <2>4
  <2>6. j \in 0..MaxPower /\ j \in 0..n /\ j + 1 \in 1..n /\ (j + 1) + 1 \in 1..(n + 1)
        /\ (j + 1) - 1 = j /\ ((j + 1) + 1) - 1 = j + 1
    <3> HIDE DEF Q, c
    <3>1. j \in Nat /\ j + 1 <= n /\ MaxPower \in Nat BY <2>2, <2>4, Widths
    <3> QED BY <1>0, <3>1
  <2>7. g[j + 1] = g[j] + 2^j * Digit(op, l, r, j) BY <2>6 DEF Sums
  <2>8. h[(j + 1) + 1] = h[j + 1] + 2^(j + 1) * Digit(op, 2 * l + 1, 2 * r + 1, j + 1)
    BY <2>6 DEF Sums
  <2>9. Digit(op, 2 * l + 1, 2 * r + 1, j + 1) = Digit(op, l, r, j)
    <3>1. Bit(2 * l + 1, j + 1) = Bit(l, j) /\ Bit(2 * r + 1, j + 1) = Bit(r, j) BY <2>6, TaggedBits
    <3> QED BY <3>1 DEF Digit
  <2> DEFINE b == 2^j
             d == Digit(op, l, r, j)
  <2>10. b \in Nat \ {0} /\ 2^(j + 1) = 2 * b BY <2>6, PowersAssumption
  <2>11. d \in {0, 1} BY <2>6, DigitsAre
  <2>12. g[j] \in Nat BY <1>2, <2>6
  <2>13. h[(j + 1) + 1] = (c + 2 * g[j]) + (2 * b) * d BY <2>5, <2>8, <2>9, <2>10
  <2>14. g[j + 1] = g[j] + b * d BY <2>7
  <2> HIDE DEF b, d, c, Q
  <2>15. (c + 2 * g[j]) + (2 * b) * d = c + 2 * (g[j] + b * d) BY <1>1, <2>10, <2>11, <2>12
  <2> QED BY <2>2, <2>4, <2>13, <2>14, <2>15
<1> HIDE DEF Q
<1>4. n \notin Q BY <1>3
<1> QED BY <1>0, <1>4 DEF Q

LEMMA BitwiseIsInt ==
    ASSUME NEW op \in BitOps, NEW x \in Int, NEW y \in Int, NEW n \in 1..MaxPower
    PROVE  Bitwise(op, x, y, n) \in Int
<1>1. n \in 0..MaxPower /\ n \in 0..n BY Widths
<1>2. PICK g : Sums(g, op, x, y, n) /\ Bitwise(op, x, y, n) = Signed(g[n], n) BY <1>1, BitwiseSums
<1>3. g[n] \in Nat BY <1>1, <1>2, SumBounds
<1> DEFINE a == g[n] + 2^(n - 1)
           b == 2^n
<1>4. 2^(n - 1) \in Nat /\ b \in Nat \ {0} BY HalfRange
<1>5. a \in Int BY <1>3, <1>4
<1>6. Signed(g[n], n) = (a % b) - 2^(n - 1) BY DEF Signed
<1> HIDE DEF a, b
<1>7. a % b \in Int BY <1>4, <1>5, Division
<1> QED BY <1>2, <1>4, <1>6, <1>7

(* On small Integers, Bitwise does not depend on the number of bits, and can *)
(* be applied to tagged words.                                              *)
LEMMA SmallBits ==
    ASSUME NEW op \in BitOps, NEW l \in (-Quarter)..(Quarter - 1), NEW r \in (-Quarter)..(Quarter - 1)
    PROVE  \E v \in (-Quarter)..(Quarter - 1) :
             /\ \A n \in WordBits..MaxPower : Bitwise(op, l, r, n) = v
             /\ Bitwise(op, 2 * l + 1, 2 * r + 1, WordBits) = 2 * v + BitOp(op, 1, 1)
<1> DEFINE p == WordBits - 2
           s == BitOp(op, Sign(l), Sign(r))
           c == BitOp(op, 1, 1)
<1>0. /\ p \in 0..MaxPower /\ p \in 0..p /\ WordBits \in Nat /\ MaxPower \in Nat
      /\ l \in Int /\ r \in Int /\ Quarter \in Nat \ {0}
  BY Widths, Powers
<1>1. s \in {0, 1} /\ c \in {0, 1}
  <2>1. Sign(l) \in {0, 1} /\ Sign(r) \in {0, 1} BY DEF Sign
  <2> QED BY <2>1, Digits
<1>2. PICK t : Sums(t, op, l, r, p) BY <1>0, BitwiseSums
<1>3. t[p] \in Nat /\ t[p] < Quarter BY <1>0, <1>2, SumBounds DEF Quarter
<1> DEFINE v == t[p] - s * Quarter
<1>4. v \in (-Quarter)..(Quarter - 1)
  <2> HIDE DEF s
  <2> QED BY <1>0, <1>1, <1>3
<1>5. ASSUME NEW n \in (WordBits - 2)..MaxPower, NEW g, Sums(g, op, l, r, n)
      PROVE  g[n] = v + s * 2^n
  <2>1. n \in 0..MaxPower /\ p \in 0..n BY <1>0
  <2>2. g[p] = t[p] BY <1>0, <1>2, <1>5, <2>1, SumsAreSame
  <2>3. g[n] = g[p] + s * (2^n - Quarter) BY <1>5, SumTail
  <2>4. 2^n \in Nat BY <2>1, PowersAssumption
  <2> DEFINE b == 2^n
  <2> HIDE DEF b, s
  <2>5. b \in Nat BY <2>4 DEF b
  <2>6. g[n] = t[p] + s * (b - Quarter) BY <2>2, <2>3 DEF b
  <2> QED BY <1>0, <1>1, <1>3, <2>5, <2>6 DEF b
<1>6. ASSUME NEW n \in WordBits..MaxPower PROVE Bitwise(op, l, r, n) = v
  <2>1. n \in 0..MaxPower /\ n \in 1..MaxPower /\ n \in (WordBits - 2)..MaxPower BY <1>0, Widths
  <2>2. PICK g : Sums(g, op, l, r, n) /\ Bitwise(op, l, r, n) = Signed(g[n], n)
    BY <1>0, <2>1, BitwiseSums
  <2>3. g[n] = v + s * 2^n BY <1>5, <2>1, <2>2
  <2>4. -2^(n - 1) <= v /\ v < 2^(n - 1)
    <3>1. n - 1 \in 0..MaxPower /\ p \in 0..(n - 1) BY <1>0
    <3>2. Quarter <= 2^(n - 1) /\ 2^(n - 1) \in Nat BY <3>1, Monotone, PowersAssumption DEF Quarter
    <3> HIDE DEF v
    <3> QED BY <1>0, <1>4, <3>2
  <2>5. v \in Int /\ s \in Int BY <1>0, <1>1, <1>4
  <2> HIDE DEF v, s
  <2>6. Signed(v + s * 2^n, n) = v BY <2>1, <2>4, <2>5, Wraps
  <2> QED BY <2>2, <2>3, <2>6
<1>7. Bitwise(op, 2 * l + 1, 2 * r + 1, WordBits) = 2 * v + c
  <2> DEFINE n == WordBits - 1
  <2>1. /\ n \in (WordBits - 2)..MaxPower /\ n \in 0..MaxPower /\ n \in 0..(MaxPower - 1)
        /\ n + 1 = WordBits /\ WordBits \in 0..MaxPower /\ WordBits \in 1..MaxPower
    BY <1>0, Widths
  <2>2. PICK g : Sums(g, op, l, r, n) BY <1>0, <2>1, BitwiseSums
  <2>3. 2 * l + 1 \in Int /\ 2 * r + 1 \in Int BY <1>0
  <2>4. PICK h : /\ Sums(h, op, 2 * l + 1, 2 * r + 1, WordBits)
                 /\ Bitwise(op, 2 * l + 1, 2 * r + 1, WordBits) = Signed(h[WordBits], WordBits)
    BY <2>1, <2>3, BitwiseSums
  <2>5. h[WordBits] = c + 2 * g[n]
    <3> HIDE DEF n, c
    <3>1. Sums(h, op, 2 * l + 1, 2 * r + 1, n + 1) BY <2>1, <2>4
    <3>2. h[n + 1] = BitOp(op, 1, 1) + 2 * g[n] BY <1>0, <2>1, <2>2, <3>1, SumShift
    <3> QED BY <2>1, <3>2 DEF c
  <2>6. g[n] = v + s * 2^n BY <1>5, <2>1, <2>2
  <2>7. 2^n = 2 * Quarter /\ 2^WordBits = 4 * Quarter BY Powers
  <2> DEFINE u == 2 * v + c
  <2>8. u \in Int /\ s \in Int /\ -2^(WordBits - 1) <= u /\ u < 2^(WordBits - 1)
    <3> HIDE DEF v, c, s
    <3> QED BY <1>0, <1>1, <1>4, <2>7
  <2>9. h[WordBits] = u + s * 2^WordBits
    <3>1. v \in Int BY <1>0, <1>4
    <3> HIDE DEF v, c, s, n
    <3>2. h[WordBits] = c + 2 * (v + s * (2 * Quarter)) BY <2>5, <2>6, <2>7
    <3> QED BY <1>0, <1>1, <2>7, <3>1, <3>2
  <2> HIDE DEF u, s
  <2>10. Signed(u + s * 2^WordBits, WordBits) = u BY <2>1, <2>8, Wraps
  <2> QED BY <2>4, <2>9, <2>10 DEF u
<1> HIDE DEF v
<1> QED BY <1>4, <1>6, <1>7

(***************************************************************************)
(* &, | and ^ act on the bits of the numbers, on tagged words as well.     *)
(***************************************************************************)
THEOREM BitsAreExact ==
    ASSUME NEW op \in BitOps, NEW form \in {"rr", "ri", "ir"}, NEW l \in Int, NEW r \in Int
    PROVE  /\ VmBinary(op, Value(l), Value(r)) = Meaning(op, l, r)
           /\ JitBinary(op, form, Value(l), Value(r)) = Meaning(op, l, r)
<1> DEFINE a == Value(l)
           b == Value(r)
           w == Bitwise(op, l, r, 2 * WordBits)
           meaning == Meaning(op, l, r)
<1>0. op \in {"bitand", "bitor", "bitxor"} BY DEF BitOps
<1>1. 2 * WordBits \in 1..MaxPower /\ 2 * WordBits \in WordBits..MaxPower
      /\ WordBits \in WordBits..MaxPower
  BY Widths
<1>2. w \in Int BY <1>1, BitwiseIsInt
<1>3. meaning = Value(w) BY <1>0 DEF Meaning
<1>4. Unpack(a) = l /\ Unpack(b) = r BY Unpacked
<1>5. ASSUME Both(a, b)
      PROVE  Values(op, a, b) = meaning /\ FastBits(op, a[2], b[2]) = meaning
  <2>1. /\ l \in (-Quarter)..(Quarter - 1) /\ r \in (-Quarter)..(Quarter - 1)
        /\ a[2] = 2 * l + 1 /\ b[2] = 2 * r + 1
    BY <1>5, Unpacked DEF Both
  <2>2. PICK v \in (-Quarter)..(Quarter - 1) :
             /\ \A n \in WordBits..MaxPower : Bitwise(op, l, r, n) = v
             /\ Bitwise(op, 2 * l + 1, 2 * r + 1, WordBits) = 2 * v + BitOp(op, 1, 1)
    BY <2>1, SmallBits
  <2>3. w = v /\ Bitwise(op, l, r, WordBits) = v BY <1>1, <2>2
  <2>4. Quarter \in Nat \ {0} /\ v \in Int BY Powers
  <2>5. InWord(v) BY <2>4, Words
  <2>6. NewInteger(v) = Value(v) BY <2>4, <2>5, Made
  <2>7. Values(op, a, b) = NewInteger(v)
    <3>1. Values(op, a, b) = BitValues(op, a, b) BY <1>0 DEF Values
    <3>2. BitValues(op, a, b) = NewInteger(Bitwise(op, l, r, WordBits)) BY <1>4, <1>5 DEF BitValues
    <3> QED BY <2>3, <3>1, <3>2
  <2>8. BitOp(op, 1, 1) + (IF op = "bitxor" THEN 1 ELSE 0) = 1 BY <1>0 DEF BitOp
  <2>9. BitOp(op, 1, 1) \in {0, 1} BY Digits
  <2>10. (2 * v + BitOp(op, 1, 1)) + (IF op = "bitxor" THEN 1 ELSE 0) = 2 * v + 1
    BY <2>4, <2>8, <2>9
  <2>11. FastBits(op, a[2], b[2]) = <<"fixnum", 2 * v + 1>> BY <2>1, <2>2, <2>10 DEF FastBits
  <2>12. Value(v) = <<"fixnum", 2 * v + 1>> BY <2>4, Smalls
  <2> QED BY <1>3, <2>3, <2>6, <2>7, <2>11, <2>12
<1>6. ASSUME ~Both(a, b) PROVE Values(op, a, b) = meaning
  <2>1. Values(op, a, b) = BitValues(op, a, b) BY <1>0 DEF Values
  <2>2. BitValues(op, a, b) = NewBigint(w) BY <1>4, <1>6 DEF BitValues
  <2> HIDE DEF w
  <2>3. NewBigint(w) = Value(w) BY <1>2, Made
  <2> QED BY <1>3, <2>1, <2>2, <2>3
<1> HIDE DEF a, b, meaning
<1>7. VmBinary(op, a, b) = meaning
  <2>1. CASE Both(a, b) BY <1>0, <1>5, <2>1 DEF VmBinary
  <2>2. CASE ~Both(a, b) BY <1>6, <2>2 DEF VmBinary
  <2> QED BY <2>1, <2>2
<1>8. JitBinary(op, form, a, b) = meaning
  <2>1. CASE Both(a, b) BY <1>0, <1>5, <2>1 DEF JitBinary
  <2>2. CASE ~Both(a, b) BY <1>0, <1>6, <2>2 DEF JitBinary
  <2> QED BY <2>1, <2>2
<1> QED BY <1>7, <1>8 DEF a, b, meaning

-----------------------------------------------------------------------------
(* Powers.                                                                  *)

LEMMA PowerIsInt == ASSUME NEW l \in Int, NEW r \in Nat PROVE Power(l, r) \in Int
<1> DEFINE step == [j \in 1..r |-> [t \in Int |-> l * t]]
<1>1. r \in Nat /\ 0 <= r /\ 0 \in Nat /\ 1 \in Int /\ 0 \in 0..r /\ r \in 0..r OBVIOUS
<1>2. \A j \in (0 + 1)..r : \A t \in Int : step[j][t] = l * t OBVIOUS
<1> HIDE DEF step
<1>3. \A j \in (0 + 1)..r : \A t \in Int : step[j][t] \in Int BY <1>2, Product
<1>4. PICK g \in [0..r -> Int] : Filled(g, 1, step, 0, r) BY <1>1, <1>3, TablesExist
<1> DEFINE Body(f) == [n \in 0..r |-> IF n = 0 THEN 1 ELSE l * f[n - 1]]
<1>5. g = Body(g)
  <2>1. \A n \in 0..r : g[n] = IF n = 0 THEN 1 ELSE l * g[n - 1]
    <3> SUFFICES ASSUME NEW n \in 0..r, n # 0 PROVE g[n] = l * g[n - 1] BY <1>4 DEF Filled
    <3>1. n \in (0 + 1)..r /\ n - 1 \in 0..r OBVIOUS
    <3>2. g[n] = step[n][g[n - 1]] /\ g[n - 1] \in Int BY <1>4, <3>1 DEF Filled
    <3> QED BY <1>2, <3>1, <3>2
  <2> QED BY <1>4, <2>1
<1> DEFINE power == CHOOSE f : f = Body(f)
<1>6. power = Body(power)
  <2> HIDE DEF Body
  <2> QED BY <1>5
<1>7. Power(l, r) = power[r] BY DEF Power
<1>8. \A n \in 0..r : power[n] \in Int
  <2>1. \A n \in 0..r : power[n] = Body(power)[n] BY <1>6
  <2> HIDE DEF power
  <2>2. \A n \in 0..r : power[n] = IF n = 0 THEN 1 ELSE l * power[n - 1] BY <2>1
  <2> DEFINE Q == {n \in Nat : n <= r /\ ~(power[n] \in Int)}
  <2>3. Q = {}
    <3> SUFFICES ASSUME Q # {} PROVE FALSE OBVIOUS
    <3>1. PICK m \in Q : \A k \in Q : m <= k BY Least
    <3>2. m \in 0..r /\ ~(power[m] \in Int) BY <3>1
    <3>3. m # 0 BY <2>2, <3>2
    <3>4. m - 1 \in Nat /\ m - 1 <= r /\ m - 1 \notin Q BY <3>1, <3>2, <3>3
    <3>5. power[m - 1] \in Int BY <3>4
    <3>6. l * power[m - 1] \in Int BY <3>5, Product
    <3> QED BY <2>2, <3>2, <3>3, <3>6
  <2> QED BY <2>3
<1> HIDE DEF power
<1> QED BY <1>1, <1>7, <1>8

(***************************************************************************)
(* ** is exact for the exponents of 31 bits, which are small Integers.     *)
(***************************************************************************)
THEOREM PowersAreExact ==
    ASSUME NEW form \in {"rr", "ri", "ir"}, NEW l \in Int, NEW r \in Int, ~NoPower("exp", r)
    PROVE  /\ VmBinary("exp", Value(l), Value(r)) = Meaning("exp", l, r)
           /\ JitBinary("exp", form, Value(l), Value(r)) = Meaning("exp", l, r)
<1> DEFINE a == Value(l)
           b == Value(r)
           p == Power(l, r)
           meaning == Meaning("exp", l, r)
<1>1. IsI32(r) /\ r >= 0 /\ r \in Nat BY DEF NoPower
<1>2. p \in Int BY <1>1, PowerIsInt
<1>3. r \in (-Quarter)..(Quarter - 1)
  <2>1. CountBits \in 1..MaxPower BY Widths
  <2>2. r < 2^(CountBits - 1) BY <1>1, <2>1, SignedIs DEF IsI32
  <2>3. WordBits - 2 \in 0..MaxPower /\ CountBits - 1 \in 0..(WordBits - 2) BY Widths
  <2>4. 2^(CountBits - 1) <= Quarter BY <2>3, Monotone DEF Quarter
  <2>5. 2^(CountBits - 1) \in Nat /\ Quarter \in Nat BY <2>1, HalfRange, Powers
  <2> QED BY <1>1, <2>2, <2>4, <2>5
<1>4. meaning = Value(p) BY DEF Meaning
<1>5. PowII(l, r) = meaning
  <2>1. PowII(l, r) = NewBigint(p) BY <1>1 DEF PowII
  <2> HIDE DEF p
  <2>2. NewBigint(p) = Value(p) BY <1>2, Made
  <2> QED BY <1>4, <2>1, <2>2
<1>6. Unpack(a) = l /\ Unpack(b) = r /\ IsFixnum(b) BY <1>3, Unpacked
<1>7. Both(a, b) => Untag(a[2]) = l /\ Untag(b[2]) = r BY <1>6 DEF Both, Unpack
<1>8. Values("exp", a, b) = meaning
  <2>1. Values("exp", a, b) = PowValues(a, b) BY DEF Values
  <2>2. PowValues(a, b) = PowII(l, r) BY <1>6 DEF PowValues
  <2> QED BY <1>5, <2>1, <2>2
<1> HIDE DEF a, b, meaning, p
<1>9. VmBinary("exp", a, b) = meaning BY <1>8 DEF VmBinary
<1>10. JitBinary("exp", form, a, b) = meaning
  <2>1. CASE Both(a, b) BY <1>5, <1>7, <2>1 DEF JitBinary
  <2>2. CASE ~Both(a, b) BY <1>9, <2>2 DEF JitBinary
  <2> QED BY <2>1, <2>2
<1> QED BY <1>9, <1>10 DEF a, b, meaning

-----------------------------------------------------------------------------
(* Negation and comparisons.                                                *)

(***************************************************************************)
(* Negation is exact, in the generic function for all Integers, and in the *)
(* interpreter for all but the least small one.                            *)
(***************************************************************************)
THEOREM NegationIsExact ==
    ASSUME NEW n \in Int
    PROVE  /\ NegValue(Value(n)) = Value(-n)
           /\ n # -Quarter => VmNeg(Value(n)) = Value(-n)
<1> DEFINE m == -n
<1>1. m \in Int /\ Unpack(Value(n)) = n BY Unpacked
<1>2. NegValue(Value(n)) = Value(m)
  <2>1. NegValue(Value(n)) =
          IF IsFixnum(Value(n)) /\ InWord(m) THEN NewInteger(m) ELSE NewBigint(m)
    BY <1>1 DEF NegValue
  <2> HIDE DEF m
  <2>2. NewBigint(m) = Value(m) /\ (InWord(m) => NewInteger(m) = Value(m)) BY <1>1, Made
  <2> QED BY <2>1, <2>2
<1>3. ASSUME n # -Quarter, IsFixnum(Value(n)) PROVE VmNeg(Value(n)) = Value(m)
  <2>1. Quarter \in Nat \ {0} BY Powers
  <2>2. n \in (-Quarter)..(Quarter - 1) BY <1>3, Unpacked
  <2>3. Untag(Value(n)[2]) = n BY <1>1, <1>3 DEF Unpack
  <2>4. VmNeg(Value(n)) = <<"fixnum", Word(2 * Word(m) + 1)>> BY <1>3, <2>3 DEF VmNeg
  <2>5. m \in (-Quarter)..(Quarter - 1) BY <1>3, <2>1, <2>2
  <2> HIDE DEF m
  <2>6. InWord(m) /\ InWord(2 * m + 1) BY <1>1, <2>1, <2>5, Words
  <2>7. Word(m) = m /\ Word(2 * m + 1) = 2 * m + 1 BY <2>6 DEF InWord
  <2>8. Value(m) = <<"fixnum", 2 * m + 1>> BY <1>1, <2>5, Smalls
  <2> QED BY <2>4, <2>7, <2>8
<1>4. ~IsFixnum(Value(n)) => VmNeg(Value(n)) = NegValue(Value(n)) BY DEF VmNeg
<1> QED BY <1>2, <1>3, <1>4

(***************************************************************************)
(* A comparison orders the numbers, whether it compares tagged words or    *)
(* unpacks its operands.                                                   *)
(***************************************************************************)
THEOREM ComparisonIsExact ==
    ASSUME NEW kind, NEW x \in Int, NEW y \in Int
    PROVE  IntegerCmp(kind, Value(x), Value(y)) = Holds(kind, OrderOf(x, y))
<1>1. CASE Both(Value(x), Value(y))
  <2>1. Value(x)[2] = 2 * x + 1 /\ Value(y)[2] = 2 * y + 1 BY <1>1, Unpacked DEF Both
  <2>2. OrderOf(2 * x + 1, 2 * y + 1) = OrderOf(x, y) BY DEF OrderOf
  <2> QED BY <1>1, <2>1, <2>2 DEF IntegerCmp
<1>2. CASE ~Both(Value(x), Value(y))
  <2>1. Unpack(Value(x)) = x /\ Unpack(Value(y)) = y BY Unpacked
  <2> QED BY <1>2, <2>1 DEF IntegerCmp
<1> QED BY <1>1, <1>2

-----------------------------------------------------------------------------
(* The arithmetic instructions.                                             *)

BinOps == {"add", "sub", "mul", "div", "bitor", "bitand", "bitxor", "shr", "shl", "rem", "exp"}
CmpKinds == {"eq", "ne", "lt", "le", "gt", "ge"}

LEMMA BinaryIsExact ==
    ASSUME NEW op \in BinOps, NEW form \in {"rr", "ri", "ir"}, form = "ri" => op \notin {"shl", "shr"}
    PROVE  BinaryExact(op, form)
<1> SUFFICES ASSUME NEW l \in Lefts(op, form), NEW r \in Rights(op, form), ~Inexact(op, l, r)
             PROVE  /\ VmBinary(op, Value(l), Value(r)) = Meaning(op, l, r)
                    /\ ~IntoSign(op, l, r) => JitBinary(op, form, Value(l), Value(r)) = Meaning(op, l, r)
  BY DEF BinaryExact
<1>1. l \in Int BY DEF Lefts, Immediates
<1>2. r \in Int BY DEF Rights, Immediates
<1>3. ~Truncates(op, l, r) /\ ~ShiftsOut(op, l, r) /\ ~CountsLost(op, r) /\ ~NoPower(op, r)
  BY DEF Inexact
<1>4. CASE op \in {"add", "sub", "mul", "div", "rem"} BY <1>1, <1>2, <1>3, <1>4, ArithmeticIsExact
<1>5. CASE op \in BitOps BY <1>1, <1>2, <1>5, BitsAreExact
<1>6. CASE op \in {"shl", "shr"}
  <2>1. r \in -MaxCount..MaxCount BY <1>6 DEF Rights
  <2>2. Abs(r) \in 0..MaxPower BY <1>2, <2>1, Widths DEF Abs
  <2> QED BY <1>1, <1>2, <1>3, <1>6, <2>2, ShiftsAreExact
<1>7. CASE op = "exp" BY <1>1, <1>2, <1>3, <1>7, PowersAreExact
<1> QED BY <1>4, <1>5, <1>6, <1>7 DEF BinOps, BitOps

LEMMA FlagsAre ==
    ASSUME NEW order
    PROVE  /\ FloatFlag("eq", order) = Zero(order)
           /\ FloatFlag("ne", order) = ~Zero(order)
           /\ FloatFlag("lt", order) = Carry(order)
           /\ FloatFlag("le", order) = (Carry(order) \/ Zero(order))
           /\ FloatFlag("gt", order) = (~Carry(order) /\ ~Zero(order))
           /\ FloatFlag("ge", order) = ~Carry(order)
BY DEF FloatFlag

LEMMA FlagsAreExact ==
    ASSUME NEW kind \in CmpKinds, NEW order \in Orders, ~(order = "unordered" /\ Unordered(kind))
    PROVE  /\ FloatFlag(kind, order) <=> Holds(kind, order)
           /\ BranchTaken(kind, "if", order) <=> Holds(kind, order)
           /\ BranchTaken(kind, "ifnot", order) <=> ~Holds(kind, order)
<1>1. FloatFlag(kind, order) <=> Holds(kind, order)
  BY DEF CmpKinds, Orders, Unordered, FloatFlag, Holds, Zero, Carry
<1>2. BranchTaken(kind, "if", order) <=> FloatFlag(kind, order) BY DEF BranchTaken
<1>3. BranchTaken(kind, "ifnot", order) <=> FloatFlag(RevKind[kind], order) BY DEF BranchTaken
<1>4. FloatFlag(RevKind[kind], order) <=> ~FloatFlag(kind, order)
  <2>1. /\ RevKind["eq"] = "ne" /\ RevKind["ne"] = "eq" /\ RevKind["lt"] = "ge"
        /\ RevKind["le"] = "gt" /\ RevKind["gt"] = "le" /\ RevKind["ge"] = "lt"
    BY DEF RevKind
  <2> QED BY <2>1, FlagsAre DEF CmpKinds
<1> QED BY <1>1, <1>2, <1>3, <1>4

LEMMA CompareIsExact == ASSUME NEW kind \in CmpKinds PROVE CompareExact(kind)
<1>1. ASSUME NEW order \in Orders, ~(order = "unordered" /\ Unordered(kind))
      PROVE  /\ FloatFlag(kind, order) = Holds(kind, order)
             /\ BranchTaken(kind, "if", order) = Holds(kind, order)
             /\ BranchTaken(kind, "ifnot", order) = ~Holds(kind, order)
  <2>1. \A k \in CmpKinds, o \in Orders : FloatFlag(k, o) \in BOOLEAN /\ Holds(k, o) \in BOOLEAN
    <3> SUFFICES ASSUME NEW k \in CmpKinds, NEW o \in Orders
                 PROVE  FloatFlag(k, o) \in BOOLEAN /\ Holds(k, o) \in BOOLEAN
      OBVIOUS
    <3>1. FloatFlag(k, o) \in BOOLEAN
      <4>1. k = "eq" => FloatFlag(k, o) \in BOOLEAN BY DEF FloatFlag, Zero, Carry
      <4>2. k = "ne" => FloatFlag(k, o) \in BOOLEAN BY DEF FloatFlag, Zero, Carry
      <4>3. k = "lt" => FloatFlag(k, o) \in BOOLEAN BY DEF FloatFlag, Zero, Carry
      <4>4. k = "le" => FloatFlag(k, o) \in BOOLEAN BY DEF FloatFlag, Zero, Carry
      <4>5. k = "gt" => FloatFlag(k, o) \in BOOLEAN BY DEF FloatFlag, Zero, Carry
      <4>6. k = "ge" => FloatFlag(k, o) \in BOOLEAN BY DEF FloatFlag, Zero, Carry
      <4> QED BY <4>1, <4>2, <4>3, <4>4, <4>5, <4>6 DEF CmpKinds
    <3>2. Holds(k, o) \in BOOLEAN
      <4>1. k = "eq" => Holds(k, o) \in BOOLEAN BY DEF Holds
      <4>2. k = "ne" => Holds(k, o) \in BOOLEAN BY DEF Holds
      <4>3. k = "lt" => Holds(k, o) \in BOOLEAN BY DEF Holds
      <4>4. k = "le" => Holds(k, o) \in BOOLEAN BY DEF Holds
      <4>5. k = "gt" => Holds(k, o) \in BOOLEAN BY DEF Holds
      <4>6. k = "ge" => Holds(k, o) \in BOOLEAN BY DEF Holds
      <4> QED BY <4>1, <4>2, <4>3, <4>4, <4>5, <4>6 DEF CmpKinds
    <3> QED BY <3>1, <3>2
  <2>2. RevKind[kind] \in CmpKinds BY DEF CmpKinds, RevKind
  <2>3. BranchTaken(kind, "if", order) \in BOOLEAN BY <2>1 DEF BranchTaken
  <2>4. BranchTaken(kind, "ifnot", order) \in BOOLEAN BY <2>1, <2>2 DEF BranchTaken
  <2> QED BY <1>1, <2>1, <2>3, <2>4, FlagsAreExact
<1>2. \A x, y \in -MaxOperand..MaxOperand :
        IntegerCmp(kind, Value(x), Value(y)) = Holds(kind, OrderOf(x, y))
  BY ComparisonIsExact
<1> QED BY <1>1, <1>2 DEF CompareExact

LEMMA NegIsExact == NegExact
<1> SUFFICES ASSUME NEW n \in -MaxOperand..MaxOperand
             PROVE  NegValue(Value(n)) = Value(-n) /\ (n = -2^(WordBits - 2) \/ VmNeg(Value(n)) = Value(-n))
  BY DEF NegExact
<1>1. n \in Int OBVIOUS
<1>2. NegValue(Value(n)) = Value(-n) /\ (n # -Quarter => VmNeg(Value(n)) = Value(-n))
  BY <1>1, NegationIsExact
<1> QED BY <1>2 DEF Quarter
=============================================================================
